-------------------------- MODULE PositionMonitor ---------------------------
(***************************************************************************)
(* PositionMonitorService.run: every five seconds, one tick at a time,     *)
(* enforce the holding limit, reconcile the Trade rows with the exchange,  *)
(* move stops to breakeven, expire stale signals, refill open slots, and   *)
(* ask for a scan when nothing waits to be executed.                       *)
(* The monitor works on what it read at the start of each stage.           *)
(***************************************************************************)
EXTENDS OrderExecution, Exchange

CONSTANT
    AutoExecute     \* requireDashboardConfirmation = false

VARIABLES
    mon,    \* the tick in progress
    aged    \* trades open for longer than maxHoldingHours

monitorVars == <<mon, aged>>

MonitorPcs ==
    {"idle", "timeouts", "cancelOrders", "cancelRows", "closeAged", "recordAged",
     "fetch", "readDb", "finalize", "finalizeRows", "import",
     "trail", "moving", "beRow", "bePlace", "beRecord",
     "expire", "refill", "claiming", "awaiting", "flow", "scanning"}

\* What finalizeExchangeClosedTrade can decide.
FinalStatus == {"take_profit", "stopped"}

MonitorTypeOK ==
    /\ mon \in [pc : MonitorPcs,
                todo : SUBSET Trades,               \* trades of this stage
                seen : SUBSET (Trades \X Kinds),    \* open Order rows read
                cur : Trades \cup {None},           \* the trade at hand
                verdict : {"none"} \cup FinalStatus, \* on that trade
                positions : [Symbols -> Nat],       \* positions fetched
                orphans : SUBSET Symbols,           \* positions to import
                queue : SUBSET Signals,             \* refill candidates
                taken : SUBSET Symbols,             \* symbols not to refill
                again : BOOLEAN]                    \* the scan has been asked for
    /\ aged \in SUBSET Trades

Idle == [pc |-> "idle", todo |-> {}, seen |-> {}, cur |-> None,
         verdict |-> "none", positions |-> [m \in Symbols |-> 0], orphans |-> {}, queue |-> {},
         taken |-> {}, again |-> FALSE]

MonitorInit == mon = Idle /\ aged = {}

MonAt(pc) == mon.pc = pc
MonGoto(pc) == mon' = [mon EXCEPT !.pc = pc]

\* A stage leaves nothing to the next one.
MonStage(pc) == mon' = [Idle EXCEPT !.pc = pc]

OpenRows == {o \in Trades \X Kinds : rows[o[1]][o[2]] = "open"}

SeenOf(t) == {o \in mon.seen : o[1] = t}

RowsFrom(t, status) ==
    [rows EXCEPT ![t] = [k \in Kinds |-> IF rows[t][k] = "open" THEN status
                                                               ELSE rows[t][k]]]

\* Faulty variant: update instead of updateMany.
TradeClosedUnguarded(t, status) == [trade EXCEPT ![t].status = status]

\* updateMany where the trade is still 'live_open'.
TradeClosedAs(t, status) ==
    IF trade[t].status = "live_open" THEN [trade EXCEPT ![t].status = status]
                                     ELSE trade

monUnchanged == <<settings, sig, expired, ex, events, aged>>

-----------------------------------------------------------------------------
\* monitorLiveTrades: without live mode the tick goes on to the signals.
StartTick ==
    /\ MonAt("idle")
    /\ IF settings.mode = "live"
       THEN mon' = [mon EXCEPT !.pc = "timeouts",
                               !.todo = IF settings.isPaused THEN {}
                                        ELSE LiveTrades \cap aged,
                               !.seen = OpenRows]
       ELSE MonGoto("expire")
    /\ UNCHANGED <<stateVars, ex, events, aged>>

\* Faulty variant: a trade without open orders is taken for closed.
NextTimeoutWithOrders ==
    /\ MonAt("timeouts")
    /\ \/ \E t \in mon.todo :
            mon' = IF SeenOf(t) = {} THEN [mon EXCEPT !.todo = @ \ {t}]
                   ELSE [mon EXCEPT !.pc = "cancelOrders", !.cur = t, !.todo = @ \ {t}]
       \/ mon.todo = {} /\ MonStage("fetch")
    /\ UNCHANGED <<stateVars, ex, events, aged>>

\* closeTimedOutTrade, for each trade past its holding limit: cancel the
\* orders (a failure is only logged) ...
NextTimeout ==
    /\ MonAt("timeouts")
    /\ \/ \E t \in mon.todo :
            mon' = [mon EXCEPT !.pc = "cancelOrders", !.cur = t, !.todo = @ \ {t}]
       \/ mon.todo = {} /\ MonStage("fetch")
    /\ UNCHANGED <<stateVars, ex, events, aged>>

CancelAgedOrders ==
    /\ MonAt("cancelOrders")
    /\ \E kept \in SUBSET SeenOf(mon.cur) :
         /\ kept # {} => MayFail("cancel")
         /\ resting' = resting \ (SeenOf(mon.cur) \ kept)
    /\ MonGoto("cancelRows")
    /\ UNCHANGED <<monUnchanged, trade, rows, pos>>

CancelAgedRows ==
    /\ MonAt("cancelRows")
    /\ rows' = RowsFrom(mon.cur, "cancelled")
    /\ MonGoto("closeAged")
    /\ UNCHANGED <<monUnchanged, trade, pos, resting>>

\* ... close at market: without a position the reduceOnly order is rejected,
\* and the trade waits for the next tick, as it does when the position is
\* closed but the answer is lost, or neither the fill nor the mark price tells
\* at which price ...
CloseAged ==
    /\ MonAt("closeAged")
    /\ LET m == trade[mon.cur].symbol IN
       \/ /\ pos[m] > 0
          /\ pos' = [pos EXCEPT ![m] = Reduced(@, trade[mon.cur].qty)]
          /\ \/ MonGoto("recordAged")
             \/ /\ MayFail("markPrice") \/ MayFail("closeTimeout")
                /\ mon' = [mon EXCEPT !.pc = "timeouts", !.cur = None]
       \/ /\ pos[m] = 0 \/ MayFail("close")
          /\ mon' = [mon EXCEPT !.pc = "timeouts", !.cur = None]
          /\ UNCHANGED pos
    /\ UNCHANGED <<monUnchanged, trade, rows, resting>>

\* ... and close the row if nobody else has.
RecordAged ==
    /\ MonAt("recordAged")
    /\ trade' = TradeClosedAs(mon.cur, "time_stop")
    /\ mon' = [mon EXCEPT !.pc = "timeouts", !.cur = None]
    /\ UNCHANGED <<monUnchanged, rows, pos, resting>>

-----------------------------------------------------------------------------
\* Reconciliation: the positions first, the open trades an await later.
FetchPositions ==
    /\ MonAt("fetch")
    /\ \/ mon' = [mon EXCEPT !.pc = "readDb", !.positions = pos]
       \/ MayFail("positions") /\ MonStage("trail")
    /\ UNCHANGED <<stateVars, ex, events, aged>>

\* Faulty variant: without positions there is nothing to compare.
ReadDbWhenPositions ==
    /\ MonAt("readDb")
    /\ mon' = [mon EXCEPT
                 !.pc = "finalize",
                 !.todo = IF \A m \in Symbols : mon.positions[m] = 0 THEN {}
                          ELSE {t \in LiveTrades : mon.positions[trade[t].symbol] = 0},
                 !.orphans = {m \in Symbols : mon.positions[m] > 0
                                              /\ LiveTradesOf(m) = {}}]
    /\ UNCHANGED <<stateVars, ex, events, aged>>

\* Faulty variant: positions without a trade are ignored.
ReadDbIgnoringOrphans ==
    /\ MonAt("readDb")
    /\ mon' = [mon EXCEPT
                 !.pc = "finalize",
                 !.todo = {t \in LiveTrades : mon.positions[trade[t].symbol] = 0}]
    /\ UNCHANGED <<stateVars, ex, events, aged>>

ReadDb ==
    /\ MonAt("readDb")
    /\ mon' = [mon EXCEPT
                 !.pc = "finalize",
                 !.todo = {t \in LiveTrades : mon.positions[trade[t].symbol] = 0},
                 !.orphans = {m \in Symbols : mon.positions[m] > 0
                                              /\ LiveTradesOf(m) = {}}]
    /\ UNCHANGED <<stateVars, ex, events, aged>>

\* Faulty variant: the trade's status is written into its Order rows.
RowStatusAfterVerdict(status) == status

\* What becomes of the open Order rows.
RowStatusAfter(status) == IF status = "take_profit" THEN "filled" ELSE "triggered"

\* finalizeExchangeClosedTrade: the sign of the realised result decides the
\* status; without a result and a mark price the trade waits.
FinalizeTrade ==
    /\ MonAt("finalize")
    /\ \/ \E t \in mon.todo, status \in FinalStatus :
            /\ trade' = TradeClosedAs(t, status)
            /\ mon' = IF trade[t].status = "live_open"
                      THEN [mon EXCEPT !.pc = "finalizeRows", !.cur = t,
                                       !.verdict = status, !.todo = @ \ {t}]
                      ELSE [mon EXCEPT !.todo = @ \ {t}]
       \/ /\ MayFail("markPrice")
          /\ \E t \in mon.todo : mon' = [mon EXCEPT !.todo = @ \ {t}]
          /\ UNCHANGED trade
       \/ /\ mon.todo = {}
          /\ MonGoto("import")
          /\ UNCHANGED trade
    /\ UNCHANGED <<monUnchanged, rows, pos, resting>>

FinalizeRows ==
    /\ MonAt("finalizeRows")
    /\ rows' = RowsFrom(mon.cur, RowStatusAfter(mon.verdict))
    /\ mon' = [mon EXCEPT !.pc = "finalize", !.cur = None, !.verdict = "none"]
    /\ UNCHANGED <<monUnchanged, trade, pos, resting>>

\* A position without a trade gets one, of the size seen at the fetch, with
\* neither a signal nor a stop.  The unique index or the preceding read
\* refuse it when the symbol has an open trade by now.
UnusedImports == {i \in Imports : trade[i].status = "none"}

ImportOrphan ==
    /\ MonAt("import")
    /\ \/ \E m \in mon.orphans :
            /\ mon' = [mon EXCEPT !.orphans = @ \ {m}]
            /\ \/ /\ IndexAllows(m)
                  /\ \E i \in UnusedImports :
                       trade' = [trade EXCEPT ![i] =
                                   [status |-> "live_open", symbol |-> m,
                                    qty |-> mon.positions[m], signal |-> None]]
               \/ /\ ~IndexAllows(m) \/ UnusedImports = {}
                  /\ UNCHANGED trade
       \/ mon.orphans = {} /\ MonStage("trail") /\ UNCHANGED trade
    /\ UNCHANGED <<monUnchanged, rows, pos, resting>>

-----------------------------------------------------------------------------
\* trailBreakeven: trades with a signal and an open stop whose stop was never
\* moved, as read now.
StartTrail ==
    /\ MonAt("trail")
    /\ mon' = [mon EXCEPT
                 !.pc = "moving",
                 !.todo = IF settings.mode # "live" \/ settings.isPaused THEN {}
                          ELSE {t \in LiveTrades : /\ trade[t].signal # None
                                                   /\ rows[t]["sl"] = "open"
                                                   /\ rows[t]["be"] = "none"}]
    /\ UNCHANGED <<stateVars, ex, events, aged>>

\* TP1 has not been reached, or the mark price is unknown; else the old stop
\* is cancelled, and a stop that cannot be cancelled is left alone, as is one
\* whose cancel was carried out without an answer.
MoveStop ==
    /\ MonAt("moving")
    /\ \/ mon.todo = {} /\ MonStage("expire") /\ UNCHANGED resting
       \/ \E t \in mon.todo :
            \/ /\ mon' = [mon EXCEPT !.todo = @ \ {t}]
               /\ UNCHANGED resting
            \/ /\ Happens("tp1")
               /\ <<t, "sl">> \in resting
               /\ resting' = resting \ {<<t, "sl">>}
               /\ \/ mon' = [mon EXCEPT !.pc = "beRow", !.cur = t, !.todo = @ \ {t}]
                  \/ MayFail("cancelTimeout") /\ mon' = [mon EXCEPT !.todo = @ \ {t}]
    /\ UNCHANGED <<monUnchanged, trade, rows, pos>>

CancelStopRow ==
    /\ MonAt("beRow")
    /\ rows' = [rows EXCEPT ![mon.cur]["sl"] = "cancelled"]
    /\ MonGoto("bePlace")
    /\ UNCHANGED <<monUnchanged, trade, pos, resting>>

\* Faulty variant: the breakeven stop is recorded without being placed.
PlaceBreakevenForgotten ==
    /\ MonAt("bePlace")
    /\ MonGoto("beRecord")
    /\ UNCHANGED <<stateVars, ex, events, aged>>

PlaceBreakeven ==
    /\ MonAt("bePlace")
    /\ \/ /\ resting' = resting \cup {<<mon.cur, "be">>}
          /\ MonGoto("beRecord")
       \/ /\ MayFail("stop")
          /\ mon' = [mon EXCEPT !.pc = "moving", !.cur = None]
          /\ UNCHANGED resting
       \/ /\ MayFail("breakevenTimeout")
          /\ resting' = resting \cup {<<mon.cur, "be">>}
          /\ mon' = [mon EXCEPT !.pc = "moving", !.cur = None]
    /\ UNCHANGED <<monUnchanged, trade, rows, pos>>

RecordBreakeven ==
    /\ MonAt("beRecord")
    /\ rows' = [rows EXCEPT ![mon.cur]["be"] = "open"]
    /\ mon' = [mon EXCEPT !.pc = "moving", !.cur = None]
    /\ UNCHANGED <<monUnchanged, trade, pos, resting>>

-----------------------------------------------------------------------------
\* expireStaleSignals, calls in flight included.
ExpireSignals ==
    /\ MonAt("expire")
    /\ sig' = StaleExpired
    /\ MonGoto("refill")
    /\ UNCHANGED <<settings, expired, trade, rows, exchangeVars, ex, events, aged>>

\* Faulty variant: after a scan and a refill the tick looks again.
AfterRefillForever == MonStage("flow")

\* The first refill of a tick is followed by ensureContinuousLiveFlow, the second
\* one by the end.
AfterRefill == IF mon.again THEN mon' = Idle ELSE MonStage("flow")

\* refillOpenSlots: the active signals and the symbols not to touch (open, or
\* closed within the cooldown, whose length the model leaves open).
MayRefill ==
    /\ ~settings.isPaused /\ settings.mode = "live" /\ settings.realTradingEnabled
    /\ AutoExecute

ClosedSymbols ==
    {trade[t].symbol : t \in {u \in Trades : trade[u].status \notin {"none", "live_open"}}}

ReadRefill ==
    /\ MonAt("refill")
    /\ \/ /\ MayRefill
          /\ \E cooling \in SUBSET ClosedSymbols :
               mon' = [mon EXCEPT
                         !.pc = "claiming",
                         !.queue = {s \in Signals : sig[s] = "active" /\ s \notin expired},
                         !.taken = {trade[t].symbol : t \in LiveTrades} \cup cooling]
       \/ ~MayRefill /\ AfterRefill
    /\ UNCHANGED <<stateVars, ex, events, aged>>

FreeCalls == {c \in Calls : ex[c].pc = "ready" /\ ex[c].actor = "system"}

Candidates == {s \in mon.queue : SymbolOf[s] \notin mon.taken}

\* The refill executes one candidate and waits for it; one that is no longer
\* active is refused by the claim.
ClaimCandidate ==
    /\ MonAt("claiming")
    /\ \/ \E s \in Candidates, c \in FreeCalls :
            /\ Claim(c, s)
            /\ mon' = [mon EXCEPT !.pc = "awaiting", !.cur = c, !.queue = @ \ {s}]
       \/ /\ \E s \in Candidates :
               /\ sig[s] \notin {"active", "pending"}
               /\ mon' = [mon EXCEPT !.queue = @ \ {s}]
          /\ UNCHANGED <<stateVars, ex>>
       \/ /\ Candidates = {} \/ FreeCalls = {}
          /\ AfterRefill
          /\ UNCHANGED <<stateVars, ex>>
    /\ UNCHANGED <<events, aged>>

\* Only a call that went past its stop returns without an error.
Succeeded(c) == rows[c]["sl"] # "none"

AwaitCall ==
    /\ MonAt("awaiting")
    /\ ~InFlight(mon.cur)
    /\ mon' = [mon EXCEPT
                 !.pc = "claiming",
                 !.cur = None,
                 !.taken = IF Succeeded(mon.cur) THEN @ \cup {trade[mon.cur].symbol}
                                                 ELSE @]
    /\ UNCHANGED <<stateVars, ex, events, aged>>

\* Signals that could be executed in symbols without an open trade.
Waiting ==
    {s \in Signals : /\ sig[s] \in {"active", "approved"} /\ s \notin expired
                     /\ SymbolOf[s] \notin {trade[t].symbol : t \in LiveTrades}}

\* ensureContinuousLiveFlow: if there is nothing to execute, a scan.
ReadFlow ==
    /\ MonAt("flow")
    /\ mon' = IF MayRefill /\ Waiting = {}
              THEN [Idle EXCEPT !.pc = "scanning", !.again = TRUE]
              ELSE Idle
    /\ UNCHANGED <<stateVars, ex, events, aged>>

\* runScan returns, whether or not it has scanned, or throws, which ends the tick.
\* What it does meanwhile is in module Scanner.
AwaitScan ==
    /\ MonAt("scanning")
    /\ MonGoto("refill") \/ mon' = Idle
    /\ UNCHANGED <<stateVars, ex, events, aged>>

\* The clock passes a trade's holding limit.
TradeAges(t) ==
    /\ Happens("holdingLimit")
    /\ trade[t].status = "live_open"
    /\ aged' = aged \cup {t}
    /\ UNCHANGED <<stateVars, ex, events, mon>>

-----------------------------------------------------------------------------
MonitorStep ==
    \/ StartTick
    \/ NextTimeout \/ CancelAgedOrders \/ CancelAgedRows \/ CloseAged \/ RecordAged
    \/ FetchPositions \/ ReadDb \/ FinalizeTrade \/ FinalizeRows \/ ImportOrphan
    \/ StartTrail \/ MoveStop \/ CancelStopRow \/ PlaceBreakeven \/ RecordBreakeven
    \/ ExpireSignals
    \/ ReadRefill \/ ClaimCandidate \/ AwaitCall
    \/ ReadFlow \/ AwaitScan

=============================================================================
