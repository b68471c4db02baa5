---------------------------- MODULE LiveTrading -----------------------------
(***************************************************************************)
(* The life of trades: calls of approveLive open them while the monitor,   *)
(* the user data stream and the operator close them, and the exchange      *)
(* triggers orders in between.                                             *)
(***************************************************************************)
EXTENDS UserDataStream, TradeClosing, BotControl

CONSTANT CrashAllowed

vars == <<stateVars, ex, events, mon, aged, ws, closer, controlVars>>

Init ==
    /\ StateInit /\ ExecutionInit /\ ExchangeInit
    /\ MonitorInit /\ StreamInit /\ ClosingInit /\ ControlInit

Restart ==
    /\ CrashAllowed
    /\ Crash
    /\ mon' = Idle /\ ws' = {} /\ closer' = NoRequest
    /\ stopping' = {} /\ patch' = NoPatch
    /\ events' = {}     \* the stream starts afresh
    /\ UNCHANGED aged

Call(c) == CallStep(c) /\ UNCHANGED <<events, mon, aged, ws, closer, controlVars>>

\* A call of the dashboard or of the scanner, whenever it likes.
Ask(c) ==
    /\ Asked("approve")
    /\ \E s \in Signals : Claim(c, s)
    /\ UNCHANGED <<events, mon, aged, ws, closer, controlVars>>

Monitor == MonitorStep /\ UNCHANGED <<ws, closer, controlVars>>

Stream == StreamStep /\ UNCHANGED <<closer, controlVars>>

Market ==
    \/ ExchangeStep /\ UNCHANGED <<ex, mon, aged, ws, closer, controlVars>>
    \/ (\E t \in Trades : TradeAges(t)) /\ UNCHANGED <<ws, closer, controlVars>>

Operator ==
    \/ /\ \/ Asked("closeLive") /\ \E t \in Trades : RequestClose(t)
          \/ Asked("reconcile") /\ RequestReconcile
       /\ UNCHANGED <<ex, events, mon, aged, ws, controlVars>>
    \/ ControlStep /\ UNCHANGED <<ex, events, mon, aged, ws, closer>>

Closing == ClosingStep /\ UNCHANGED <<ex, events, mon, aged, ws, controlVars>>

Next ==
    \/ \E c \in Calls : Call(c) \/ Ask(c)
    \/ Monitor \/ Stream \/ Market \/ Operator \/ Closing
    \/ Restart

Spec == Init /\ [][Next]_vars

\* The event loop finishes what was started, the scheduler runs the monitor
\* for ever, messages in transit are handled and the clock goes on.
Ages(s) == SignalAges(s) /\ UNCHANGED <<ex, events, mon, aged, ws, closer>>

Fairness ==
    /\ \A c \in Calls : WF_vars(Call(c))
    /\ \A s \in Signals : WF_vars(Ages(s))
    /\ WF_vars(Monitor) /\ WF_vars(Stream) /\ WF_vars(Closing)

\* Binance does not refuse the monitor's requests for ever.
Recovers(from, to) == MonAt(from) /\ Monitor /\ mon'.pc = to

BinanceRecovers ==
    /\ SF_vars(Recovers("fetch", "readDb"))
    /\ SF_vars(Recovers("closeAged", "recordAged"))
    /\ SF_vars(Recovers("finalize", "finalizeRows"))

FairSpec == Spec /\ Fairness /\ BinanceRecovers

-----------------------------------------------------------------------------
TypeOK ==
    /\ StateTypeOK /\ ExecutionTypeOK /\ ExchangeTypeOK
    /\ MonitorTypeOK /\ StreamTypeOK /\ ClosingTypeOK /\ ControlTypeOK

-----------------------------------------------------------------------------
(* The strengthening that makes TypeOK inductive, and every step one of the *)
(* ledger: whoever works on a trade works on one that was opened.           *)

Existing == {t \in Trades : trade[t].status # "none"}

RowsExist ==
    /\ \A t \in Existing : trade[t].symbol \in Symbols
    /\ \A t \in Trades, k \in Kinds : rows[t][k] # "none" => t \in Existing
    /\ \A t \in Trades, k \in OrderKinds : <<t, k>> \in resting => t \in Existing

CallsExist ==
    \A c \in Calls : /\ ex[c].pc \in Unopened => c \notin Existing
                     /\ ex[c].pc \in Opened => c \in Existing

\* The tick has a trade at hand.
MonitorHolds == {"cancelOrders", "cancelRows", "closeAged", "recordAged",
                 "finalizeRows", "beRow", "bePlace", "beRecord"}

MonitorExists ==
    /\ mon.todo \subseteq Existing
    /\ mon.pc \in MonitorHolds => mon.cur \in Existing
    /\ mon.pc = "awaiting" => mon.cur \in Calls

HandlersExist == \A h \in ws : h.trade \in Existing

\* The operator's close has a trade at hand.
CloserHolds == {"cancel", "rows", "close", "record"}

CloserExists ==
    /\ closer.todo \subseteq Existing
    /\ closer.pc \in CloserHolds => closer.trade \in Existing

IInv ==
    /\ TypeOK
    /\ Claimed
    /\ RowsExist
    /\ CallsExist
    /\ MonitorExists
    /\ HandlersExist
    /\ CloserExists

-----------------------------------------------------------------------------
\* The Trade table as TradeLedger sees it: trades opened by calls or imported
\* by the monitor, closed by any of the seven ways to close one.
Phase(status) ==
    CASE status = "none"      -> "unopened"
      [] status = "live_open" -> "open"
      [] OTHER                -> "closed"

Ledger == INSTANCE TradeLedger WITH
    TradeIds    <- Trades,
    SymbolNames <- Symbols,
    NoSymbol    <- None,
    phase       <- [t \in Trades |-> Phase(trade[t].status)],
    market      <- [t \in Trades |-> trade[t].symbol]

\* Nothing the bot does reopens a trade, opens one twice, or opens one in a
\* symbol that has an open trade.
ImplementsLedger == Ledger!Spec

\* "safe to call twice for the same trade" (monitor lines 279-283): however
\* the stream, the monitor's poll and its holding limit race to close a
\* trade, the first verdict stands.  (A call without an answered stop gives its
\* trade up whatever has become of it: order-execution.service.ts line 335.)
FirstVerdictStands ==
    [][\A t \in Trades :
         trade[t].status \in {"take_profit", "stopped", "time_stop"}
             => \/ trade'[t].status = trade[t].status
                \/ t \in Calls /\ FailTrade(t)]_vars

\* Somebody is at work on the position of a symbol: a call before its stop
\* stands, the monitor between two stops or between cancelling and closing,
\* an operator's close.
Attended(m) ==
    \/ \E c \in Calls : ex[c].pc \in Guarding /\ SymbolAt(c) = m
    \/ /\ mon.pc \in {"beRow", "bePlace", "cancelRows", "closeAged", "recordAged"}
       /\ trade[mon.cur].symbol = m
    \/ closer.pc \in {"rows", "close"} /\ trade[closer.trade].symbol = m

\* "never leave real money in an unprotected position" (execution lines
\* 225-227), over the whole life of the position.
NeverUnprotected == \A m \in Symbols : Attended(m) \/ pos[m] = 0 \/ Covered(m)

\* "SL stays where it was; monitor will retry next cycle" (monitor line 457):
\* a stop that could not be moved is still there, or is put back.
BreakevenKeepsStop ==
    \A t \in Calls :
        (rows[t]["sl"] = "cancelled" /\ trade[t].status = "live_open")
            ~> \/ {<<t, "sl">>, <<t, "be">>} \cap resting # {}
               \/ trade[t].status # "live_open"
               \/ pos[trade[t].symbol] = 0

\* "Close DB trades that disappeared from the exchange" (monitor line 125): the
\* monitor takes a trade for closed by the exchange only if its position is
\* gone.  It fails: the positions are older than the trades they are compared with.
FinalizedIsFlat ==
    [][\A t \in Trades :
         (trade[t].status = "live_open" /\ trade'[t].status \in FinalStatus)
             => pos[trade[t].symbol] = 0]_vars

\* A trade the exchange closed does not stay open in the database.
ClosedIsNoticed ==
    \A t \in Trades :
        (trade[t].status = "live_open" /\ pos[trade[t].symbol] = 0)
            ~> (trade[t].status # "live_open" \/ pos[trade[t].symbol] > 0)

\* A trade past its holding limit is closed, even if a close fails now and
\* then a tick finds it again.
HoldingLimitIsKept ==
    \A t \in Trades : t \in aged ~> trade[t].status # "live_open"

\* A position nobody has on record is put on record: after a crash between
\* entry and trade.create too.
OrphanIsAdopted ==
    \A m \in Symbols :
        (pos[m] > 0 /\ LiveTradesOf(m) = {}) ~> (LiveTradesOf(m) # {} \/ pos[m] = 0)

\* A signal does not stay claimed for ever, even if the process dies while
\* executing it: the sweep releases it once it has expired.
ApprovedIsTransient ==
    \A s \in Signals : sig[s] = "approved" ~> sig[s] # "approved"

\* The flag running (39-55) does not stay up: whatever the tick waits for -
\* requests, a call it has started, a scan - it comes to an end, so there are
\* further ticks.
TickEnds == []<>(mon.pc = "idle")

\* An entry that was filled and recorded ends with an answered stop on the
\* exchange or with the trade closed, whichever stop attempts are refused,
\* unless the process dies.
EntryIsResolved ==
    \A c \in Calls :
        ex[c].pc = "sl1" ~> \/ <<c, "sl">> \in resting
                           \/ trade[c].status # "live_open"
                           \/ ex[c].pc = "dead"

=============================================================================
