---------------------------- MODULE TradingState ----------------------------
(***************************************************************************)
(* What every component of the bot reads and writes: the PostgreSQL rows   *)
(* (Signal, Trade, Order, BotSettings) and the Binance futures account     *)
(* behind BinanceService.  The account is in one-way position mode, and a  *)
(* position is a quantity: entries of one symbol add up, which they do in  *)
(* the account while they are of one direction.                            *)
(*                                                                         *)
(* A quantity is counted in halves of a signal's order: a signal of two    *)
(* lots can be split between TP1 and TP2, a signal of one lot cannot, and  *)
(* a signal of zero lots rounds to nothing (execution lines 83-93, 370).   *)
(***************************************************************************)
EXTENDS Integers, FiniteSets

CONSTANTS
    Signals,    \* rows of Signal
    Calls,      \* invocations of approveLive: each runs once, and the trade
                \* row it creates has its name
    Imports,    \* names for the trade rows monitorLiveTrades creates
    Symbols,
    SymbolOf,   \* the symbol of a signal
    Lots,       \* its quantity after step-size rounding
    Faults,     \* the Binance requests that may fail in this instance
    None

Trades == Calls \cup Imports

ASSUME ConstantsAssumption ==
    /\ SymbolOf \in [Signals -> Symbols]
    /\ Lots \in [Signals -> 0..2]
    /\ Calls \cap Imports = {}
    /\ None \notin Signals \cup Symbols

VARIABLES
    settings,   \* the BotSettings row: [isPaused, realTradingEnabled, mode]
    sig,        \* status of each signal, "deleted" once the row is gone
    expired,    \* signals whose expiresAt lies in the past
    trade,      \* [status, symbol, qty, signal] of each trade row
    rows,       \* status of the Order row of each kind that a trade owns
    pos,        \* exchange: size of the position in each symbol
    resting     \* exchange: conditional orders waiting for their trigger,
                \* as pairs of the trade they were placed for and their kind

settingsVars == <<settings>>
dbVars == <<settings, sig, expired, trade, rows>>
exchangeVars == <<pos, resting>>
stateVars == <<settings, sig, expired, trade, rows, pos, resting>>

-----------------------------------------------------------------------------
SignalStatus == {"pending", "active", "approved", "skipped", "expired",
                 "live_executed", "failed", "cancelled", "deleted"}

\* "none" is a row that has not been created.
TradeStatus == {"none", "live_open", "stopped", "take_profit", "time_stop",
                "manually_closed", "failed"}

\* The orders a trade can have on record: the stop of the entry, the stop moved
\* to breakeven, and the two take-profit legs.
Kinds == {"sl", "be", "tp1", "tp2"}

\* The stops of the three attempts that Binance has accepted although the answer
\* was lost: the call knows nothing of them.
LostStops == {"lost1", "lost2", "lost3"}

StopKinds == {"sl", "be"} \cup LostStops
OrderKinds == Kinds \cup StopKinds

RowStatus == {"none", "open", "cancelled", "filled", "triggered"}

Settings == [isPaused : BOOLEAN, realTradingEnabled : BOOLEAN,
             mode : {"testnet", "live"}]

TradeRow == [status : TradeStatus, symbol : Symbols \cup {None}, qty : Nat,
             signal : Signals \cup {None}]

NoTrade == [status |-> "none", symbol |-> None, qty |-> 0, signal |-> None]

StateTypeOK ==
    /\ settings \in Settings
    /\ sig \in [Signals -> SignalStatus]
    /\ expired \in SUBSET Signals
    /\ trade \in [Trades -> TradeRow]
    /\ rows \in [Trades -> [Kinds -> RowStatus]]
    /\ pos \in [Symbols -> Nat]
    /\ resting \in SUBSET (Trades \X OrderKinds)

AccountInit ==
    /\ settings \in [isPaused : {FALSE}, realTradingEnabled : {TRUE},
                     mode : {"live"}]
    /\ expired = {}
    /\ trade = [t \in Trades |-> NoTrade]
    /\ rows = [t \in Trades |-> [k \in Kinds |-> "none"]]
    /\ pos = [m \in Symbols |-> 0]
    /\ resting = {}

\* Every signal is waiting for execution.
StateInit ==
    /\ AccountInit
    /\ sig = [s \in Signals |-> "active"]

-----------------------------------------------------------------------------
\* prisma.trade.findFirst / findMany where status is 'live_open'.
LiveTrades == {t \in Trades : trade[t].status = "live_open"}

LiveTradesOf(m) == {t \in LiveTrades : trade[t].symbol = m}

\* prisma.signal.update: the new status is written whatever the old one was;
\* updating a row that is gone throws and changes nothing.
SignalsWith(s, status) ==
    IF sig[s] = "deleted" THEN sig ELSE [sig EXCEPT ![s] = status]

\* prisma.signal.updateMany over the signals whose status lies in from.
SignalsMoved(S, from, status) ==
    [s \in Signals |-> IF s \in S /\ sig[s] \in from THEN status ELSE sig[s]]

\* Signals waiting for execution or being executed.
Queued == {"active", "pending", "approved"}

\* Faulty variant: the sweep spares claimed signals.
StaleExpiredSparingClaimed == SignalsMoved(expired, Queued \ {"approved"}, "expired")

\* expireStaleSignals takes calls in flight along.
StaleExpired == SignalsMoved(expired, Queued, "expired")

\* Faulty variant: the migration with the unique index was never applied.
IndexMissing(m) == TRUE

\* prisma.trade.create under the partial unique index
\* trades_symbol_live_open_unique: refused while the symbol has an open row.
IndexAllows(m) == LiveTradesOf(m) = {}

\* What a reduceOnly order of q leaves of a position of p.
Reduced(p, q) == IF q >= p THEN 0 ELSE p - q

OrderQty(t, k) ==
    IF k = "tp1" THEN 1
    ELSE IF k = "tp2" /\ trade[t].qty > 1 THEN 1 ELSE trade[t].qty

\* Whether the instance lets a request of this kind fail.  In a fault named
\* "...Timeout" Binance carries the request out and the client's timeout of ten
\* seconds throws.
MayFail(request) == request \in Faults

=============================================================================
