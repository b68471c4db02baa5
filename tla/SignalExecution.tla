-------------------------- MODULE SignalExecution ---------------------------
(***************************************************************************)
(* Concurrent calls of approveLive against the requests that change        *)
(* signals and settings.  The exchange is passive: it fills and rests what *)
(* it is sent (LiveTrading adds triggers, the monitor and closes).         *)
(***************************************************************************)
EXTENDS OrderExecution, BotControl

CONSTANT CrashAllowed   \* whether the process may die

VARIABLE late   \* history: the calls already past their pause check when
                \* the bot was last stopped

vars == <<stateVars, ex, controlVars, late>>

Init == StateInit /\ ExecutionInit /\ ControlInit /\ late = {}

PastPauseCheck == {c \in Calls : ex[c].pc \in Trading}

\* The history variable follows every step.
Observe ==
    late' = IF settings'.isPaused /\ ~settings.isPaused THEN PastPauseCheck
                                                        ELSE late

Restart ==
    /\ CrashAllowed
    /\ Crash
    /\ stopping' = {}
    /\ patch' = NoPatch

Next ==
    /\ \/ /\ \E c \in Calls : CallStep(c) \/ \E s \in Signals : Claim(c, s)
          /\ UNCHANGED controlVars
       \/ (ControlStep \/ ExpireStaleSignals) /\ UNCHANGED ex
       \/ Restart
    /\ Observe

Spec == Init /\ [][Next]_vars

-----------------------------------------------------------------------------
TypeOK ==
    /\ StateTypeOK
    /\ ExecutionTypeOK
    /\ ControlTypeOK
    /\ late \in SUBSET Calls

\* However calls for the same symbol interleave between their two duplicate
\* guards and trade.create, at most one trade of a symbol is open.
OneLiveTradePerSymbol ==
    \A t, u \in LiveTrades : trade[t].symbol = trade[u].symbol => t = u

\* A signal reported as executed has a trade whose stop-loss was accepted by
\* the exchange and recorded: the status is never reached around the stop.
ExecutedHasStop ==
    \A s \in Signals :
        sig[s] = "live_executed" =>
            \E c \in Calls : /\ trade[c].status # "none"
                             /\ trade[c].signal = s
                             /\ rows[c]["sl"] # "none"

\* The call has no order on record, and none that Binance has confirmed: what
\* rests for it are stops whose answer was lost.
HasNoKnownOrder(c) ==
    /\ \A k \in Kinds : rows[c][k] = "none"
    /\ \A k \in OrderKinds : <<c, k>> \in resting => k \in LostStops

\* A trade is given up as failed only while no order for it is confirmed: the
\* emergency path never leaves a stop or a target behind that somebody could
\* have cancelled.  (Lines 253-297: a stop accepted although its request timed
\* out does stay behind, and nothing cancels it.)
FailedHasNoKnownOrder ==
    \A c \in Calls : trade[c].status = "failed" => HasNoKnownOrder(c)

\* While the bot is stopped, only calls that had already passed their last
\* pause check touch Binance: stopping never lets another one through, at
\* whichever await it was suspended.
StopHoldsTheRest == settings.isPaused => PastPauseCheck \subseteq late

\* The calls that have sent an entry order for a signal and still work on it.
Entered == Trading \ {"leverage", "entry"}

\* "Atomically claim the signal - prevents double execution" (lines 21-22):
\* two calls are never both trading on one signal.
NoDoubleExecution ==
    \A s \in Signals :
        Cardinality({c \in Calls : ex[c].signal = s /\ ex[c].pc \in Entered}) <= 1

\* "never leave real money in an unprotected position" (lines 225-227): a stop
\* covers the whole position unless a call is still placing it.
NeverUnprotected ==
    \A m \in Symbols :
        (\A c \in Calls : ex[c].pc \in Guarding => SymbolAt(c) # m)
            => pos[m] = 0 \/ Covered(m)

\* The database agrees with the exchange: once no call is between its entry
\* and the outcome of it, the position of a symbol is that of its open trade.
PositionIsBooked ==
    \A m \in Symbols :
        (\A c \in Calls : ex[c].pc \in Guarding \cup {"failTrade"} => SymbolAt(c) # m)
            => \/ LiveTradesOf(m) = {} /\ pos[m] = 0
               \/ \E t \in LiveTradesOf(m) : pos[m] = trade[t].qty

\* "so nothing executes on resume" (dashboard lines 279-283): a signal that
\* was cancelled does not come back to the queue.  It fails: a call that is
\* refused writes 'active' over it.
CancelledStaysOut ==
    [][\A s \in Signals : sig[s] = "cancelled" => sig'[s] # "active"]_vars

-----------------------------------------------------------------------------
(* The strengthening that makes the safety invariants inductive: what the  *)
(* point a call has reached says of its signal, its trade and its stop.    *)

CallConsistent(c) ==
    /\ ex[c].to # "live_executed"
    /\ ex[c].pc \in Unopened => trade[c].status = "none"
    /\ ex[c].pc \in Opened => /\ trade[c].status = "live_open"
                              /\ trade[c].signal = ex[c].signal
    /\ ex[c].pc \in Unopened \cup Stopless => HasNoKnownOrder(c)
    /\ ex[c].pc \in StopRecorded => rows[c]["sl"] # "none"

Typed == TypeOK /\ Claimed

Consistent == \A c \in Calls : CallConsistent(c)

IInv ==
    /\ Typed
    /\ Consistent
    /\ OneLiveTradePerSymbol
    /\ ExecutedHasStop
    /\ FailedHasNoKnownOrder
    /\ StopHoldsTheRest

-----------------------------------------------------------------------------
\* The Trade table as TradeLedger sees it.
Phase(status) ==
    CASE status = "none"      -> "unopened"
      [] status = "live_open" -> "open"
      [] OTHER                -> "closed"

Ledger == INSTANCE TradeLedger WITH
    TradeIds    <- Trades,
    SymbolNames <- Symbols,
    NoSymbol    <- None,
    phase       <- [t \in Trades |-> Phase(trade[t].status)],
    market      <- [t \in Trades |-> trade[t].symbol]

\* Opening under the unique index and closing are all that ever happens to a
\* trade row.
ImplementsLedger == Ledger!Spec

=============================================================================
