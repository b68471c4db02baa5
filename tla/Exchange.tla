------------------------------ MODULE Exchange ------------------------------
(***************************************************************************)
(* What Binance does on its own, as the code relies on it: conditional     *)
(* orders trigger, positions are closed outside the bot, fills are         *)
(* reported on the user data stream.  None of this is code of the bot.     *)
(***************************************************************************)
EXTENDS TradingState

CONSTANT Moves  \* what the market does in this instance

VARIABLE events     \* ORDER_TRADE_UPDATE messages on their way, in no order

exchangeEventVars == <<events>>

\* The bot reacts to two order types only (handleMessage, line 160).
Event == [symbol : Symbols, type : {"STOP_MARKET", "TAKE_PROFIT_MARKET"}]

ExchangeTypeOK == events \in SUBSET Event
ExchangeInit == events = {}

Happens(move) == move \in Moves

FillEvent(t, k) ==
    [symbol |-> trade[t].symbol,
     type |-> IF k \in StopKinds THEN "STOP_MARKET" ELSE "TAKE_PROFIT_MARKET"]

\* A conditional order triggers.  It is reduceOnly: it shrinks the position,
\* whichever trade that position belongs to by now, and is rejected when
\* there is none.  The report of the fill can get lost.
OrderTriggers(t, k) ==
    /\ Happens(IF k \in StopKinds THEN "stop" ELSE "takeProfit")
    /\ <<t, k>> \in resting
    /\ resting' = resting \ {<<t, k>>}
    /\ LET m == trade[t].symbol IN
       /\ pos' = [pos EXCEPT ![m] = Reduced(@, OrderQty(t, k))]
       /\ \/ pos[m] > 0 /\ events' = events \cup {FillEvent(t, k)}
          \/ /\ pos[m] = 0 \/ MayFail("stream")
             /\ UNCHANGED events
    /\ UNCHANGED dbVars

\* Reduce-only orders of a symbol without a position may be expired.
OrderExpires(t, k) ==
    /\ <<t, k>> \in resting
    /\ pos[trade[t].symbol] = 0
    /\ resting' = resting \ {<<t, k>>}
    /\ UNCHANGED <<dbVars, pos, events>>

\* Liquidated, or closed by hand in Binance's own interface.
ClosedOutside(m) ==
    /\ Happens("closeOutside")
    /\ pos[m] > 0
    /\ pos' = [pos EXCEPT ![m] = 0]
    /\ UNCHANGED <<dbVars, resting, events>>

ExchangeStep ==
    \/ \E t \in Trades, k \in OrderKinds : OrderTriggers(t, k) \/ OrderExpires(t, k)
    \/ \E m \in Symbols : ClosedOutside(m)

\* What fetchOpenPositions returns.
OpenPositions == {m \in Symbols : pos[m] > 0}

=============================================================================
