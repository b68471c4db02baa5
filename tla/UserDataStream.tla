--------------------------- MODULE UserDataStream ---------------------------
(***************************************************************************)
(* UserDataStreamService.handleMessage for ORDER_TRADE_UPDATE: a fill of a *)
(* stop or a take-profit closes the trade without waiting for the monitor. *)
(* Every message has its own handler, and handlers do not wait for another. *)
(***************************************************************************)
EXTENDS PositionMonitor

VARIABLE ws     \* the handlers at work

streamVars == <<ws>>

Handler == [pc : {"confirm", "finalize", "rows"}, trade : Trades,
            status : {"none"} \cup FinalStatus]

StreamTypeOK == ws \subseteq Handler

StreamInit == ws = {}

Continue(h, pc) == ws' = (ws \ {h}) \cup {[h EXCEPT !.pc = pc]}
Return(h) == ws' = ws \ {h}

streamUnchanged == <<settings, sig, expired, pos, resting, ex, monitorVars>>

\* The message names a symbol; the trade is whichever is open in it now.
ReceiveFill(e) ==
    /\ e \in events
    /\ events' = events \ {e}
    /\ ws' = ws \cup {[pc |-> IF e.type = "STOP_MARKET" THEN "finalize" ELSE "confirm",
                       trade |-> t, status |-> "none"] : t \in LiveTradesOf(e.symbol)}
    /\ UNCHANGED <<streamUnchanged, trade, rows>>

\* A take-profit may be one leg of two: only a flat position is finalised,
\* and a position that cannot be fetched counts as open.
ConfirmFlat(h) ==
    /\ h.pc = "confirm"
    /\ \/ trade[h.trade].symbol \notin OpenPositions /\ Continue(h, "finalize")
       \/ /\ trade[h.trade].symbol \in OpenPositions \/ MayFail("positions")
          /\ Return(h)
    /\ UNCHANGED <<streamUnchanged, trade, rows, events>>

\* finalizeExchangeClosedTrade, shared with the monitor.
FinalizeFilled(h) ==
    /\ h.pc = "finalize"
    /\ \/ \E status \in FinalStatus :
            /\ trade' = TradeClosedAs(h.trade, status)
            /\ ws' = (ws \ {h}) \cup
                       {g \in {[h EXCEPT !.pc = "rows", !.status = status]} :
                           trade[h.trade].status = "live_open"}
       \/ MayFail("markPrice") /\ Return(h) /\ UNCHANGED trade
    /\ UNCHANGED <<streamUnchanged, rows, events>>

FilledRows(h) ==
    /\ h.pc = "rows"
    /\ rows' = RowsFrom(h.trade, RowStatusAfter(h.status))
    /\ Return(h)
    /\ UNCHANGED <<streamUnchanged, trade, events>>

StreamStep ==
    \/ \E e \in events : ReceiveFill(e)
    \/ \E h \in ws : ConfirmFlat(h) \/ FinalizeFilled(h) \/ FilledRows(h)

=============================================================================
