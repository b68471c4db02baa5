---------------------------- MODULE TradeClosing ----------------------------
(***************************************************************************)
(* Closing trades at the operator's request: TradesService.closeLive, and  *)
(* ScannerService.forceReconcileOpenTrades behind "reconcile trades".  One *)
(* of these requests is in progress at a time.                             *)
(***************************************************************************)
EXTENDS TradingState

VARIABLE closer     \* the request in progress

closingVars == <<closer>>

NoRequest == [pc |-> "idle", trade |-> None, seen |-> {}, todo |-> {},
              positions |-> {}]

ClosingTypeOK ==
    closer \in [pc : {"idle", "cancel", "rows", "close", "record",
                      "readDb", "reconcile"},
                trade : Trades \cup {None},
                seen : SUBSET (Trades \X Kinds),
                todo : SUBSET Trades,
                positions : SUBSET Symbols]

ClosingInit == closer = NoRequest

CloserAt(pc) == closer.pc = pc
CloserGoto(pc) == closer' = [closer EXCEPT !.pc = pc]

-----------------------------------------------------------------------------
\* closeLive reads the trade and its open Order rows ...
RequestClose(t) ==
    /\ CloserAt("idle")
    /\ trade[t].status = "live_open"
    /\ closer' = [NoRequest EXCEPT
                    !.pc = "cancel", !.trade = t,
                    !.seen = {o \in {t} \X Kinds : rows[t][o[2]] = "open"}]
    /\ UNCHANGED stateVars

\* ... cancels those orders (a failure is only logged) ...
CloseCancels ==
    /\ CloserAt("cancel")
    /\ \E kept \in SUBSET closer.seen :
         /\ kept # {} => MayFail("cancel")
         /\ resting' = resting \ (closer.seen \ kept)
    /\ CloserGoto("rows")
    /\ UNCHANGED <<dbVars, pos>>

\* ... marks the rows cancelled ...
CloseRows ==
    /\ CloserAt("rows")
    /\ rows' = [rows EXCEPT ![closer.trade] =
                  [k \in Kinds |-> IF rows[closer.trade][k] = "open" THEN "cancelled"
                                   ELSE rows[closer.trade][k]]]
    /\ CloserGoto("close")
    /\ UNCHANGED <<settings, sig, expired, trade, exchangeVars>>

\* ... and sends the market close.  A close that fails is taken for a
\* position that is gone; the request itself fails only when the exit price
\* is not in the answer and the mark price cannot be fetched.
CloseAtMarket ==
    /\ CloserAt("close")
    /\ LET m == trade[closer.trade].symbol IN
       \/ pos[m] > 0 /\ pos' = [pos EXCEPT ![m] = Reduced(@, trade[closer.trade].qty)]
       \/ (pos[m] = 0 \/ MayFail("close")) /\ UNCHANGED pos
    /\ CloserGoto("record") \/ (MayFail("markPrice") /\ closer' = NoRequest)
    /\ UNCHANGED <<dbVars, resting>>

\* The row is written whatever its status has become.
RecordClose ==
    /\ CloserAt("record")
    /\ trade' = [trade EXCEPT ![closer.trade].status = "manually_closed"]
    /\ closer' = NoRequest
    /\ UNCHANGED <<settings, sig, expired, rows, exchangeVars>>

-----------------------------------------------------------------------------
\* forceReconcileOpenTrades: the positions, an await later the open trades,
\* then every trade without a position is closed, whatever its status.
RequestReconcile ==
    /\ CloserAt("idle")
    /\ settings.mode = "live"
    /\ closer' = [NoRequest EXCEPT !.pc = "readDb",
                                   !.positions = {m \in Symbols : pos[m] > 0}]
    /\ UNCHANGED stateVars

ReconcileReads ==
    /\ CloserAt("readDb")
    /\ closer' = [closer EXCEPT
                    !.pc = "reconcile",
                    !.todo = {t \in LiveTrades : trade[t].symbol \notin closer.positions}]
    /\ UNCHANGED stateVars

ReconcileCloses ==
    /\ CloserAt("reconcile")
    /\ \/ \E t \in closer.todo :
            /\ trade' = [trade EXCEPT ![t].status = "manually_closed"]
            /\ closer' = [closer EXCEPT !.todo = @ \ {t}]
       \/ closer.todo = {} /\ closer' = NoRequest /\ UNCHANGED trade
    /\ UNCHANGED <<settings, sig, expired, rows, exchangeVars>>

-----------------------------------------------------------------------------
ClosingStep ==
    CloseCancels \/ CloseRows \/ CloseAtMarket \/ RecordClose
    \/ ReconcileReads \/ ReconcileCloses

=============================================================================
