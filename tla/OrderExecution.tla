--------------------------- MODULE OrderExecution ---------------------------
(***************************************************************************)
(* OrderExecutionService.approveLive: one action for each stretch of code  *)
(* between two awaits whose order against other requests can be observed.  *)
(* Every call in Calls is one request: by the dashboard (actor "manual"),  *)
(* by the scanner's auto-execution or by the monitor's refill ("system").  *)
(***************************************************************************)
EXTENDS TradingState

CONSTANT Actors     \* who calls in this instance: "manual", "system" or both

ASSUME ActorsAssumption == Actors \subseteq {"manual", "system"}

VARIABLE ex     \* [pc, signal, actor, to, mark] of each call

executionVars == <<ex>>

\* From the claim to the last check before Binance is touched.
Checking == {"load", "expiry", "settings", "existing", "balance", "markPrice",
             "raceGuard", "pauseCheck"}

\* Past the point of no return (line 143).
Trading == {"leverage", "entry", "create", "sl1", "slMark", "sl2", "sl3",
            "slRow", "tp1", "tp1Row", "tp2", "tp2Row", "executed",
            "emergency", "failTrade", "failSignal"}

\* Writing the status of a refused signal, then the catch block.
Refusing == {"settle", "catch", "catchWrite"}

Pcs == {"ready", "done", "dead"} \cup Checking \cup Trading \cup Refusing

ExecutionTypeOK ==
    ex \in [Calls -> [pc : Pcs, signal : Signals \cup {None}, actor : Actors,
                      to : SignalStatus, mark : {"active", "failed"}]]

ExecutionInit ==
    ex \in [Calls -> [pc : {"ready"}, signal : {None}, actor : Actors,
                      to : {"active"}, mark : {"active"}]]

InFlight(c) == ex[c].pc \notin {"ready", "done", "dead"}

SymbolAt(c) == SymbolOf[ex[c].signal]
LotsAt(c) == Lots[ex[c].signal]

At(c, pc) == ex[c].pc = pc
Goto(c, pc) == ex' = [ex EXCEPT ![c].pc = pc]

\* A check fails: status "to" will be written and an error thrown, which the
\* catch block classifies by its message (shouldMarkSignalFailed).
Refuse(c, to, mark) ==
    ex' = [ex EXCEPT ![c].pc = "settle", ![c].to = to, ![c].mark = mark]

\* An error thrown by the failing request itself.
Throw(c, mark) == ex' = [ex EXCEPT ![c].pc = "catch", ![c].mark = mark]

-----------------------------------------------------------------------------
\* The atomic claim: updateMany from active or pending to approved.
Claim(c, s) ==
    /\ At(c, "ready")
    /\ sig[s] \in {"active", "pending"}
    /\ sig' = [sig EXCEPT ![s] = "approved"]
    /\ ex' = [ex EXCEPT ![c].pc = "load", ![c].signal = s]
    /\ UNCHANGED <<settings, expired, trade, rows, exchangeVars>>

\* The row is read back; a row deleted meanwhile ends the call.  (A signal
\* always names a strategy: the column is NOT NULL.)
LoadSignal(c) ==
    /\ At(c, "load")
    /\ Goto(c, IF sig[ex[c].signal] = "deleted" THEN "done" ELSE "expiry")
    /\ UNCHANGED stateVars

CheckExpiry(c) ==
    /\ At(c, "expiry")
    /\ IF ex[c].signal \in expired THEN Refuse(c, "expired", "failed")
                                   ELSE Goto(c, "settings")
    /\ UNCHANGED stateVars

\* A stopped bot cancels an automatic call's signal and reactivates a manual
\* one's.
RefuseStopped(c) ==
    Refuse(c, IF ex[c].actor = "system" THEN "cancelled" ELSE "active", "active")

CheckSettings(c) ==
    /\ At(c, "settings")
    /\ \/ settings.isPaused /\ RefuseStopped(c)
       \/ /\ ~settings.isPaused
          /\ ~settings.realTradingEnabled \/ settings.mode # "live"
          /\ Refuse(c, "active", "active")
       \/ /\ ~settings.isPaused
          /\ settings.realTradingEnabled /\ settings.mode = "live"
          /\ Goto(c, "existing")
    /\ UNCHANGED stateVars

\* First duplicate guard; then the quantity is rounded and tested against the
\* minimum notional.
CheckExisting(c) ==
    /\ At(c, "existing")
    /\ \/ LiveTradesOf(SymbolAt(c)) # {} /\ Refuse(c, "active", "active")
       \/ /\ LiveTradesOf(SymbolAt(c)) = {}
          /\ IF LotsAt(c) = 0 THEN Refuse(c, "failed", "failed")
                              ELSE Goto(c, "balance")
    /\ UNCHANGED stateVars

\* The balance cannot be fetched (the catch block judges by the error) or does
\* not cover the margin.
CheckBalance(c) ==
    /\ At(c, "balance")
    /\ \/ Goto(c, "markPrice")
       \/ MayFail("balance") /\ \E mark \in {"active", "failed"} : Refuse(c, "active", mark)
    /\ UNCHANGED stateVars

\* The stop or TP2 lies on the wrong side of the mark price; a mark price
\* that cannot be fetched skips the test.
CheckMarkPrice(c) ==
    /\ At(c, "markPrice")
    /\ \/ Goto(c, "raceGuard")
       \/ MayFail("stalePrice") /\ Refuse(c, "expired", "failed")
    /\ UNCHANGED stateVars

RaceGuard(c) ==
    /\ At(c, "raceGuard")
    /\ IF LiveTradesOf(SymbolAt(c)) # {} THEN Refuse(c, "active", "active")
                                         ELSE Goto(c, "pauseCheck")
    /\ UNCHANGED stateVars

\* Faulty variant: the last pause check is missing.
PauseCheckMissing(c) ==
    /\ At(c, "pauseCheck")
    /\ Goto(c, "leverage")
    /\ UNCHANGED stateVars

PauseCheck(c) ==
    /\ At(c, "pauseCheck")
    /\ IF settings.isPaused THEN RefuseStopped(c) ELSE Goto(c, "leverage")
    /\ UNCHANGED stateVars

\* A check that failed writes the signal's status, unconditionally.
Settle(c) ==
    /\ At(c, "settle")
    /\ sig' = SignalsWith(ex[c].signal, ex[c].to)
    /\ Goto(c, "catch")
    /\ UNCHANGED <<settings, expired, trade, rows, exchangeVars>>

\* The catch block reads the status again and writes only over 'approved',
\* one await later.
CatchRead(c) ==
    /\ At(c, "catch")
    /\ Goto(c, IF sig[ex[c].signal] = "approved" THEN "catchWrite" ELSE "done")
    /\ UNCHANGED stateVars

CatchWrite(c) ==
    /\ At(c, "catchWrite")
    /\ sig' = SignalsWith(ex[c].signal, ex[c].mark)
    /\ Goto(c, "done")
    /\ UNCHANGED <<settings, expired, trade, rows, exchangeVars>>

-----------------------------------------------------------------------------
\* Isolated margin (failure tolerated), leverage and position mode.
SetLeverage(c) ==
    /\ At(c, "leverage")
    /\ \/ Goto(c, "entry")
       \/ MayFail("leverage") /\ \E mark \in {"active", "failed"} : Throw(c, mark)
    /\ UNCHANGED stateVars

\* The entry MARKET order: filled; refused by Binance; or filled although the
\* 10 s client timeout throws.
PlaceEntry(c) ==
    /\ At(c, "entry")
    /\ \/ /\ pos' = [pos EXCEPT ![SymbolAt(c)] = @ + LotsAt(c)]
          /\ Goto(c, "create")
       \/ /\ MayFail("entry")
          /\ \E mark \in {"active", "failed"} : Throw(c, mark)
          /\ UNCHANGED pos
       \/ /\ MayFail("entryTimeout")
          /\ pos' = [pos EXCEPT ![SymbolAt(c)] = @ + LotsAt(c)]
          /\ Throw(c, "active")
    /\ UNCHANGED <<dbVars, resting>>

\* trade.create and the entry's own row.  The unique index refuses a second
\* open row of the symbol and the foreign key a signal that was deleted.
CreateTrade(c) ==
    /\ At(c, "create")
    /\ \/ /\ IndexAllows(SymbolAt(c))
          /\ sig[ex[c].signal] # "deleted"
          /\ trade' = [trade EXCEPT ![c] =
                         [status |-> "live_open", symbol |-> SymbolAt(c),
                          qty |-> LotsAt(c), signal |-> ex[c].signal]]
          /\ Goto(c, "sl1")
       \/ /\ ~IndexAllows(SymbolAt(c)) \/ sig[ex[c].signal] = "deleted"
          /\ Throw(c, "active")
          /\ UNCHANGED trade
    /\ UNCHANGED <<settings, sig, expired, rows, exchangeVars>>

\* The two ways in which placing an order of a kind can fail.
Refusal(kind) == IF kind = "sl" THEN "stop" ELSE "takeProfit"
LostAnswer(kind) == IF kind = "sl" THEN "stopTimeout" ELSE "takeProfitTimeout"

\* Placing one conditional order: it rests on the exchange; or the request is
\* refused; or the order rests, as "lost", although the client's timeout throws.
\* Unless it is answered the call goes on at "otherwise".
PlaceConditional(c, kind, lost, next, otherwise) ==
    /\ \/ /\ resting' = resting \cup {<<c, kind>>}
          /\ Goto(c, next)
       \/ /\ MayFail(Refusal(kind))
          /\ Goto(c, otherwise)
          /\ UNCHANGED resting
       \/ /\ MayFail(LostAnswer(kind))
          /\ resting' = resting \cup {<<c, lost>>}
          /\ Goto(c, otherwise)
    /\ UNCHANGED <<dbVars, pos>>

\* Recording it in an Order row with status 'open'.
RecordOrder(c, kind, next) ==
    /\ rows' = [rows EXCEPT ![c][kind] = "open"]
    /\ Goto(c, next)
    /\ UNCHANGED <<settings, sig, expired, trade, exchangeVars>>

\* Three attempts at the stop; the second and third need a mark price.
PlaceStop1(c) == At(c, "sl1") /\ PlaceConditional(c, "sl", "lost1", "slRow", "slMark")

FetchMarkForStop(c) ==
    /\ At(c, "slMark")
    /\ Goto(c, "sl2") \/ (MayFail("markPrice") /\ Goto(c, "emergency"))
    /\ UNCHANGED stateVars

\* Faulty variant: the last refused stop is only logged, as a take-profit is.
PlaceStop3Tolerant(c) == At(c, "sl3") /\ PlaceConditional(c, "sl", "lost3", "slRow", "tp2")

PlaceStop2(c) == At(c, "sl2") /\ PlaceConditional(c, "sl", "lost2", "slRow", "sl3")
PlaceStop3(c) == At(c, "sl3") /\ PlaceConditional(c, "sl", "lost3", "slRow", "emergency")

\* Faulty variant: the emergency closes nothing.
EmergencyCloseForgotten(c) ==
    /\ At(c, "emergency")
    /\ Goto(c, "failTrade")
    /\ UNCHANGED stateVars

\* No stop was answered: close at market (a failure is only logged), mark the
\* trade and then the signal failed.  Nothing cancels a stop whose answer was
\* lost.
EmergencyClose(c) ==
    /\ At(c, "emergency")
    /\ \/ pos' = [pos EXCEPT ![SymbolAt(c)] = Reduced(@, LotsAt(c))]
       \/ MayFail("close") /\ UNCHANGED pos
    /\ Goto(c, "failTrade")
    /\ UNCHANGED <<dbVars, resting>>

FailTrade(c) ==
    /\ At(c, "failTrade")
    /\ trade' = [trade EXCEPT ![c].status = "failed"]
    /\ Goto(c, "failSignal")
    /\ UNCHANGED <<settings, sig, expired, rows, exchangeVars>>

FailSignal(c) ==
    /\ At(c, "failSignal")
    /\ sig' = SignalsWith(ex[c].signal, "failed")
    /\ Throw(c, "failed")
    /\ UNCHANGED <<settings, expired, trade, rows, exchangeVars>>

\* The stop's row; then one take-profit if the quantity cannot be halved,
\* otherwise two.  A refused take-profit is only logged.
RecordStop(c) ==
    /\ At(c, "slRow")
    /\ RecordOrder(c, "sl", IF LotsAt(c) > 1 THEN "tp1" ELSE "tp2")

\* Faulty variant: a refused take-profit is treated like a refused stop.
PlaceTp2Strict(c) == At(c, "tp2") /\ PlaceConditional(c, "tp2", "tp2", "tp2Row", "emergency")

PlaceTp1(c) == At(c, "tp1") /\ PlaceConditional(c, "tp1", "tp1", "tp1Row", "tp2")
RecordTp1(c) == At(c, "tp1Row") /\ RecordOrder(c, "tp1", "tp2")
PlaceTp2(c) == At(c, "tp2") /\ PlaceConditional(c, "tp2", "tp2", "tp2Row", "executed")
RecordTp2(c) == At(c, "tp2Row") /\ RecordOrder(c, "tp2", "executed")

\* Faulty variant: a status the enum does not have.
MarkExecutedMisspelt(c) ==
    /\ At(c, "executed")
    /\ sig' = SignalsWith(ex[c].signal, "executed")
    /\ Goto(c, "done")
    /\ UNCHANGED <<settings, expired, trade, rows, exchangeVars>>

MarkExecuted(c) ==
    /\ At(c, "executed")
    /\ sig' = SignalsWith(ex[c].signal, "live_executed")
    /\ Goto(c, "done")
    /\ UNCHANGED <<settings, expired, trade, rows, exchangeVars>>

-----------------------------------------------------------------------------
\* Every step of a call that has claimed its signal.
CheckStep(c) ==
    \/ LoadSignal(c) \/ CheckExpiry(c) \/ CheckSettings(c) \/ CheckExisting(c)
    \/ CheckBalance(c) \/ CheckMarkPrice(c) \/ RaceGuard(c) \/ PauseCheck(c)
    \/ Settle(c) \/ CatchRead(c) \/ CatchWrite(c)

TradeStep(c) ==
    \/ SetLeverage(c) \/ PlaceEntry(c) \/ CreateTrade(c)
    \/ PlaceStop1(c) \/ FetchMarkForStop(c) \/ PlaceStop2(c) \/ PlaceStop3(c)
    \/ EmergencyClose(c) \/ FailTrade(c) \/ FailSignal(c)
    \/ RecordStop(c) \/ PlaceTp1(c) \/ RecordTp1(c) \/ PlaceTp2(c)
    \/ RecordTp2(c) \/ MarkExecuted(c)

CallStep(c) == CheckStep(c) \/ TradeStep(c)

\* The Node process dies: the calls in flight never continue.
CallsDie ==
    ex' = [c \in Calls |-> IF InFlight(c) THEN [ex[c] EXCEPT !.pc = "dead"]
                                          ELSE ex[c]]

Crash ==
    /\ \E c \in Calls : InFlight(c)
    /\ CallsDie
    /\ UNCHANGED stateVars

-----------------------------------------------------------------------------
(* For the properties of the compositions. *)

\* Between its entry and the answer to its last stop or emergency request a
\* call is the one looking after the position.
Guarding == {"create", "sl1", "slMark", "sl2", "sl3", "emergency"}

\* Before trade.create.
Unopened == Checking \cup {"ready", "settle", "leverage", "entry", "create"}

\* The trade is open and no stop has been answered yet.
Stopless == {"sl1", "slMark", "sl2", "sl3", "emergency", "failTrade"}

\* The stop has been answered and recorded.
StopRecorded == {"tp1", "tp1Row", "tp2", "tp2Row", "executed"}

Opened == Stopless \cup {"slRow"} \cup StopRecorded

\* A call that was made knows its signal.
Claimed == \A c \in Calls : ex[c].pc # "ready" => ex[c].signal \in Signals

\* One of the stops resting for a symbol would close its whole position.
Covered(m) ==
    \E o \in resting : /\ o[2] \in StopKinds
                       /\ trade[o[1]].symbol = m
                       /\ OrderQty(o[1], o[2]) >= pos[m]

=============================================================================
