-------------------------- MODULE ExecutionProofs ---------------------------
(***************************************************************************)
(* What the proofs of the compositions share: where each step of a call    *)
(* leads, what it leaves alone and that it keeps the types; and what the   *)
(* operator's requests can change.                                         *)
(***************************************************************************)
EXTENDS OrderExecution, BotControl, TLAPS

\* The parts of Typed that the steps of a call can change.
CallTyped == StateTypeOK /\ ExecutionTypeOK /\ Claimed

\* The statuses a refusal writes.
Verdicts == {"active", "cancelled", "expired", "failed"}

\* Call c went on to one of the points in to; the others did not move.
Moved(c, to) ==
    /\ ExecutionTypeOK'
    /\ ex'[c].pc \in to
    /\ ex'[c].signal = ex[c].signal
    /\ ex'[c].to \in {ex[c].to} \cup Verdicts
    /\ \A d \in Calls \ {c} : ex'[d] = ex[d]

-----------------------------------------------------------------------------
\* The three ways a call moves, used by every step.
LEMMA GotoMoves ==
    ASSUME ExecutionTypeOK, NEW c \in Calls, NEW pc \in Pcs, Goto(c, pc)
    PROVE  Moved(c, {pc})
BY DEF ExecutionTypeOK, Goto, Moved

LEMMA RefuseMoves ==
    ASSUME ExecutionTypeOK, NEW c \in Calls, NEW to \in Verdicts,
           NEW mark \in {"active", "failed"}, Refuse(c, to, mark)
    PROVE  Moved(c, {"settle"})
<1>1. to \in SignalStatus
  BY DEF Verdicts, SignalStatus
<1>2. "settle" \in Pcs
  BY DEF Pcs, Refusing
<1> QED
  BY <1>1, <1>2 DEF ExecutionTypeOK, Refuse, Moved

LEMMA ThrowMoves ==
    ASSUME ExecutionTypeOK, NEW c \in Calls, NEW mark \in {"active", "failed"},
           Throw(c, mark)
    PROVE  Moved(c, {"catch"})
<1>1. "catch" \in Pcs
  BY DEF Pcs, Refusing
<1> QED
  BY <1>1 DEF ExecutionTypeOK, Throw, Moved

LEMMA RefuseStoppedMoves ==
    ASSUME ExecutionTypeOK, NEW c \in Calls, RefuseStopped(c)
    PROVE  Moved(c, {"settle"})
BY RefuseMoves DEF RefuseStopped, Verdicts

-----------------------------------------------------------------------------
\* Where each check leads: to the next one, or to a refusal.
LEMMA ChecksMove ==
    ASSUME ExecutionTypeOK, NEW c \in Calls, CheckStep(c)
    PROVE  Moved(c, Checking \cup Refusing \cup {"leverage", "done"})
<1> DEFINE Targets == Checking \cup Refusing \cup {"leverage", "done"}
<1>1. Targets \subseteq Pcs
  BY DEF Pcs, Trading
<1>2. ASSUME NEW pc \in Targets, Goto(c, pc) PROVE Moved(c, Targets)
  BY <1>1, <1>2, GotoMoves DEF Moved
<1>3. ASSUME NEW to \in Verdicts, NEW mark \in {"active", "failed"},
             Refuse(c, to, mark)
      PROVE  Moved(c, Targets)
  BY <1>3, RefuseMoves DEF Moved, Refusing
<1>4. ASSUME RefuseStopped(c) PROVE Moved(c, Targets)
  BY <1>4, RefuseStoppedMoves DEF Moved, Refusing
<1>5. CASE LoadSignal(c)
  BY <1>5, <1>2 DEF LoadSignal, Checking
<1>6. CASE CheckExpiry(c)
  BY <1>6, <1>2, <1>3 DEF CheckExpiry, Checking, Verdicts
<1>7. CASE CheckSettings(c)
  BY <1>7, <1>2, <1>3, <1>4 DEF CheckSettings, Checking, Verdicts
<1>8. CASE CheckExisting(c)
  BY <1>8, <1>2, <1>3 DEF CheckExisting, Checking, Verdicts
<1>9. CASE CheckBalance(c)
  BY <1>9, <1>2, <1>3 DEF CheckBalance, Checking, Verdicts
<1>10. CASE CheckMarkPrice(c)
  BY <1>10, <1>2, <1>3 DEF CheckMarkPrice, Checking, Verdicts
<1>11. CASE RaceGuard(c)
  BY <1>11, <1>2, <1>3 DEF RaceGuard, Checking, Verdicts
<1>12. CASE PauseCheck(c)
  BY <1>12, <1>2, <1>4 DEF PauseCheck
<1>13. CASE Settle(c)
  BY <1>13, <1>2 DEF Settle, Refusing
<1>14. CASE CatchRead(c)
  BY <1>14, <1>2 DEF CatchRead, Refusing
<1>15. CASE CatchWrite(c)
  BY <1>15, <1>2 DEF CatchWrite
<1> HIDE DEF Targets
<1> QED
  BY <1>5, <1>6, <1>7, <1>8, <1>9, <1>10, <1>11, <1>12, <1>13, <1>14, <1>15
     DEF CheckStep, Targets

\* The checks touch neither trades nor the account, none of them goes back
\* behind trade.create, and only an unpaused bot lets a call pass.
LEMMA ChecksTouchOnlySignals ==
    ASSUME ExecutionTypeOK, NEW c \in Calls, CheckStep(c)
    PROVE  /\ UNCHANGED <<settings, expired, trade, rows, pos, resting>>
           /\ ex[c].pc \in Checking \cup Refusing
           /\ ex[c].pc \in Unopened \/ ex'[c].pc \in {"catchWrite", "done"}
           /\ ex'[c].pc = "leverage" => ~settings.isPaused
<1> USE DEF stateVars, exchangeVars, At, Checking, Refusing, Unopened
<1>1. CASE CatchRead(c)
  <2>1. Moved(c, {"catchWrite"}) \/ Moved(c, {"done"})
    BY <1>1, GotoMoves DEF CatchRead, Pcs
  <2> QED
    BY <1>1, <2>1 DEF CatchRead, Moved
<1>2. CASE CatchWrite(c)
  BY <1>2, GotoMoves DEF CatchWrite, Moved, Pcs
<1>3. CASE PauseCheck(c)
  <2>1. settings.isPaused => Moved(c, {"settle"})
    BY <1>3, RefuseStoppedMoves DEF PauseCheck
  <2> QED
    BY <1>3, <2>1 DEF PauseCheck, Moved
<1>4. CASE LoadSignal(c)
  <2>1. Moved(c, {"done"}) \/ Moved(c, {"expiry"})
    BY <1>4, GotoMoves DEF LoadSignal, Pcs
  <2> QED
    BY <1>4, <2>1 DEF LoadSignal, Moved
<1>5. CASE CheckExpiry(c)
  <2>1. Moved(c, {"settle"}) \/ Moved(c, {"settings"})
    BY <1>5, GotoMoves, RefuseMoves DEF CheckExpiry, Pcs, Verdicts
  <2> QED
    BY <1>5, <2>1 DEF CheckExpiry, Moved
<1>6. CASE CheckSettings(c)
  <2>1. Moved(c, {"settle"}) \/ Moved(c, {"existing"})
    BY <1>6, GotoMoves, RefuseMoves, RefuseStoppedMoves
       DEF CheckSettings, Pcs, Verdicts
  <2> QED
    BY <1>6, <2>1 DEF CheckSettings, Moved
<1>7. CASE CheckExisting(c)
  <2>1. Moved(c, {"settle"}) \/ Moved(c, {"balance"})
    BY <1>7, GotoMoves, RefuseMoves DEF CheckExisting, Pcs, Verdicts
  <2> QED
    BY <1>7, <2>1 DEF CheckExisting, Moved
<1>8. CASE CheckBalance(c)
  <2>1. Moved(c, {"settle"}) \/ Moved(c, {"markPrice"})
    BY <1>8, GotoMoves, RefuseMoves DEF CheckBalance, Pcs, Verdicts
  <2> QED
    BY <1>8, <2>1 DEF CheckBalance, Moved
<1>9. CASE CheckMarkPrice(c)
  <2>1. Moved(c, {"settle"}) \/ Moved(c, {"raceGuard"})
    BY <1>9, GotoMoves, RefuseMoves DEF CheckMarkPrice, Pcs, Verdicts
  <2> QED
    BY <1>9, <2>1 DEF CheckMarkPrice, Moved
<1>10. CASE RaceGuard(c)
  <2>1. Moved(c, {"settle"}) \/ Moved(c, {"pauseCheck"})
    BY <1>10, GotoMoves, RefuseMoves DEF RaceGuard, Pcs, Verdicts
  <2> QED
    BY <1>10, <2>1 DEF RaceGuard, Moved
<1>11. CASE Settle(c)
  BY <1>11, GotoMoves DEF Settle, Moved, Pcs
<1> QED
  BY <1>1, <1>2, <1>3, <1>4, <1>5, <1>6, <1>7, <1>8, <1>9, <1>10, <1>11
     DEF CheckStep

\* A refusal writes a status of the enum, and never that a signal was executed.
LEMMA ChecksWriteVerdicts ==
    ASSUME NEW c \in Calls, CallTyped, CheckStep(c)
    PROVE  /\ sig' \in [Signals -> SignalStatus]
           /\ ex[c].to # "live_executed" =>
                \A s \in Signals : sig'[s] = "live_executed" => sig[s] = "live_executed"
<1>1. sig \in [Signals -> SignalStatus] /\ ex[c].to \in SignalStatus
      /\ ex[c].mark \in {"active", "failed"}
  BY DEF CallTyped, StateTypeOK, ExecutionTypeOK
<1>2. CASE Settle(c)
  BY <1>1, <1>2 DEF Settle, SignalsWith
<1>3. CASE CatchWrite(c)
  BY <1>1, <1>3 DEF CatchWrite, SignalsWith, SignalStatus
<1>4. CASE sig' = sig
  BY <1>1, <1>4
<1> QED
  BY <1>2, <1>3, <1>4
     DEF CheckStep, LoadSignal, CheckExpiry, CheckSettings, CheckExisting,
         CheckBalance, CheckMarkPrice, RaceGuard, PauseCheck, CatchRead, stateVars

-----------------------------------------------------------------------------
\* Placing and recording an order.
LEMMA PlacingMoves ==
    ASSUME ExecutionTypeOK, NEW c \in Calls, NEW kind \in Kinds,
           NEW lost \in OrderKinds, NEW next \in Pcs, NEW otherwise \in Pcs,
           PlaceConditional(c, kind, lost, next, otherwise)
    PROVE  /\ UNCHANGED <<settings, sig, expired, trade, rows, pos>>
           /\ \/ resting' = resting \cup {<<c, kind>>} /\ Moved(c, {next})
              \/ resting' = resting /\ Moved(c, {otherwise})
              \/ resting' = resting \cup {<<c, lost>>} /\ Moved(c, {otherwise})
BY GotoMoves DEF PlaceConditional, dbVars

LEMMA RecordingMoves ==
    ASSUME ExecutionTypeOK, NEW c \in Calls, NEW kind \in Kinds,
           NEW next \in Pcs, RecordOrder(c, kind, next)
    PROVE  /\ UNCHANGED <<settings, sig, expired, trade, pos, resting>>
           /\ rows' = [rows EXCEPT ![c][kind] = "open"]
           /\ Moved(c, {next})
BY GotoMoves DEF RecordOrder, exchangeVars

\* The steps of a call whose trade exists.
OpenedStep(c) ==
    \/ PlaceStop1(c) \/ FetchMarkForStop(c) \/ PlaceStop2(c) \/ PlaceStop3(c)
    \/ EmergencyClose(c) \/ FailTrade(c) \/ FailSignal(c)
    \/ RecordStop(c) \/ PlaceTp1(c) \/ RecordTp1(c) \/ PlaceTp2(c)
    \/ RecordTp2(c) \/ MarkExecuted(c)

\* They start behind trade.create and never lead back before it.
LEMMA OpenedMoves ==
    ASSUME ExecutionTypeOK, NEW c \in Calls, OpenedStep(c)
    PROVE  /\ ex[c].pc \in Opened \cup {"failSignal"}
           /\ Moved(c, Opened \cup {"failSignal", "catch", "done"})
<1> DEFINE Targets == Opened \cup {"failSignal", "catch", "done"}
<1>1. Targets \subseteq Pcs
  BY DEF Pcs, Refusing, Trading, Opened, Stopless, StopRecorded
<1>2. ASSUME NEW pc \in Targets, Goto(c, pc) PROVE Moved(c, Targets)
  BY <1>1, <1>2, GotoMoves DEF Moved
<1>3. ASSUME NEW kind, NEW lost, NEW next \in Targets, NEW otherwise \in Targets,
             PlaceConditional(c, kind, lost, next, otherwise)
      PROVE  Moved(c, Targets)
  BY <1>2, <1>3 DEF PlaceConditional
<1> USE DEF Opened, Stopless, StopRecorded
<1>5. CASE PlaceStop1(c) \/ PlaceStop2(c) \/ PlaceStop3(c)
  BY <1>5, <1>3 DEF PlaceStop1, PlaceStop2, PlaceStop3, At
<1>6. CASE FetchMarkForStop(c)
  BY <1>6, <1>2 DEF FetchMarkForStop, At
<1>7. CASE EmergencyClose(c)
  BY <1>7, <1>2 DEF EmergencyClose, At
<1>8. CASE FailTrade(c)
  BY <1>8, <1>2 DEF FailTrade, At
<1>9. CASE FailSignal(c)
  <2>1. Moved(c, {"catch"})
    BY <1>9, ThrowMoves DEF FailSignal
  <2> QED
    BY <1>9, <2>1 DEF FailSignal, At, Moved
<1>10. CASE RecordStop(c) \/ RecordTp1(c) \/ RecordTp2(c)
  BY <1>10, <1>2 DEF RecordStop, RecordTp1, RecordTp2, RecordOrder, At
<1>11. CASE PlaceTp1(c) \/ PlaceTp2(c)
  BY <1>11, <1>3 DEF PlaceTp1, PlaceTp2, At
<1>12. CASE MarkExecuted(c)
  BY <1>12, <1>2 DEF MarkExecuted, At
<1> HIDE DEF Targets, Opened
<1> QED
  BY <1>5, <1>6, <1>7, <1>8, <1>9, <1>10, <1>11, <1>12 DEF OpenedStep, Targets

\* Where each step past the pause check leads.
LEMMA TradingMoves ==
    ASSUME CallTyped, NEW c \in Calls, TradeStep(c)
    PROVE  Moved(c, Trading \cup {"catch", "done"})
<1> DEFINE Targets == Trading \cup {"catch", "done"}
<1>1. ExecutionTypeOK
  BY DEF CallTyped
<1>2. Targets \subseteq Pcs
  BY DEF Pcs, Refusing
<1>3. ASSUME NEW pc \in Targets, Goto(c, pc) PROVE Moved(c, Targets)
  BY <1>1, <1>2, <1>3, GotoMoves DEF Moved
<1>4. ASSUME NEW mark \in {"active", "failed"}, Throw(c, mark)
      PROVE  Moved(c, Targets)
  BY <1>1, <1>4, ThrowMoves DEF Moved
<1>5. CASE SetLeverage(c)
  BY <1>5, <1>3, <1>4 DEF SetLeverage, Trading
<1>6. CASE PlaceEntry(c)
  BY <1>6, <1>3, <1>4 DEF PlaceEntry, Trading
<1>7. CASE CreateTrade(c)
  BY <1>7, <1>3, <1>4 DEF CreateTrade, Trading
<1>8. CASE OpenedStep(c)
  <2>1. Opened \cup {"failSignal", "catch", "done"} \subseteq Targets
    BY DEF Trading, Opened, Stopless, StopRecorded
  <2>2. Moved(c, Opened \cup {"failSignal", "catch", "done"})
    BY <1>1, <1>8, OpenedMoves
  <2> QED
    BY <2>1, <2>2 DEF Moved
<1> HIDE DEF Targets
<1> QED
  BY <1>5, <1>6, <1>7, <1>8 DEF TradeStep, OpenedStep, Targets

\* The claim: the call knows its signal from now on.
LEMMA ClaimMoves ==
    ASSUME CallTyped, NEW c \in Calls, NEW s \in Signals, Claim(c, s)
    PROVE  /\ CallTyped'
           /\ ex[c].pc = "ready"
           /\ ex'[c].pc = "load" /\ ex'[c].signal = s /\ ex'[c].to = ex[c].to
           /\ \A d \in Calls \ {c} : ex'[d] = ex[d]
           /\ sig' = [sig EXCEPT ![s] = "approved"]
           /\ UNCHANGED <<settings, expired, trade, rows, pos, resting>>
<1>0. /\ ex' = [ex EXCEPT ![c].pc = "load", ![c].signal = s]
      /\ sig' = [sig EXCEPT ![s] = "approved"]
      /\ ex[c].pc = "ready"
      /\ UNCHANGED <<settings, expired, trade, rows, pos, resting>>
  BY DEF Claim, At, exchangeVars
<1>1. StateTypeOK /\ ExecutionTypeOK
  BY DEF CallTyped
<1>2. /\ ex'[c].pc = "load" /\ ex'[c].signal = s /\ ex'[c].to = ex[c].to
      /\ \A d \in Calls \ {c} : ex'[d] = ex[d]
  BY <1>0, <1>1 DEF ExecutionTypeOK
<1>3. ExecutionTypeOK'
  <2>1. "load" \in Pcs
    BY DEF Pcs, Checking
  <2> QED
    BY <1>0, <1>1, <2>1 DEF ExecutionTypeOK
<1>4. StateTypeOK'
  BY <1>0, <1>1 DEF StateTypeOK, SignalStatus
<1>5. Claimed'
  BY <1>2 DEF CallTyped, Claimed
<1> QED
  BY <1>0, <1>2, <1>3, <1>4, <1>5 DEF CallTyped

-----------------------------------------------------------------------------
\* Every step of a call keeps the rows and the account well typed.
LEMMA CallStepTyped ==
    ASSUME NEW c \in Calls, CallTyped, CallStep(c)
    PROVE  CallTyped'
<1>1. CASE CheckStep(c)
  <2>1. StateTypeOK'
    BY <1>1, ChecksTouchOnlySignals, ChecksWriteVerdicts DEF CallTyped, StateTypeOK
  <2>2. Moved(c, Checking \cup Refusing \cup {"leverage", "done"})
    BY <1>1, ChecksMove DEF CallTyped
  <2>3. ex[c].pc # "ready"
    BY <1>1, ChecksTouchOnlySignals DEF CallTyped, Checking, Refusing
  <2> QED
    BY <2>1, <2>2, <2>3 DEF CallTyped, Claimed, Moved
<1>2. CASE TradeStep(c)
  <2>1. Moved(c, Trading \cup {"catch", "done"})
    BY <1>2, TradingMoves
  <2>2. ex[c].pc # "ready"
    BY <1>2 DEF TradeStep, SetLeverage, PlaceEntry, CreateTrade, PlaceStop1,
                FetchMarkForStop, PlaceStop2, PlaceStop3, EmergencyClose, FailTrade,
                FailSignal, RecordStop, PlaceTp1, RecordTp1, PlaceTp2, RecordTp2,
                MarkExecuted, At
  <2>3. ex[c].signal \in Signals
    BY <2>2 DEF CallTyped, Claimed
  <2>4. SymbolAt(c) \in Symbols /\ LotsAt(c) \in Nat
    BY <2>3, ConstantsAssumption DEF SymbolAt, LotsAt
  <2>5. c \in Trades
    BY DEF Trades
  <2>6. StateTypeOK'
    <3>0. StateTypeOK
      BY DEF CallTyped
    <3>1. CASE SetLeverage(c) \/ FetchMarkForStop(c)
      BY <3>0, <3>1 DEF SetLeverage, FetchMarkForStop, StateTypeOK, stateVars
    <3>2. CASE PlaceEntry(c)
      BY <3>0, <3>2, <2>4 DEF PlaceEntry, StateTypeOK, dbVars
    <3>3. CASE CreateTrade(c)
      BY <3>0, <3>3, <2>3, <2>4, <2>5
         DEF CreateTrade, StateTypeOK, exchangeVars, TradeRow, TradeStatus
    <3>4. ASSUME NEW kind \in OrderKinds, NEW lost \in OrderKinds, NEW next, NEW otherwise,
                 PlaceConditional(c, kind, lost, next, otherwise)
          PROVE  StateTypeOK'
      BY <3>0, <3>4, <2>5 DEF PlaceConditional, StateTypeOK, dbVars
    <3>5. ASSUME NEW kind \in Kinds, NEW next, RecordOrder(c, kind, next)
          PROVE  StateTypeOK'
      BY <3>0, <3>5, <2>5 DEF RecordOrder, StateTypeOK, exchangeVars, RowStatus
    <3>6. /\ {"sl", "tp1", "tp2"} \subseteq Kinds
          /\ {"sl", "tp1", "tp2", "lost1", "lost2", "lost3"} \subseteq OrderKinds
      BY DEF Kinds, OrderKinds, StopKinds, LostStops
    <3>7. CASE PlaceStop1(c) \/ PlaceStop2(c) \/ PlaceStop3(c) \/ PlaceTp1(c) \/ PlaceTp2(c)
      BY <3>7, <3>4, <3>6 DEF PlaceStop1, PlaceStop2, PlaceStop3, PlaceTp1, PlaceTp2
    <3>8. CASE RecordStop(c) \/ RecordTp1(c) \/ RecordTp2(c)
      BY <3>8, <3>5, <3>6 DEF RecordStop, RecordTp1, RecordTp2
    <3>9. CASE EmergencyClose(c)
      <4>1. Reduced(pos[SymbolAt(c)], LotsAt(c)) \in Nat
        BY <3>0, <2>4 DEF StateTypeOK, Reduced
      <4> QED
        BY <3>0, <3>9, <2>4, <4>1 DEF EmergencyClose, StateTypeOK, dbVars
    <3>10. CASE FailTrade(c)
      BY <3>0, <3>10, <2>5 DEF FailTrade, StateTypeOK, exchangeVars, TradeRow, TradeStatus
    <3>11. CASE FailSignal(c) \/ MarkExecuted(c)
      BY <3>0, <3>11
         DEF FailSignal, MarkExecuted, SignalsWith, StateTypeOK, exchangeVars, SignalStatus
    <3> QED
      BY <1>2, <3>1, <3>2, <3>3, <3>7, <3>8, <3>9, <3>10, <3>11 DEF TradeStep
  <2> QED
    BY <2>1, <2>2, <2>3, <2>6 DEF CallTyped, Claimed, Moved
<1> QED
  BY <1>1, <1>2 DEF CallStep

-----------------------------------------------------------------------------
\* The requests of the operator and the expiry sweep: they change settings and
\* signals only, and never report a signal as executed.
ControlOnly ==
    /\ UNCHANGED <<ex, trade, rows, pos, resting>>
    /\ settings' \in Settings
    /\ expired' \in SUBSET Signals
    /\ sig' \in [Signals -> SignalStatus]
    /\ \A s \in Signals : sig'[s] = "live_executed" => sig[s] = "live_executed"

LEMMA ControlSteps ==
    ASSUME StateTypeOK, ControlTypeOK, ControlStep \/ ExpireStaleSignals, UNCHANGED ex
    PROVE  ControlOnly /\ ControlTypeOK'
<1> USE DEF StateTypeOK, ControlTypeOK, ControlOnly, stateVars, exchangeVars,
            controlVars, SignalStatus
<1>1. ASSUME NEW s \in Signals, SkipSignal(s) \/ CancelSignal(s) \/ SignalAges(s)
      PROVE  ControlOnly /\ ControlTypeOK'
  BY <1>1 DEF SkipSignal, CancelSignal, SignalAges, SignalsWith
<1>2. ASSUME NEW S, NEW from, NEW to \in {"deleted", "cancelled", "expired"},
             sig' = SignalsMoved(S, from, to)
      PROVE  /\ sig' \in [Signals -> SignalStatus]
             /\ \A s \in Signals : sig'[s] = "live_executed" => sig[s] = "live_executed"
  BY <1>2 DEF SignalsMoved
<1>3. CASE CleanupSignals
  BY <1>3, <1>2 DEF CleanupSignals
<1>4. CASE ExpireStaleSignals
  BY <1>4, <1>2 DEF ExpireStaleSignals, StaleExpired
<1>5. CASE StopCancels
  BY <1>5, <1>2 DEF StopCancels, StopWrites
<1>6. CASE BeginStop
  BY <1>6 DEF BeginStop
<1>7. CASE StopPauses \/ PauseBot \/ ResumeBot
  BY <1>7 DEF StopPauses, PauseBot, ResumeBot, Settings, StopWrites
<1>8. ASSUME NEW p \in LiveSettings, ValidatePatch(p)
      PROVE  ControlOnly /\ ControlTypeOK'
  BY <1>8 DEF ValidatePatch
<1>9. CASE WritePatch
  BY <1>9 DEF WritePatch, LiveSettings, Settings
<1> QED
  BY <1>1, <1>3, <1>4, <1>5, <1>6, <1>7, <1>8, <1>9 DEF ControlStep, RequestStep

-----------------------------------------------------------------------------
(* Entering a position.                                                    *)

\* Between the second duplicate guard, which finds no open trade, and
\* trade.create, which makes one.
Entering == {"pauseCheck", "leverage", "entry", "create"}

\* The guard is not atomic with the row it guards: this is what it would have
\* to ensure.
OneEntryPerSymbol ==
    \A c, d \in Calls :
        ex[c].pc \in Entering /\ ex[d].pc \in Entering /\ SymbolAt(c) = SymbolAt(d)
            => c = d

\* No signal is gone and no call is dead.
NobodyLost ==
    /\ \A s \in Signals : sig[s] # "deleted"
    /\ \A c \in Calls : ex[c].pc # "dead" /\ ex[c].to # "deleted"

\* A call on its way to trade.create finds no open trade of its symbol.
EntersAlone ==
    \A c \in Calls : ex[c].pc \in Entering => LiveTradesOf(SymbolAt(c)) = {}

\* A call's symbol and quantity are those of its signal, which stays.
LEMMA SameSymbols ==
    ASSUME NEW c \in Calls, NEW to, Moved(c, to)
    PROVE  \A d \in Calls : /\ SymbolAt(d)' = SymbolAt(d) /\ LotsAt(d)' = LotsAt(d)
                            /\ d # c => ex'[d] = ex[d]
BY DEF Moved, SymbolAt, LotsAt

\* Only the race guard lets a call in, and it has found no open trade.
LEMMA ChecksEnter ==
    ASSUME ExecutionTypeOK, NEW c \in Calls, CheckStep(c), ex'[c].pc \in Entering
    PROVE  LiveTradesOf(SymbolAt(c)) = {} \/ ex[c].pc = "pauseCheck"
<1> USE DEF At, Entering
<1>1. ASSUME NEW pc \in Pcs, Goto(c, pc) PROVE ex'[c].pc = pc
  BY <1>1, GotoMoves DEF Moved
<1>2. ASSUME NEW to \in Verdicts, NEW mark \in {"active", "failed"}, Refuse(c, to, mark)
      PROVE  FALSE
  BY <1>2, RefuseMoves DEF Moved
<1>3. ~RefuseStopped(c)
  BY RefuseStoppedMoves DEF Moved
<1>4. {"expiry", "settings", "existing", "balance", "markPrice", "raceGuard", "done",
       "catch", "catchWrite"} \subseteq Pcs
  BY DEF Pcs, Checking, Refusing
<1>5. CASE LoadSignal(c) \/ CatchRead(c) \/ Settle(c) \/ CatchWrite(c)
  BY <1>5, <1>1, <1>4 DEF LoadSignal, CatchRead, Settle, CatchWrite
<1>6. CASE CheckExpiry(c) \/ CheckBalance(c) \/ CheckMarkPrice(c)
  BY <1>6, <1>1, <1>2, <1>4 DEF CheckExpiry, CheckBalance, CheckMarkPrice, Verdicts
<1>7. CASE CheckSettings(c) \/ CheckExisting(c)
  BY <1>7, <1>1, <1>2, <1>3, <1>4 DEF CheckSettings, CheckExisting, Verdicts
<1>8. CASE RaceGuard(c)
  BY <1>8, <1>2 DEF RaceGuard, Verdicts
<1>9. CASE PauseCheck(c)
  BY <1>9 DEF PauseCheck
<1> QED
  BY <1>5, <1>6, <1>7, <1>8, <1>9 DEF CheckStep

\* No step of a call deletes a signal or kills a call.
LEMMA CallLosesNothing ==
    ASSUME NEW c \in Calls, CallTyped, NobodyLost, CallStep(c)
    PROVE  NobodyLost'
<1>0. /\ ExecutionTypeOK
      /\ sig \in [Signals -> SignalStatus]
      /\ ex[c].to # "deleted" /\ ex[c].mark # "deleted"
      /\ Moved(c, Pcs \ {"dead"})
  <2>1. CASE CheckStep(c)
    BY <2>1, ChecksMove DEF CallTyped, ExecutionTypeOK, StateTypeOK, NobodyLost, Moved,
                            Pcs, Checking, Refusing
  <2>2. CASE TradeStep(c)
    BY <2>2, TradingMoves DEF CallTyped, ExecutionTypeOK, StateTypeOK, NobodyLost, Moved,
                              Pcs, Trading, Refusing
  <2> QED
    BY <2>1, <2>2 DEF CallStep
<1>1. ASSUME NEW s \in {ex[c].signal}, NEW to, to # "deleted", sig' = SignalsWith(s, to)
      PROVE  \A u \in Signals : sig'[u] # "deleted"
  BY <1>0, <1>1 DEF SignalsWith, NobodyLost
<1>2. \A u \in Signals : sig'[u] # "deleted"
  <2>1. CASE UNCHANGED sig
    BY <2>1 DEF NobodyLost
  <2>2. CASE Settle(c) \/ CatchWrite(c) \/ FailSignal(c) \/ MarkExecuted(c)
    BY <1>0, <1>1, <2>2 DEF Settle, CatchWrite, FailSignal, MarkExecuted
  <2> QED
    BY <2>1, <2>2
       DEF CallStep, CheckStep, LoadSignal, CheckExpiry, CheckSettings, CheckExisting,
           CheckBalance, CheckMarkPrice, RaceGuard, PauseCheck, CatchRead, TradeStep,
           SetLeverage, PlaceEntry, CreateTrade, PlaceStop1, FetchMarkForStop,
           PlaceStop2, PlaceStop3, EmergencyClose, FailTrade, RecordStop, PlaceTp1,
           RecordTp1, PlaceTp2, RecordTp2, PlaceConditional, RecordOrder, stateVars,
           dbVars
<1>3. \A d \in Calls : ex'[d].pc # "dead" /\ ex'[d].to # "deleted"
  BY <1>0 DEF Moved, NobodyLost, Verdicts
<1> QED
  BY <1>2, <1>3 DEF NobodyLost

\* A claim brings nothing back and a request other than a cleanup deletes nothing.
LEMMA ClaimLosesNothing ==
    ASSUME CallTyped, NobodyLost, NEW c \in Calls, NEW s \in Signals, Claim(c, s)
    PROVE  NobodyLost'
<1>1. /\ ex'[c].pc = "load" /\ ex'[c].to = ex[c].to
      /\ \A d \in Calls \ {c} : ex'[d] = ex[d]
      /\ sig' = [sig EXCEPT ![s] = "approved"]
  BY ClaimMoves
<1> QED
  BY <1>1 DEF CallTyped, StateTypeOK, NobodyLost

LEMMA SweepLosesNothing ==
    ASSUME NobodyLost, UNCHANGED ex, NEW S, NEW from, NEW to \in {"cancelled", "expired"},
           sig' = SignalsMoved(S, from, to)
    PROVE  NobodyLost'
BY DEF SignalsMoved, NobodyLost

LEMMA RequestsLoseNothing ==
    ASSUME StateTypeOK, NobodyLost, "cleanup" \notin Requests,
           ControlStep \/ ExpireStaleSignals, UNCHANGED ex
    PROVE  NobodyLost'
<1>1. ASSUME NEW u \in Signals, SkipSignal(u) \/ CancelSignal(u) \/ SignalAges(u)
      PROVE  NobodyLost'
  BY <1>1 DEF SkipSignal, CancelSignal, SignalAges, SignalsWith, NobodyLost, StateTypeOK
<1>2. CASE StopCancels \/ ExpireStaleSignals
  BY <1>2, SweepLosesNothing DEF StopCancels, ExpireStaleSignals, StaleExpired
<1>3. ~CleanupSignals
  BY DEF CleanupSignals, Asked
<1>4. CASE UNCHANGED sig
  BY <1>4 DEF NobodyLost
<1> QED
  BY <1>1, <1>2, <1>3, <1>4
     DEF ControlStep, RequestStep, BeginStop, StopPauses, PauseBot, ResumeBot,
         ValidatePatch, WritePatch, stateVars

=============================================================================
