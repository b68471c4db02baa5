-------------------------- MODULE ProtectionProofs --------------------------
(***************************************************************************)
(* That a position is never left without its stop and is always on the     *)
(* books.  An open trade whose call got past its stop keeps that stop,     *)
(* whatever fails (StopStands).  The whole promise needs the cases in      *)
(* which the code breaks it to be absent: two entries for one symbol at    *)
(* once, an entry whose answer is lost, a failed emergency close, a        *)
(* cleanup or a crash between entry and trade.create.                      *)
(***************************************************************************)
EXTENDS SignalExecutionProofs

-----------------------------------------------------------------------------
\* An open trade belongs to a call that created it and has not failed it; past
\* its stop, the stop rests.
Standing(t) ==
    trade[t].status = "live_open" =>
        /\ t \in Calls
        /\ ex[t].pc \in Opened \cup {"done", "dead"}
        /\ ex[t].pc \notin Stopless \cup {"dead"} => <<t, "sl">> \in resting

StopStands == \A t \in Trades : Standing(t)

\* A step of a call keeps its own stop standing.
LEMMA OwnStanding ==
    ASSUME IInv, NEW c \in Calls, Standing(c), CallStep(c)
    PROVE  Standing(c)'
<1> USE DEF Standing, At, Opened, Stopless, StopRecorded, Unopened, Checking
<1>0. /\ CallTyped /\ ExecutionTypeOK /\ CallConsistent(c)
      /\ c \in Trades
      /\ trade \in [Trades -> TradeRow]
      /\ {"sl", "tp1", "tp2"} \subseteq Kinds
      /\ Trading \subseteq Pcs /\ {"done", "catch"} \subseteq Pcs
      /\ ex[c].pc \in Unopened => trade[c].status = "none"
  BY DEF IInv, Typed, TypeOK, CallTyped, Consistent, CallConsistent, StateTypeOK, Trades,
         Kinds, StopKinds, Pcs, Refusing
<1>1. CASE CheckStep(c)
  BY <1>0, <1>1, ChecksTouchOnlySignals DEF Refusing
<1>2. CASE SetLeverage(c) \/ PlaceEntry(c)
  BY <1>0, <1>2 DEF SetLeverage, PlaceEntry, stateVars, dbVars
<1>3. CASE CreateTrade(c)
  <2>1. CASE UNCHANGED trade
    BY <1>0, <1>3, <2>1 DEF CreateTrade
  <2>2. CASE Goto(c, "sl1")
    BY <1>0, <2>2, GotoMoves DEF Moved, Trading
  <2> QED
    BY <1>3, <2>1, <2>2 DEF CreateTrade
<1>4. ASSUME NEW lost \in OrderKinds, NEW next \in Stopless,
             PlaceConditional(c, "sl", lost, "slRow", next)
      PROVE  Standing(c)'
  <2>1. next \in Pcs /\ "slRow" \in Pcs
    BY <1>0 DEF Trading
  <2> QED
    BY <1>0, <1>4, <2>1, PlacingMoves DEF Moved
<1>5. CASE PlaceStop1(c) \/ PlaceStop2(c) \/ PlaceStop3(c)
  BY <1>5, <1>4 DEF PlaceStop1, PlaceStop2, PlaceStop3, OrderKinds, StopKinds, LostStops
<1>6. CASE FetchMarkForStop(c)
  <2>1. Moved(c, {"sl2"}) \/ Moved(c, {"emergency"})
    BY <1>0, <1>6, GotoMoves DEF FetchMarkForStop, Trading
  <2> QED
    BY <1>0, <1>6, <2>1 DEF FetchMarkForStop, Moved, stateVars
<1>7. CASE EmergencyClose(c)
  <2>1. Moved(c, {"failTrade"})
    BY <1>0, <1>7, GotoMoves DEF EmergencyClose, Trading
  <2> QED
    BY <1>0, <1>7, <2>1 DEF EmergencyClose, Moved, dbVars
<1>8. CASE FailTrade(c)
  BY <1>0, <1>8 DEF FailTrade, TradeRow
<1>9. CASE FailSignal(c)
  BY <1>0, <1>9 DEF FailSignal
<1>10. ASSUME NEW kind \in {"sl", "tp1", "tp2"}, NEW next \in StopRecorded,
              ex[c].pc \in {"slRow"} \cup StopRecorded, RecordOrder(c, kind, next)
       PROVE  Standing(c)'
  <2>1. next \in Pcs
    BY <1>0 DEF Trading
  <2> QED
    BY <1>0, <1>10, <2>1, RecordingMoves DEF Moved
<1>11. CASE RecordStop(c) \/ RecordTp1(c) \/ RecordTp2(c)
  BY <1>11, <1>10 DEF RecordStop, RecordTp1, RecordTp2
<1>12. ASSUME NEW kind \in {"tp1", "tp2"}, NEW next \in StopRecorded,
              NEW otherwise \in StopRecorded, ex[c].pc \in StopRecorded,
              PlaceConditional(c, kind, kind, next, otherwise)
       PROVE  Standing(c)'
  <2>1. next \in Pcs /\ otherwise \in Pcs
    BY <1>0 DEF Trading
  <2>2. kind \in OrderKinds
    BY DEF OrderKinds, Kinds
  <2> QED
    BY <1>0, <1>12, <2>2, <2>1, PlacingMoves DEF Moved
<1>13. CASE PlaceTp1(c) \/ PlaceTp2(c)
  BY <1>13, <1>12 DEF PlaceTp1, PlaceTp2
<1>14. CASE MarkExecuted(c)
  BY <1>0, <1>14, GotoMoves DEF MarkExecuted, Moved, exchangeVars
<1> HIDE DEF Standing
<1> QED
  BY <1>1, <1>2, <1>3, <1>5, <1>6, <1>7, <1>8, <1>9, <1>11, <1>13, <1>14
     DEF CallStep, TradeStep

LEMMA StandingStep == IInv /\ StopStands /\ [Next]_vars => StopStands'
<1> SUFFICES ASSUME IInv, StopStands, [Next]_vars, NEW t \in Trades
             PROVE  Standing(t)'
  BY DEF StopStands
<1>0. Standing(t) /\ CallTyped /\ (t \in Calls => CallConsistent(t))
  BY DEF StopStands, IInv, Typed, TypeOK, CallTyped, Consistent
<1>1. ASSUME NEW c \in Calls, CallStep(c) PROVE Standing(t)'
  <2>1. CASE t = c
    BY <1>0, <1>1, <2>1, OwnStanding
  <2>2. CASE t # c
    <3>1. SameHoldings(t)
      BY <1>0, <1>1, <2>2, Frame
    <3>2. t \in Calls => ex'[t] = ex[t]
      BY <1>0, <1>1, <2>2, ChecksMove, TradingMoves DEF CallStep, CallTyped, Moved
    <3> QED
      BY <1>0, <3>1, <3>2 DEF Standing, SameHoldings, OrderKinds, StopKinds
  <2> QED
    BY <2>1, <2>2
<1>2. ASSUME NEW c \in Calls, NEW s \in Signals, Claim(c, s) PROVE Standing(t)'
  <2>1. t \in Calls /\ trade[t].status = "live_open" => t # c
    BY <1>0, <1>2, ClaimMoves DEF CallConsistent, Unopened
  <2> QED
    BY <1>0, <1>2, <2>1, ClaimMoves DEF Standing
<1>3. CASE (ControlStep \/ ExpireStaleSignals) /\ UNCHANGED ex
  BY <1>0, <1>3, ControlSteps DEF IInv, Typed, TypeOK, ControlOnly, Standing
<1>4. CASE Restart
  <2>1. /\ UNCHANGED <<trade, resting>>
        /\ \A c \in Calls : ex'[c] = ex[c] \/ ex'[c].pc = "dead"
    BY <1>0, <1>4 DEF Restart, Crash, CallsDie, stateVars, CallTyped, ExecutionTypeOK
  <2> QED
    BY <1>0, <2>1 DEF Standing
<1>5. CASE UNCHANGED vars
  BY <1>0, <1>5 DEF vars, stateVars, Standing
<1> QED
  BY <1>1, <1>2, <1>3, <1>4, <1>5 DEF Next

\* An open trade whose call got past its stop has that stop on the exchange,
\* for every choice of failing requests, requests of the operator and crashes.
THEOREM StopsStand == Spec => []StopStands
<1>1. Init => StopStands
  BY DEF Init, StateInit, AccountInit, NoTrade, StopStands, Standing
<1> QED
  BY <1>1, StandingStep, Invariance, PTL DEF Spec

-----------------------------------------------------------------------------
\* What a filled entry or an open trade says of the position of its symbol.
Filled ==
    \A c \in Calls : ex[c].pc = "create" => pos[SymbolAt(c)] = LotsAt(c)

BookedAs(t) ==
    trade[t].status = "live_open" =>
        /\ trade[t].symbol = SymbolAt(t)
        /\ trade[t].qty = LotsAt(t)
        /\ pos[SymbolAt(t)] = IF ex[t].pc = "failTrade" THEN 0 ELSE LotsAt(t)

AllBooked == \A t \in Trades : BookedAs(t)

\* Nobody else holds a position.
NoStray ==
    \A m \in Symbols :
        \/ pos[m] = 0
        \/ LiveTradesOf(m) # {}
        \/ \E c \in Calls : ex[c].pc = "create" /\ SymbolAt(c) = m

PInv ==
    /\ NobodyLost
    /\ EntersAlone
    /\ Filled
    /\ AllBooked
    /\ NoStray

\* The cases in which the code does leave a position unprotected or unbooked
\* are absent from the instance.
NothingLost ==
    /\ {"entryTimeout", "close"} \cap Faults = {}
    /\ "cleanup" \notin Requests
    /\ ~CrashAllowed

-----------------------------------------------------------------------------
\* A step that moves a call without touching trades or positions.
LEMMA QuietStep ==
    ASSUME IInv, PInv, StopStands, NEW c \in Calls, NEW to, Moved(c, to),
           UNCHANGED <<trade, pos>>, NobodyLost',
           ex[c].pc # "create", ex'[c].pc # "create",
           ex'[c].pc = "failTrade" <=> ex[c].pc = "failTrade",
           ex'[c].pc \in Entering => \/ ex[c].pc \in Entering
                                     \/ LiveTradesOf(SymbolAt(c)) = {}
    PROVE  PInv'
<1>1. \A d \in Calls : /\ SymbolAt(d)' = SymbolAt(d) /\ LotsAt(d)' = LotsAt(d)
                       /\ d # c => ex'[d] = ex[d]
  BY SameSymbols
<1>2. \A m : LiveTradesOf(m)' = LiveTradesOf(m)
  BY DEF LiveTradesOf, LiveTrades
<1>3. EntersAlone'
  BY <1>1, <1>2 DEF PInv, EntersAlone
<1>4. Filled'
  BY <1>1 DEF PInv, Filled
<1>5. AllBooked'
  <2>1. ASSUME NEW t \in Trades, trade[t].status = "live_open" PROVE BookedAs(t)'
    <3>1. t \in Calls /\ BookedAs(t)
      BY <2>1 DEF StopStands, Standing, PInv, AllBooked
    <3> QED
      BY <1>1, <3>1 DEF BookedAs
  <2> QED
    BY <2>1 DEF AllBooked, BookedAs
<1>6. NoStray'
  BY <1>1, <1>2 DEF PInv, NoStray
<1> QED
  BY <1>3, <1>4, <1>5, <1>6 DEF PInv

\* The entry order: nobody holds a position of the symbol when it is filled.
LEMMA EntryBooked ==
    ASSUME NothingLost, IInv, PInv, StopStands, OneEntryPerSymbol,
           NEW c \in Calls, PlaceEntry(c), NobodyLost'
    PROVE  PInv'
<1> DEFINE m == SymbolAt(c)
<1>0. /\ ExecutionTypeOK /\ ex[c].pc = "entry" /\ UNCHANGED trade
      /\ {"create", "catch"} \subseteq Pcs
      /\ pos \in [Symbols -> Nat] /\ m \in Symbols /\ LotsAt(c) \in Nat
  <2>1. ExecutionTypeOK /\ ex[c].pc = "entry" /\ pos \in [Symbols -> Nat] /\ Claimed
    BY DEF PlaceEntry, At, IInv, Typed, TypeOK, StateTypeOK
  <2> QED
    BY <2>1, ConstantsAssumption
       DEF Claimed, SymbolAt, LotsAt, Pcs, Trading, Refusing, PlaceEntry, dbVars
<1>1. \/ UNCHANGED pos /\ Moved(c, {"catch"})
      \/ pos' = [pos EXCEPT ![m] = @ + LotsAt(c)] /\ Moved(c, {"create"})
  BY <1>0, GotoMoves, ThrowMoves DEF PlaceEntry, NothingLost, MayFail
<1>2. CASE UNCHANGED pos /\ Moved(c, {"catch"})
  BY <1>0, <1>2, QuietStep DEF Moved, Entering
<1>3. CASE pos' = [pos EXCEPT ![m] = @ + LotsAt(c)] /\ Moved(c, {"create"})
  <2>1. \A d \in Calls : /\ SymbolAt(d)' = SymbolAt(d) /\ LotsAt(d)' = LotsAt(d)
                         /\ d # c => ex'[d] = ex[d]
    BY <1>3, SameSymbols
  <2>2. \A n : LiveTradesOf(n)' = LiveTradesOf(n)
    BY <1>0 DEF LiveTradesOf, LiveTrades
  <2>3. LiveTradesOf(m) = {}
    BY <1>0 DEF PInv, EntersAlone, Entering
  <2>4. \A d \in Calls : d # c /\ ex[d].pc = "create" => SymbolAt(d) # m
    BY <1>0 DEF OneEntryPerSymbol, Entering
  <2>5. /\ pos'[m] = LotsAt(c)
        /\ \A n \in Symbols : n # m => pos'[n] = pos[n]
    <3>1. pos[m] = 0
      BY <1>0, <2>3, <2>4 DEF PInv, NoStray
    <3> QED
      BY <1>0, <1>3, <3>1
  <2>6. \A d \in Calls : ex[d].pc # "ready" => SymbolAt(d) \in Symbols
    BY ConstantsAssumption DEF IInv, Typed, Claimed, SymbolAt
  <2>7. EntersAlone'
    BY <1>0, <2>1, <2>2 DEF PInv, EntersAlone, Entering
  <2>8. Filled'
    BY <2>1, <2>4, <2>5, <2>6 DEF PInv, Filled
  <2>9. AllBooked'
    <3>1. ASSUME NEW t \in Trades, trade[t].status = "live_open" PROVE BookedAs(t)'
      <4>1. t \in Calls /\ BookedAs(t) /\ ex[t].pc \in Opened \cup {"done", "dead"}
        BY <3>1 DEF StopStands, Standing, PInv, AllBooked
      <4>2. t # c /\ SymbolAt(t) # m /\ SymbolAt(t) \in Symbols
        <5>1. trade[t].symbol = SymbolAt(t)
          BY <3>1, <4>1 DEF BookedAs
        <5>2. SymbolAt(t) # m
          BY <2>3, <3>1, <5>1 DEF LiveTradesOf, LiveTrades
        <5> QED
          BY <2>6, <4>1, <5>2 DEF Opened, Stopless, StopRecorded
      <4> QED
        BY <1>0, <2>1, <2>5, <4>1, <4>2 DEF BookedAs
    <3> QED
      BY <1>0, <3>1 DEF AllBooked, BookedAs
  <2>10. NoStray'
    <3>1. ASSUME NEW n \in Symbols, n # m
          PROVE  \/ pos'[n] = 0 \/ LiveTradesOf(n)' # {}
                 \/ \E d \in Calls : ex'[d].pc = "create" /\ SymbolAt(d)' = n
      BY <1>0, <2>1, <2>2, <2>5, <3>1 DEF PInv, NoStray
    <3>2. ex'[c].pc = "create" /\ SymbolAt(c)' = m
      BY <1>3, <2>1 DEF Moved
    <3> QED
      BY <3>1, <3>2 DEF NoStray
  <2> QED
    BY <2>7, <2>8, <2>9, <2>10 DEF PInv
<1> QED
  BY <1>1, <1>2, <1>3

\* trade.create: it succeeds, and the row says what was filled.
LEMMA CreationBooked ==
    ASSUME IInv, PInv, StopStands, OneEntryPerSymbol,
           NEW c \in Calls, CreateTrade(c), NobodyLost'
    PROVE  PInv'
<1>m. PICK m \in Symbols : m = SymbolAt(c)
  BY ConstantsAssumption
     DEF CreateTrade, At, IInv, Typed, Claimed, SymbolAt
<1>0. /\ ExecutionTypeOK /\ ex[c].pc = "create" /\ UNCHANGED pos
      /\ "sl1" \in Pcs /\ c \in Trades
      /\ trade \in [Trades -> TradeRow]
      /\ ex[c].signal \in Signals /\ trade[c].status = "none"
  BY DEF CreateTrade, At, exchangeVars, IInv, Typed, TypeOK, StateTypeOK, Claimed,
         Consistent, CallConsistent, Unopened, Pcs, Trading, Trades
<1>1. LiveTradesOf(m) = {} /\ sig[ex[c].signal] # "deleted"
  BY <1>m, <1>0 DEF PInv, EntersAlone, Entering, NobodyLost
<1>2. /\ Moved(c, {"sl1"})
      /\ trade' = [trade EXCEPT ![c] =
                     [status |-> "live_open", symbol |-> m,
                      qty |-> LotsAt(c), signal |-> ex[c].signal]]
  BY <1>m, <1>0, <1>1, GotoMoves DEF CreateTrade, IndexAllows
<1>3. \A d \in Calls : /\ SymbolAt(d)' = SymbolAt(d) /\ LotsAt(d)' = LotsAt(d)
                       /\ d # c => ex'[d] = ex[d]
  BY <1>2, SameSymbols
<1>4. /\ trade'[c].status = "live_open" /\ trade'[c].symbol = m /\ trade'[c].qty = LotsAt(c)
      /\ \A t \in Trades : t # c => trade'[t] = trade[t]
  BY <1>0, <1>2
<1>5. \A d \in Calls : d # c /\ ex[d].pc \in Entering => SymbolAt(d) # m
  BY <1>m, <1>0 DEF OneEntryPerSymbol, Entering
<1>6. \A n : n # m => LiveTradesOf(n)' \subseteq LiveTradesOf(n)
  BY <1>4 DEF LiveTradesOf, LiveTrades
<1>7. EntersAlone'
  BY <1>2, <1>3, <1>5, <1>6 DEF PInv, EntersAlone, Entering, Moved
<1>8. Filled'
  BY <1>0, <1>2, <1>3 DEF PInv, Filled, Moved
<1>9. AllBooked'
  <2>1. BookedAs(c)'
    BY <1>m, <1>0, <1>2, <1>3, <1>4 DEF PInv, Filled, BookedAs, Moved
  <2>2. ASSUME NEW t \in Trades, t # c, trade[t].status = "live_open" PROVE BookedAs(t)'
    <3>1. t \in Calls /\ BookedAs(t)
      BY <2>2 DEF StopStands, Standing, PInv, AllBooked
    <3> QED
      BY <1>0, <1>3, <1>4, <2>2, <3>1 DEF BookedAs
  <2>3. \A t \in Trades : t # c /\ trade[t].status # "live_open" => BookedAs(t)'
    BY <1>4 DEF BookedAs
  <2> QED
    BY <2>1, <2>2, <2>3 DEF AllBooked
<1>10. NoStray'
  <2>1. c \in LiveTradesOf(m)'
    BY <1>0, <1>4 DEF LiveTradesOf, LiveTrades
  <2>2. ASSUME NEW n \in Symbols, n # m, pos[n] # 0
        PROVE  \/ LiveTradesOf(n)' # {}
               \/ \E d \in Calls : ex'[d].pc = "create" /\ SymbolAt(d)' = n
    <3>1. LiveTradesOf(n) \subseteq LiveTradesOf(n)'
      BY <1>0, <1>4, <2>2 DEF LiveTradesOf, LiveTrades
    <3>2. ASSUME NEW d \in Calls, ex[d].pc = "create", SymbolAt(d) = n
          PROVE  ex'[d].pc = "create" /\ SymbolAt(d)' = n
      BY <1>m, <1>3, <2>2, <3>2
    <3>3. \/ LiveTradesOf(n) # {}
          \/ \E d \in Calls : ex[d].pc = "create" /\ SymbolAt(d) = n
      BY <2>2 DEF PInv, NoStray
    <3> QED
      BY <3>1, <3>2, <3>3
  <2> QED
    BY <1>0, <2>1, <2>2 DEF NoStray
<1> QED
  BY <1>7, <1>8, <1>9, <1>10 DEF PInv

\* The emergency close empties the position; the trade is marked failed later.
LEMMA EmergencyBooked ==
    ASSUME NothingLost, IInv, PInv, StopStands,
           NEW c \in Calls, EmergencyClose(c), NobodyLost'
    PROVE  PInv'
<1>m. PICK m \in Symbols : m = SymbolAt(c)
  BY ConstantsAssumption
     DEF EmergencyClose, At, IInv, Typed, Claimed, SymbolAt
<1>0. /\ ex[c].pc = "emergency" /\ UNCHANGED trade
      /\ Moved(c, {"failTrade"})
      /\ c \in Trades
      /\ trade[c].status = "live_open" /\ trade[c].symbol = m
      /\ pos' = [pos EXCEPT ![m] = 0]
      /\ pos \in [Symbols -> Nat]
  <2>1. /\ ExecutionTypeOK /\ CallConsistent(c) /\ ex[c].pc = "emergency" /\ c \in Trades
        /\ pos \in [Symbols -> Nat] /\ ex[c].signal \in Signals /\ BookedAs(c)
    BY DEF EmergencyClose, At, IInv, Typed, TypeOK, StateTypeOK, Claimed, Consistent, Trades,
           PInv, AllBooked
  <2>2. Moved(c, {"failTrade"}) /\ UNCHANGED trade
    BY <2>1, GotoMoves DEF EmergencyClose, Pcs, Trading, dbVars
  <2>3. trade[c].status = "live_open" /\ trade[c].symbol = m /\ pos[m] = LotsAt(c)
    BY <1>m, <2>1 DEF CallConsistent, Opened, Stopless, BookedAs
  <2>4. Reduced(pos[m], LotsAt(c)) = 0
    BY <2>1, <2>3 DEF Reduced
  <2> QED
    BY <1>m, <2>1, <2>2, <2>3, <2>4 DEF EmergencyClose, NothingLost, MayFail
<1>1. \A d \in Calls : /\ SymbolAt(d)' = SymbolAt(d) /\ LotsAt(d)' = LotsAt(d)
                       /\ d # c => ex'[d] = ex[d]
  BY <1>0, SameSymbols
<1>2. \A n : LiveTradesOf(n)' = LiveTradesOf(n)
  BY <1>0 DEF LiveTradesOf, LiveTrades
<1>3. pos'[m] = 0 /\ \A n \in Symbols : n # m => pos'[n] = pos[n]
  BY <1>0
<1>4. c \in LiveTradesOf(m)
  BY <1>0 DEF LiveTradesOf, LiveTrades
<1>5. \A d \in Calls : ex[d].pc # "ready" => SymbolAt(d) \in Symbols
  BY ConstantsAssumption DEF IInv, Typed, Claimed, SymbolAt
<1>6. EntersAlone'
  BY <1>0, <1>1, <1>2 DEF PInv, EntersAlone, Entering, Moved
<1>7. Filled'
  <2>1. \A d \in Calls : ex[d].pc = "create" => SymbolAt(d) # m
    BY <1>4 DEF PInv, EntersAlone, Entering
  <2> QED
    BY <1>0, <1>1, <1>3, <1>5, <2>1 DEF PInv, Filled, Moved
<1>8. AllBooked'
  <2>1. BookedAs(c)'
    BY <1>m, <1>0, <1>1, <1>3 DEF PInv, AllBooked, BookedAs, Moved
  <2>2. ASSUME NEW t \in Trades, t # c, trade[t].status = "live_open" PROVE BookedAs(t)'
    <3>1. t \in Calls /\ BookedAs(t) /\ ex[t].pc \in Opened \cup {"done", "dead"}
      BY <2>2 DEF StopStands, Standing, PInv, AllBooked
    <3>2. trade[t].symbol # m
      BY <1>0, <2>2 DEF IInv, OneLiveTradePerSymbol, LiveTrades
    <3>3. SymbolAt(t) # m /\ SymbolAt(t) \in Symbols
      BY <1>5, <2>2, <3>1, <3>2 DEF BookedAs, Opened, Stopless, StopRecorded
    <3> QED
      BY <1>0, <1>1, <1>3, <2>2, <3>1, <3>3 DEF BookedAs
  <2> QED
    BY <1>0, <2>1, <2>2 DEF AllBooked, BookedAs
<1>9. NoStray'
  <2>1. \A d \in Calls : ex[d].pc = "create" => ex'[d].pc = "create" /\ SymbolAt(d)' = SymbolAt(d)
    BY <1>0, <1>1
  <2> QED
    BY <1>2, <1>3, <2>1 DEF PInv, NoStray
<1> QED
  BY <1>6, <1>7, <1>8, <1>9 DEF PInv

\* By then the position is empty.
LEMMA FailureBooked ==
    ASSUME IInv, PInv, StopStands, NEW c \in Calls, FailTrade(c), NobodyLost'
    PROVE  PInv'
<1>m. PICK m \in Symbols : m = SymbolAt(c)
  BY ConstantsAssumption
     DEF FailTrade, At, IInv, Typed, Claimed, SymbolAt
<1>0. /\ ex[c].pc = "failTrade" /\ UNCHANGED pos
      /\ Moved(c, {"failSignal"})
      /\ c \in Trades /\ trade \in [Trades -> TradeRow]
      /\ trade' = [trade EXCEPT ![c].status = "failed"]
      /\ trade[c].symbol = m /\ pos[m] = 0
  <2>1. /\ ExecutionTypeOK /\ CallConsistent(c) /\ ex[c].pc = "failTrade" /\ c \in Trades
        /\ BookedAs(c)
        /\ trade \in [Trades -> TradeRow]
    BY DEF FailTrade, At, IInv, Typed, TypeOK, StateTypeOK, Consistent, Trades, PInv,
           AllBooked
  <2>2. Moved(c, {"failSignal"}) /\ UNCHANGED pos
    BY <2>1, GotoMoves DEF FailTrade, Pcs, Trading, exchangeVars
  <2>3. trade[c].symbol = m /\ pos[m] = 0
    BY <1>m, <2>1 DEF CallConsistent, Opened, Stopless, BookedAs
  <2> QED
    BY <2>1, <2>2, <2>3 DEF FailTrade
<1>1. \A d \in Calls : /\ SymbolAt(d)' = SymbolAt(d) /\ LotsAt(d)' = LotsAt(d)
                       /\ d # c => ex'[d] = ex[d]
  BY <1>0, SameSymbols
<1>2. /\ trade'[c].status = "failed" /\ trade'[c].symbol = m
      /\ \A t \in Trades : t # c => trade'[t] = trade[t]
  BY <1>0 DEF TradeRow
<1>3. /\ \A n : LiveTradesOf(n)' \subseteq LiveTradesOf(n)
      /\ \A n : n # m => LiveTradesOf(n)' = LiveTradesOf(n)
  BY <1>0, <1>2 DEF LiveTradesOf, LiveTrades
<1>4. EntersAlone'
  BY <1>0, <1>1, <1>3 DEF PInv, EntersAlone, Entering, Moved
<1>5. Filled'
  BY <1>0, <1>1 DEF PInv, Filled, Moved
<1>6. AllBooked'
  <2>1. ASSUME NEW t \in Trades, t # c, trade[t].status = "live_open" PROVE BookedAs(t)'
    <3>1. t \in Calls /\ BookedAs(t)
      BY <2>1 DEF StopStands, Standing, PInv, AllBooked
    <3> QED
      BY <1>0, <1>1, <1>2, <2>1, <3>1 DEF BookedAs
  <2> QED
    BY <1>2, <2>1 DEF AllBooked, BookedAs
<1>7. NoStray'
  <2>1. \A d \in Calls : ex[d].pc = "create" => ex'[d].pc = "create" /\ SymbolAt(d)' = SymbolAt(d)
    BY <1>0, <1>1
  <2> QED
    BY <1>0, <1>3, <2>1 DEF PInv, NoStray
<1> QED
  BY <1>4, <1>5, <1>6, <1>7 DEF PInv

\* The steps that move a call and change neither trades nor positions.
LEMMA OtherwiseQuiet ==
    ASSUME IInv, PInv, StopStands, NEW c \in Calls, CallStep(c), NobodyLost',
           ~PlaceEntry(c), ~CreateTrade(c), ~EmergencyClose(c), ~FailTrade(c)
    PROVE  PInv'
<1>0. ExecutionTypeOK
  BY DEF IInv, Typed, TypeOK
<1>1. CASE CheckStep(c)
  <2>1. /\ Moved(c, Checking \cup Refusing \cup {"leverage", "done"})
        /\ UNCHANGED <<trade, pos>>
        /\ ex[c].pc \in Checking \cup Refusing
    BY <1>0, <1>1, ChecksMove, ChecksTouchOnlySignals
  <2>2. ex'[c].pc \in Entering => \/ ex[c].pc \in Entering
                                  \/ LiveTradesOf(SymbolAt(c)) = {}
    BY <1>0, <1>1, ChecksEnter DEF Entering
  <2>3. /\ ex[c].pc \notin {"create", "failTrade"}
        /\ ex'[c].pc \notin {"create", "failTrade"}
    BY <2>1 DEF Moved, Checking, Refusing
  <2> QED
    BY <2>1, <2>2, <2>3, QuietStep
<1>2. CASE SetLeverage(c)
  <2>1. Moved(c, {"entry"}) \/ Moved(c, {"catch"})
    BY <1>0, <1>2, GotoMoves, ThrowMoves DEF SetLeverage, Pcs, Trading
  <2>2. UNCHANGED <<trade, pos>> /\ ex[c].pc = "leverage"
    BY <1>2 DEF SetLeverage, stateVars, At
  <2> QED
    BY <2>1, <2>2, QuietStep DEF Moved, Entering
<1>3. CASE OpenedStep(c)
  <2>1. /\ Moved(c, Opened \cup {"failSignal", "catch", "done"})
        /\ ex[c].pc \in Opened \cup {"failSignal"}
    BY <1>0, <1>3, OpenedMoves
  <2>2. /\ UNCHANGED <<trade, pos>>
        /\ ex[c].pc # "failTrade"
        /\ ex'[c].pc # "failTrade"
    <3>1. ASSUME NEW next, NEW otherwise, NEW kind, NEW lost,
                 next # "failTrade", otherwise # "failTrade",
                 PlaceConditional(c, kind, lost, next, otherwise)
          PROVE  UNCHANGED <<trade, pos>> /\ ex'[c].pc # "failTrade"
      BY <1>0, <3>1 DEF PlaceConditional, dbVars, Goto, ExecutionTypeOK
    <3>2. ASSUME NEW next, NEW kind, next # "failTrade", RecordOrder(c, kind, next)
          PROVE  UNCHANGED <<trade, pos>> /\ ex'[c].pc # "failTrade"
      BY <1>0, <3>2 DEF RecordOrder, exchangeVars, Goto, ExecutionTypeOK
    <3>3. CASE PlaceStop1(c) \/ PlaceStop2(c) \/ PlaceStop3(c) \/ PlaceTp1(c) \/ PlaceTp2(c)
      BY <3>3, <3>1 DEF PlaceStop1, PlaceStop2, PlaceStop3, PlaceTp1, PlaceTp2, At
    <3>4. CASE RecordStop(c) \/ RecordTp1(c) \/ RecordTp2(c)
      BY <3>4, <3>2 DEF RecordStop, RecordTp1, RecordTp2, At
    <3>5. CASE FetchMarkForStop(c) \/ FailSignal(c) \/ MarkExecuted(c)
      BY <1>0, <3>5 DEF FetchMarkForStop, FailSignal, MarkExecuted, At, Goto, Throw,
                        stateVars, exchangeVars, ExecutionTypeOK
    <3> QED
      BY <1>3, <3>3, <3>4, <3>5 DEF OpenedStep
  <2>3. /\ ex[c].pc # "create" /\ ex'[c].pc # "create"
        /\ ex'[c].pc \notin Entering
    BY <2>1 DEF Moved, Opened, Stopless, StopRecorded, Entering
  <2> QED
    BY <2>1, <2>2, <2>3, QuietStep
<1> QED
  BY <1>1, <1>2, <1>3 DEF CallStep, TradeStep, OpenedStep

\* A claim or a request of the operator moves no position.
LEMMA RequestBooked ==
    ASSUME NothingLost, IInv, PInv, StopStands,
           \/ \E c \in Calls, s \in Signals : Claim(c, s)
           \/ (ControlStep \/ ExpireStaleSignals) /\ UNCHANGED ex
    PROVE  PInv'
<1>0. StateTypeOK /\ ControlTypeOK /\ CallTyped
  BY DEF IInv, Typed, TypeOK, CallTyped
<1>1. ASSUME NEW c \in Calls, NEW s \in Signals, Claim(c, s) PROVE PInv'
  <2>1. /\ ex[c].pc = "ready" /\ ex'[c].pc = "load" /\ ex'[c].to = ex[c].to
        /\ \A d \in Calls \ {c} : ex'[d] = ex[d]
        /\ sig' = [sig EXCEPT ![s] = "approved"]
        /\ UNCHANGED <<trade, pos>>
    BY <1>0, <1>1, ClaimMoves
  <2>2. \A d \in Calls : d # c => SymbolAt(d)' = SymbolAt(d) /\ LotsAt(d)' = LotsAt(d)
    BY <2>1 DEF SymbolAt, LotsAt
  <2>3. \A m : LiveTradesOf(m)' = LiveTradesOf(m)
    BY <2>1 DEF LiveTradesOf, LiveTrades
  <2>4. NobodyLost'
    BY <1>0, <1>1, ClaimLosesNothing DEF PInv
  <2>5. EntersAlone' /\ Filled'
    BY <2>1, <2>2, <2>3 DEF PInv, EntersAlone, Filled, Entering
  <2>6. AllBooked'
    <3>1. ASSUME NEW t \in Trades, trade[t].status = "live_open" PROVE BookedAs(t)'
      <4>1. t \in Calls /\ BookedAs(t) /\ ex[t].pc \in Opened \cup {"done", "dead"}
        BY <3>1 DEF StopStands, Standing, PInv, AllBooked
      <4>2. t # c
        BY <2>1, <4>1 DEF Opened, Stopless, StopRecorded
      <4> QED
        BY <2>1, <2>2, <4>1, <4>2 DEF BookedAs
    <3> QED
      BY <2>1, <3>1 DEF AllBooked, BookedAs
  <2>7. NoStray'
    <3>1. \A d \in Calls : ex[d].pc = "create" =>
                             ex'[d].pc = "create" /\ SymbolAt(d)' = SymbolAt(d)
      BY <2>1, <2>2
    <3> QED
      BY <2>1, <2>3, <3>1 DEF PInv, NoStray
  <2> QED
    BY <2>4, <2>5, <2>6, <2>7 DEF PInv
<1>2. CASE (ControlStep \/ ExpireStaleSignals) /\ UNCHANGED ex
  <2>1. UNCHANGED <<ex, trade, pos>>
    BY <1>0, <1>2, ControlSteps DEF ControlOnly
  <2>2. NobodyLost'
    BY <1>0, <1>2, RequestsLoseNothing DEF PInv, NothingLost
  <2> QED
    BY <2>1, <2>2 DEF PInv, EntersAlone, Filled, AllBooked, BookedAs, NoStray,
                      LiveTradesOf, LiveTrades, SymbolAt, LotsAt
<1> QED
  BY <1>1, <1>2

LEMMA ProtectionStep ==
    ASSUME NothingLost, IInv, PInv, StopStands, OneEntryPerSymbol, [Next]_vars
    PROVE  PInv'
<1>1. ASSUME NEW c \in Calls, CallStep(c) PROVE PInv'
  <2>1. NobodyLost'
    BY <1>1, CallLosesNothing DEF IInv, Typed, TypeOK, CallTyped, PInv
  <2> QED
    BY <1>1, <2>1, EntryBooked, CreationBooked, EmergencyBooked, FailureBooked,
       OtherwiseQuiet
<1>2. ~Restart
  BY DEF Restart, NothingLost
<1>3. CASE UNCHANGED vars
  BY <1>3 DEF vars, stateVars, PInv, NobodyLost, EntersAlone, Filled, AllBooked,
              BookedAs, NoStray, LiveTradesOf, LiveTrades, SymbolAt, LotsAt
<1> QED
  BY <1>1, <1>2, <1>3, RequestBooked DEF Next

LEMMA ProtectionStart == Init => PInv
<1> SUFFICES ASSUME Init PROVE PInv
  OBVIOUS
<1> USE DEF Init, StateInit, AccountInit, ExecutionInit, NoTrade
<1>1. NobodyLost /\ Filled /\ EntersAlone
  BY DEF NobodyLost, Filled, EntersAlone, Entering
<1>2. AllBooked /\ NoStray
  BY DEF AllBooked, BookedAs, NoStray
<1> QED
  BY <1>1, <1>2 DEF PInv

LEMMA ProtectionHolds ==
    ASSUME NothingLost
    PROVE  Spec /\ []OneEntryPerSymbol => [](IInv /\ StopStands /\ PInv)
<1>1. IInv /\ PInv /\ StopStands /\ OneEntryPerSymbol /\ [Next]_vars => PInv'
  BY ProtectionStep
<1> QED
  BY <1>1, ProtectionStart, Invariance, StopsStand, PTL DEF Spec

-----------------------------------------------------------------------------
\* A position has its stop whenever no call is still placing it, for any number
\* of calls, signals and symbols and whatever else fails, provided no two calls
\* are between the duplicate guard and trade.create of one symbol.
THEOREM Protected ==
    ASSUME NothingLost
    PROVE  Spec /\ []OneEntryPerSymbol => []NeverUnprotected
<1>1. IInv /\ StopStands /\ PInv => NeverUnprotected
  <2> SUFFICES ASSUME IInv, StopStands, PInv, NEW m \in Symbols, pos[m] # 0,
                      \A c \in Calls : ex[c].pc \in Guarding => SymbolAt(c) # m
               PROVE  Covered(m)
    BY DEF NeverUnprotected
  <2>1. PICK t \in Trades : trade[t].status = "live_open" /\ trade[t].symbol = m
    BY DEF PInv, NoStray, Guarding, LiveTradesOf, LiveTrades
  <2>2. /\ t \in Calls /\ SymbolAt(t) = m /\ pos[m] = trade[t].qty
        /\ ex[t].pc \in Opened \cup {"done"} /\ ex[t].pc # "failTrade"
    BY <2>1 DEF StopStands, Standing, PInv, NobodyLost, AllBooked, BookedAs
  <2>3. <<t, "sl">> \in resting
    BY <2>1, <2>2 DEF StopStands, Standing, Opened, Stopless, StopRecorded,
                       Guarding
  <2>4. OrderQty(t, "sl") = pos[m] /\ pos[m] \in Nat
    BY <2>2 DEF OrderQty, IInv, Typed, TypeOK, StateTypeOK
  <2> QED
    BY <2>1, <2>3, <2>4 DEF Covered, StopKinds
<1> QED
  BY <1>1, ProtectionHolds, PTL

\* Under the same conditions the database agrees with the exchange about every
\* position no call is half-way through.
THEOREM Booked ==
    ASSUME NothingLost
    PROVE  Spec /\ []OneEntryPerSymbol => []PositionIsBooked
<1>1. IInv /\ StopStands /\ PInv => PositionIsBooked
  <2> SUFFICES ASSUME IInv, StopStands, PInv, NEW m \in Symbols,
                      \A c \in Calls : ex[c].pc \in Guarding \cup {"failTrade"}
                                         => SymbolAt(c) # m
               PROVE  \/ LiveTradesOf(m) = {} /\ pos[m] = 0
                      \/ \E t \in LiveTradesOf(m) : pos[m] = trade[t].qty
    BY DEF PositionIsBooked
  <2>1. ASSUME NEW t \in LiveTradesOf(m) PROVE pos[m] = trade[t].qty
    BY <2>1 DEF LiveTradesOf, LiveTrades, StopStands, Standing, PInv, AllBooked, BookedAs
  <2> QED
    BY <2>1 DEF PInv, NoStray, Guarding
<1> QED
  BY <1>1, ProtectionHolds, PTL

=============================================================================
