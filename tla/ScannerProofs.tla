--------------------------- MODULE ScannerProofs ----------------------------
(***************************************************************************)
(* Scanner implements ScanLock: whatever scans, calls and the operator do, *)
(* lock and flag change only as ScanLock lets them.  So the scans of the   *)
(* composed system inherit the theorems about the lock.  And whatever they *)
(* do to the rows together, every variable keeps its type.                 *)
(***************************************************************************)
EXTENDS Scanner, ScanLockProofs, ExecutionProofs, FiniteSetTheorems

\* Every step of the composition is a step of the lock protocol or leaves its
\* variables alone.
LEMMA StepsImplementLock == Next => LockNext \/ UNCHANGED lockVars
<1> SUFFICES ASSUME Next PROVE LockNext \/ UNCHANGED lockVars
  OBVIOUS
<1>1. CASE \E a \in Scans : Locking(a)
  BY <1>1 DEF Locking, LockNext
<1>2. CASE \E a \in Scans : Scanning(a) \/ Creating(a)
  BY <1>2 DEF Scanning, Creating
<1>3. CASE \E s \in Signals : Launch(s)
  BY <1>3 DEF Launch
<1>4. CASE (\E c \in Calls : Call(c)) \/ Operator
  BY <1>4 DEF Call, Operator
<1>5. ASSUME NEW p \in Processes, Resume(p) \/ Clearing(p) \/ Restart(p)
      PROVE  LockNext
  BY <1>5 DEF Resume, Clearing, Restart, LockNext
<1>6. CASE Clock
  BY <1>6 DEF Clock, LockNext
<1> QED
  BY <1>1, <1>2, <1>3, <1>4, <1>5, <1>6 DEF Next

\* The composed system implements the lock protocol: a scan's body lies between
\* MarkStarted and FinishScan, and resuming is what clears the lock.
THEOREM LockImplemented == Spec => LockSpec
<1>1. Init => LockInit
  BY DEF Init
<1>2. [Next]_vars => [LockNext]_lockVars
  BY StepsImplementLock DEF vars
<1> QED
  BY <1>1, <1>2, PTL DEF Spec, LockSpec

\* Two scans work through the symbols at the same time only after one of them
\* has lost its lock: the checks before signal.create rest on this.
THEOREM ScansOverlapOnlyAfterLoss == Spec => []OverlapNeedsLoss
BY LockImplemented, OverlapOnlyAfterLoss, PTL

-----------------------------------------------------------------------------
\* What the steps outside the lock protocol keep.
RowsTyped == CallTyped /\ ControlTypeOK /\ ScannerTypeOK

\* A scan's own steps: they write where its workers are, and new signals.
LEMMA ScanSteps ==
    ASSUME RowsTyped, NEW a \in Scans, Locking(a) \/ Scanning(a) \/ Creating(a)
    PROVE  RowsTyped'
<1> USE DEF RowsTyped, CallTyped, ScannerTypeOK
<1>1. ASSUME UNCHANGED <<stateVars, ex, controlVars>>, ScannerTypeOK'
      PROVE  RowsTyped'
  BY <1>1 DEF stateVars, controlVars, StateTypeOK, ExecutionTypeOK, Claimed, ControlTypeOK
<1>2. CASE Locking(a)
  BY <1>1, <1>2 DEF Locking, scannerVars
<1>3. ASSUME NEW m \in Symbols, NEW pc \in WorkPcs, WorkGoto(a, m, pc)
      PROVE  work' \in [Scans -> [Symbols -> WorkPcs]]
  BY <1>3 DEF WorkGoto
<1>4. CASE Scanning(a)
  <2>1. CASE ReadSettings(a)
    BY <1>1, <1>4, <2>1 DEF Scanning, ReadSettings, WorkPcs
  <2>2. ASSUME NEW m \in Symbols,
               \/ StartSymbol(a, m) \/ Evaluate(a, m) \/ CheckTrade(a, m)
               \/ CheckCooldown(a, m) \/ CheckSignal(a, m)
        PROVE  RowsTyped'
    <3>1. work' \in [Scans -> [Symbols -> WorkPcs]]
      BY <1>3, <2>2 DEF StartSymbol, Evaluate, CheckTrade, CheckCooldown, CheckSignal, WorkPcs
    <3>2. aborted' \in SUBSET Scans /\ UNCHANGED <<unborn, recent, launched>>
      BY <2>2 DEF StartSymbol, Evaluate, CheckTrade, CheckCooldown, CheckSignal
    <3>3. side' \in [Scans -> [Symbols -> Directions]]
      BY <2>2 DEF StartSymbol, Evaluate, CheckTrade, CheckCooldown, CheckSignal
    <3> QED
      BY <1>1, <1>4, <3>1, <3>2, <3>3 DEF Scanning
  <2> QED
    BY <1>4, <2>1, <2>2 DEF Scanning, SymbolStep
<1>5. CASE Creating(a)
  <2>1. PICK m \in Symbols : CreateSignal(a, m)
    BY <1>5 DEF Creating
  <2>2. PICK s \in unborn :
          /\ sig' = [sig EXCEPT ![s] = "active"]
          /\ unborn' = unborn \ {s}
          /\ recent' = recent \cup {s}
          /\ launched' = IF AutoExecute THEN launched \cup {s} ELSE launched
    BY <2>1 DEF CreateSignal
  <2>3. s \in Signals
    OBVIOUS
  <2>4. /\ work' \in [Scans -> [Symbols -> WorkPcs]]
        /\ aborted' = aborted /\ side' = side
    BY <1>3, <2>1 DEF CreateSignal, WorkPcs
  <2>5. ScannerTypeOK'
    BY <2>2, <2>3, <2>4
  <2>6. StateTypeOK'
    BY <1>5, <2>2, <2>3 DEF Creating, StateTypeOK, SignalStatus, exchangeVars
  <2> QED
    BY <1>5, <2>5, <2>6 DEF Creating, controlVars, ExecutionTypeOK, Claimed, ControlTypeOK
<1> QED
  BY <1>2, <1>4, <1>5

\* The calls: launched by a scan or asked for, and their further steps.
LEMMA CallSteps ==
    ASSUME RowsTyped, \/ \E s \in Signals : Launch(s)
                      \/ \E c \in Calls : Call(c)
    PROVE  RowsTyped'
<1>1. ASSUME NEW s \in Signals, Launch(s) PROVE RowsTyped'
  <2>1. ControlTypeOK' /\ ScannerTypeOK'
    BY <1>1 DEF Launch, RowsTyped, controlVars, ControlTypeOK, ScannerTypeOK
  <2>2. CASE UNCHANGED <<stateVars, ex>>
    BY <2>1, <2>2 DEF stateVars, RowsTyped, CallTyped, StateTypeOK, ExecutionTypeOK, Claimed
  <2>3. ASSUME NEW c \in Calls, Claim(c, s) PROVE RowsTyped'
    BY <2>1, <2>3, ClaimMoves DEF RowsTyped
  <2> QED
    BY <1>1, <2>2, <2>3 DEF Launch
<1>2. ASSUME NEW c \in Calls, Call(c) PROVE RowsTyped'
  <2>1. ControlTypeOK' /\ ScannerTypeOK'
    BY <1>2 DEF Call, RowsTyped, controlVars, scannerVars, ControlTypeOK, ScannerTypeOK
  <2>2. CallTyped'
    BY <1>2, CallStepTyped, ClaimMoves DEF Call, RowsTyped
  <2> QED
    BY <2>1, <2>2 DEF RowsTyped
<1> QED
  BY <1>1, <1>2

\* The operator, the clock and a crash.
LEMMA OtherSteps ==
    ASSUME RowsTyped, \/ Operator
                      \/ \E p \in Processes : Resume(p) \/ Clearing(p) \/ Restart(p)
                      \/ Clock
                      \/ UNCHANGED vars
    PROVE  RowsTyped'
<1>0. StateTypeOK /\ ExecutionTypeOK /\ Claimed /\ ControlTypeOK /\ ScannerTypeOK
  BY DEF RowsTyped, CallTyped
<1>1. ASSUME ControlStep, UNCHANGED <<ex, scannerVars>> PROVE RowsTyped'
  <2>1. ControlOnly /\ ControlTypeOK'
    BY <1>0, <1>1, ControlSteps
  <2> QED
    BY <1>0, <1>1, <2>1 DEF ControlOnly, scannerVars, RowsTyped, CallTyped, StateTypeOK,
                            ExecutionTypeOK, Claimed, ScannerTypeOK
<1>2. CASE Operator
  BY <1>1, <1>2 DEF Operator, ControlStep
<1>3. ASSUME NEW p \in Processes, Resume(p) PROVE RowsTyped'
  BY <1>1, <1>3 DEF Resume, ControlStep
<1>4. ASSUME UNCHANGED <<stateVars, ex, controlVars, work, side, aborted, unborn, launched>>,
             recent' \subseteq recent
      PROVE  RowsTyped'
  BY <1>0, <1>4 DEF stateVars, controlVars, RowsTyped, CallTyped, StateTypeOK,
                    ExecutionTypeOK, Claimed, ControlTypeOK, ScannerTypeOK
<1>5. ASSUME NEW p \in Processes, Clearing(p) PROVE RowsTyped'
  BY <1>4, <1>5 DEF Clearing, scannerVars
<1>6. CASE Clock \/ UNCHANGED vars
  BY <1>4, <1>6 DEF Clock, vars, scannerVars
<1>7. ASSUME NEW p \in Processes, Restart(p) PROVE RowsTyped'
  <2>1. /\ UNCHANGED stateVars
        /\ ex' = [c \in Calls |-> IF InFlight(c) THEN [ex[c] EXCEPT !.pc = "dead"]
                                                 ELSE ex[c]]
        /\ stopping' = {} /\ patch' = NoPatch /\ launched' = {}
        /\ UNCHANGED <<work, side, aborted, unborn, recent>>
    BY <1>7 DEF Restart, CallsDie
  <2>2. "dead" \in Pcs
    BY DEF Pcs
  <2>3. ExecutionTypeOK'
    BY <1>0, <2>1, <2>2 DEF ExecutionTypeOK
  <2>4. Claimed'
    BY <1>0, <2>1 DEF Claimed, ExecutionTypeOK, InFlight
  <2> QED
    BY <1>0, <2>1, <2>3, <2>4 DEF stateVars, RowsTyped, CallTyped, StateTypeOK,
                                  ControlTypeOK, ScannerTypeOK
<1> QED
  BY <1>2, <1>3, <1>5, <1>6, <1>7

LEMMA RowsInitially == Init => RowsTyped
<1> SUFFICES ASSUME Init PROVE RowsTyped
  OBVIOUS
<1> USE DEF Init, AccountInit
<1>1. StateTypeOK
  BY DEF StateTypeOK, Settings, SignalStatus, TradeRow, TradeStatus, NoTrade, RowStatus
<1>2. ExecutionTypeOK /\ Claimed /\ ControlTypeOK
  BY DEF ExecutionInit, ControlInit, ExecutionTypeOK, Pcs, SignalStatus, Claimed,
         ControlTypeOK
<1>3. ScannerTypeOK
  BY DEF ScannerInit, ScannerTypeOK, WorkPcs, Directions
<1> QED
  BY <1>1, <1>2, <1>3 DEF RowsTyped, CallTyped

\* Whatever scans, calls, the operator and crashes do to the rows together, every
\* variable keeps its type: a new signal gets a status of the enum, say.
THEOREM ScannerTypeCorrect == Spec => []TypeOK
<1>1. RowsTyped /\ [Next]_vars => RowsTyped'
  BY ScanSteps, CallSteps, OtherSteps DEF Next
<1>2. RowsTyped /\ LockInv => TypeOK
  BY DEF RowsTyped, CallTyped, LockInv, TypeOK
<1> QED
  BY <1>1, <1>2, RowsInitially, LockImplemented, LockInvariance, PTL DEF Spec

-----------------------------------------------------------------------------
(* One signal of a symbol and direction in flight at a time.  CheckSignal   *)
(* and CreateSignal are two requests of one scan; only another scan could   *)
(* create a signal between them, and scans overlap only after a lost lock.  *)
(* What remains is a signal that comes back: a call that overwrites its     *)
(* signal's status with 'active' after somebody has withdrawn the signal.   *)

\* No signal that has left the queue comes back to it.
NoneRevived == \A s \in Signals \ unborn : sig[s] \notin Queued => sig'[s] \notin Queued

\* A scan that has not begun has not touched a symbol.
Untouched ==
    \A a \in Scans :
        scan[a] \in {"idle", "throttle", "lock", "flag", "begin"} => AllWork(a, "unread")

\* A signal that was not created is not in flight.
UnbornAbsent == \A s \in unborn : sig[s] = "deleted"

\* A scan is about to create a signal of this symbol and direction.
CreatesAt(a, m, d) == WorkAt(a, m, "create") /\ side[a][m] = d

\* While no scan has lost its lock, a symbol has at most one signal of a direction
\* in flight, and none when a scan is about to create one.
Alone ==
    lost = {} =>
        \A m \in Symbols, d \in Directions :
            /\ \A s, t \in InFlightSignals(m, d) : s = t
            /\ \A a \in Scans : CreatesAt(a, m, d) => InFlightSignals(m, d) = {}

AloneInv == RowsTyped /\ LockInv /\ Untouched /\ UnbornAbsent /\ Alone

-----------------------------------------------------------------------------
\* The row of a signal is created by signal.create alone.
LEMMA UnbornStays ==
    ASSUME RowsTyped, UnbornAbsent, [Next]_vars
    PROVE  UnbornAbsent'
<1>0. /\ UnbornAbsent
      /\ sig \in [Signals -> SignalStatus] /\ unborn \subseteq Signals
  BY DEF RowsTyped, CallTyped, StateTypeOK, ScannerTypeOK
<1>1. ASSUME NEW s \in unborn, \A a \in Scans : ~Creating(a)
      PROVE  sig'[s] = "deleted"
  <2>0. sig[s] = "deleted" /\ s \in Signals
    BY <1>0 DEF UnbornAbsent
  <2>1. CASE sig' = sig
    BY <2>0, <2>1
  <2>2. ASSUME NEW c \in Calls, NEW t \in Signals, Claim(c, t) PROVE sig'[s] = "deleted"
    BY <1>0, <2>0, <2>2 DEF Claim
  <2>3. ASSUME NEW c \in Calls, CallStep(c) PROVE sig'[s] = "deleted"
    <3>1. \/ sig' = sig
          \/ \E t, status : sig' = SignalsWith(t, status)
      BY <2>3
         DEF CallStep, CheckStep, TradeStep, LoadSignal, CheckExpiry, CheckSettings,
             CheckExisting, CheckBalance, CheckMarkPrice, RaceGuard, PauseCheck, Settle,
             CatchRead, CatchWrite, SetLeverage, PlaceEntry, CreateTrade, PlaceStop1,
             FetchMarkForStop, PlaceStop2, PlaceStop3, EmergencyClose, FailTrade,
             FailSignal, RecordStop, PlaceTp1, RecordTp1, PlaceTp2, RecordTp2,
             MarkExecuted, PlaceConditional, RecordOrder, stateVars, dbVars
    <3> QED
      BY <1>0, <2>0, <3>1 DEF SignalsWith
  <2>4. CASE RequestStep
    <3>1. CASE CleanupSignals
      BY <1>0, <2>0, <3>1 DEF CleanupSignals, CleanupStatuses, SignalsMoved
    <3>2. CASE StopCancels
      BY <1>0, <2>0, <3>2 DEF StopCancels, Queued, SignalsMoved
    <3>3. ASSUME NEW t \in Signals, SkipSignal(t) \/ CancelSignal(t)
          PROVE  sig'[s] = "deleted"
      BY <1>0, <2>0, <3>3 DEF SkipSignal, CancelSignal, SignalsWith
    <3>4. ASSUME ~CleanupSignals, ~StopCancels,
                 \A t \in Signals : ~SkipSignal(t) /\ ~CancelSignal(t)
          PROVE  sig' = sig
      BY <2>4, <3>4 DEF RequestStep, SignalAges, BeginStop, StopPauses, PauseBot,
                        ValidatePatch, WritePatch, stateVars
    <3> QED
      BY <2>1, <3>1, <3>2, <3>3, <3>4
  <2>5. CASE \/ \E a \in Scans : Locking(a) \/ Scanning(a)
             \/ \E p \in Processes : Resume(p) \/ Clearing(p) \/ Restart(p)
             \/ Clock \/ UNCHANGED vars
    <3>1. sig' = sig
      BY <2>5 DEF Locking, Scanning, Resume, ResumeBot, Clearing, Restart, Clock,
                  stateVars, vars
    <3> QED
      BY <2>1, <3>1
  <2>6. CASE Operator
    BY <2>4, <2>6 DEF Operator
  <2>7. CASE (\E t \in Signals : Launch(t)) \/ (\E c \in Calls : Call(c))
    <3>1. \/ sig' = sig
          \/ \E c \in Calls, t \in Signals : Claim(c, t)
          \/ \E c \in Calls : CallStep(c)
      BY <2>7 DEF Launch, Call, stateVars
    <3> QED
      BY <2>1, <2>2, <2>3, <3>1
  <2> QED
    BY <1>1, <2>5, <2>6, <2>7 DEF Next
<1>2. ASSUME \A a \in Scans : ~Creating(a) PROVE unborn' = unborn
  BY <1>2
     DEF Next, Locking, Scanning, SymbolStep, ReadSettings, StartSymbol, Evaluate,
         CheckTrade, CheckCooldown, CheckSignal, Launch, Call, Operator, Resume, Clearing,
         Clock, Restart, scannerVars, vars
<1>3. ASSUME NEW a \in Scans, Creating(a) PROVE UnbornAbsent'
  <2>1. PICK s \in unborn : sig' = [sig EXCEPT ![s] = "active"] /\ unborn' = unborn \ {s}
    BY <1>3 DEF Creating, CreateSignal
  <2> QED
    BY <1>0, <2>1 DEF UnbornAbsent
<1> QED
  BY <1>1, <1>2, <1>3 DEF UnbornAbsent

\* A lost lock is never forgotten.
LEMMA LossStays ==
    ASSUME LockNext \/ UNCHANGED lockVars
    PROVE  lost \subseteq lost'
BY DEF LockNext, CallScan, EnterStep, CheckThrottle, AcquireLock, CheckFlag, MarkStarted,
       FinishScan, ReleaseLock, BeginClear, ClearStep, ClearLock, ClearFlag, LoseLock,
       ScannerDies, ClockStep, LockExpires, IntervalPasses, lockVars

\* Only MarkStarted brings a scan to its body, and nothing brings it back before.
LEMMA BodyBegins ==
    ASSUME LockTypeOK, LockNext \/ UNCHANGED lockVars, NEW a \in Scans
    PROVE  /\ scan'[a] = "body" => scan[a] \in {"begin", "body"}
           /\ scan'[a] \in {"throttle", "lock", "flag", "begin", "idle"} =>
                scan[a] \in {"throttle", "lock", "flag", "begin", "idle"}
<1> USE DEF LockTypeOK, ScanAt, ScanGoto
<1>1. ASSUME NEW b \in Scans, CallScan(b) \/ EnterStep(b) \/ FinishScan(b)
      PROVE  /\ scan'[a] = "body" => scan[a] \in {"begin", "body"}
             /\ scan'[a] \in {"throttle", "lock", "flag", "begin", "idle"} =>
                  scan[a] \in {"throttle", "lock", "flag", "begin", "idle"}
  BY <1>1 DEF CallScan, EnterStep, CheckThrottle, AcquireLock, CheckFlag, MarkStarted,
              FinishScan, ReleaseLock
<1>2. ASSUME NEW p \in Processes, ScannerDies(p)
      PROVE  /\ scan'[a] = "body" => scan[a] \in {"begin", "body"}
             /\ scan'[a] \in {"throttle", "lock", "flag", "begin", "idle"} =>
                  scan[a] \in {"throttle", "lock", "flag", "begin", "idle"}
  BY <1>2 DEF ScannerDies
<1>3. CASE scan' = scan
  BY <1>3
<1>4. ASSUME \/ \E p \in Processes : BeginClear(p) \/ ClearStep(p)
             \/ ClockStep \/ UNCHANGED lockVars
      PROVE  scan' = scan
  BY <1>4 DEF BeginClear, ClearStep, ClearLock, ClearFlag, ClockStep, LockExpires,
              IntervalPasses, lockVars
<1> QED
  BY <1>1, <1>2, <1>3, <1>4 DEF LockNext

\* Two scans at their bodies are one, unless one of them has lost its lock.
LEMMA OneBody ==
    ASSUME LockInv, lost = {}, NEW a \in Scans, NEW b \in Scans,
           scan[a] = "body", scan[b] = "body"
    PROVE  a = b
BY DEF LockInv, HoldsUnlessLost, Locked, InScan

\* Symbols, signals and scans a step leaves alone.
LEMMA AloneStays ==
    ASSUME RowsTyped, LockInv, Untouched, Alone, NoneRevived, UNCHANGED unborn,
           LockNext \/ UNCHANGED lockVars,
           \A a \in Scans, m \in Symbols :
               /\ scan[a] # "body" => work'[a][m] = work[a][m]
               /\ work'[a][m] = "create" =>
                    \/ work[a][m] = "create" /\ side'[a][m] = side[a][m]
                    \/ InFlightSignals(m, side'[a][m]) = {}
    PROVE  Untouched' /\ Alone'
<1>1. \A m \in Symbols, d \in Directions :
        InFlightSignals(m, d)' \subseteq InFlightSignals(m, d)
  BY DEF InFlightSignals, NoneRevived
<1>2. lost \subseteq lost' /\ LockTypeOK
  BY LossStays DEF LockInv
<1>3. Untouched'
  BY <1>2, BodyBegins DEF Untouched, AllWork
<1>4. ASSUME lost' = {}, NEW m \in Symbols, NEW d \in Directions
      PROVE  /\ \A s, t \in InFlightSignals(m, d)' : s = t
             /\ \A a \in Scans : CreatesAt(a, m, d)' => InFlightSignals(m, d)' = {}
  <2>1. lost = {}
    BY <1>2, <1>4
  <2>2. ASSUME NEW a \in Scans, CreatesAt(a, m, d)'
        PROVE  InFlightSignals(m, d) = {}
    <3>1. scan'[a] = "body" /\ work'[a][m] = "create" /\ side'[a][m] = d
      BY <2>2 DEF CreatesAt, WorkAt, ScanAt
    <3>2. scan[a] \in {"begin", "body"}
      BY <1>2, <3>1, BodyBegins
    <3>3. CASE scan[a] = "begin"
      BY <3>1, <3>3 DEF Untouched, AllWork
    <3>4. CASE scan[a] = "body"
      BY <2>1, <3>1, <3>4 DEF Alone, CreatesAt, WorkAt, ScanAt
    <3> QED
      BY <3>2, <3>3, <3>4
  <2> QED
    BY <1>1, <2>1, <2>2 DEF Alone
<1> QED
  BY <1>3, <1>4 DEF Alone

\* signal.create, the one step that adds a signal: the symbol had none of its
\* direction.
LEMMA CreatingAlone ==
    ASSUME AloneInv, NEW a \in Scans, Creating(a)
    PROVE  Untouched' /\ UnbornAbsent' /\ Alone'
<1>1. PICK m \in Symbols : CreateSignal(a, m)
  BY DEF Creating
<1>2. PICK s \in unborn :
        /\ SymbolOf[s] = m /\ DirectionOf[s] = side[a][m]
        /\ sig' = [sig EXCEPT ![s] = "active"]
        /\ unborn' = unborn \ {s}
  BY <1>1 DEF CreateSignal
<1>3. /\ sig \in [Signals -> SignalStatus] /\ unborn \subseteq Signals
      /\ work \in [Scans -> [Symbols -> WorkPcs]]
      /\ UNCHANGED lockVars
      /\ scan[a] = "body" /\ work[a][m] = "create"
      /\ work' = [work EXCEPT ![a][m] = "done"] /\ side' = side
  BY <1>1 DEF AloneInv, RowsTyped, CallTyped, StateTypeOK, ScannerTypeOK, Creating,
              CreateSignal, WorkAt, WorkGoto, ScanAt
<1>4. scan' = scan /\ lost' = lost
  BY <1>3 DEF lockVars
<1>5. Untouched'
  BY <1>3, <1>4 DEF AloneInv, Untouched, AllWork
<1>6. UnbornAbsent'
  BY UnbornStays DEF AloneInv, Next
<1>7. ASSUME lost' = {}, NEW n \in Symbols, NEW d \in Directions
      PROVE  /\ \A t, u \in InFlightSignals(n, d)' : t = u
             /\ \A b \in Scans : CreatesAt(b, n, d)' => InFlightSignals(n, d)' = {}
  <2>1. /\ \A t, u \in InFlightSignals(n, d) : t = u
        /\ \A b \in Scans : CreatesAt(b, n, d) => InFlightSignals(n, d) = {}
    BY <1>4, <1>7 DEF AloneInv, Alone
  <2>2. CASE n = m /\ d = side[a][m]
    <3>1. InFlightSignals(n, d) = {}
      BY <1>3, <2>1, <2>2 DEF CreatesAt, WorkAt, ScanAt
    <3>2. InFlightSignals(n, d)' = {s}
      BY <1>2, <1>3, <2>2, <3>1 DEF InFlightSignals, Queued
    <3>3. \A b \in Scans : ~CreatesAt(b, n, d)'
      <4> SUFFICES ASSUME NEW b \in Scans, CreatesAt(b, n, d)' PROVE FALSE
        OBVIOUS
      <4>1. scan[b] = "body" /\ work'[b][n] = "create"
        BY <1>4 DEF CreatesAt, WorkAt, ScanAt
      <4>2. b = a
        BY <1>3, <1>4, <1>7, <4>1, OneBody DEF AloneInv
      <4> QED
        BY <1>3, <2>2, <4>1, <4>2
    <3> QED
      BY <3>2, <3>3
  <2>3. CASE ~(n = m /\ d = side[a][m])
    <3>1. InFlightSignals(n, d)' = InFlightSignals(n, d)
      BY <1>2, <1>3, <2>3 DEF InFlightSignals, Queued
    <3>2. \A b \in Scans : CreatesAt(b, n, d)' => CreatesAt(b, n, d)
      BY <1>3, <1>4 DEF CreatesAt, WorkAt, ScanAt
    <3> QED
      BY <2>1, <3>1, <3>2
  <2> QED
    BY <2>2, <2>3
<1> QED
  BY <1>5, <1>6, <1>7 DEF Alone

\* The other steps create no signal, and a scan comes to signal.create only if it
\* has found none in flight.
LEMMA OthersAlone ==
    ASSUME AloneInv, NoneRevived, [Next]_vars, \A a \in Scans : ~Creating(a)
    PROVE  Untouched' /\ UnbornAbsent' /\ Alone'
<1>0. /\ RowsTyped /\ LockInv /\ Untouched /\ UnbornAbsent /\ Alone
      /\ work \in [Scans -> [Symbols -> WorkPcs]]
      /\ side \in [Scans -> [Symbols -> Directions]]
      /\ sig \in [Signals -> SignalStatus] /\ unborn \subseteq Signals
      /\ ExecutionTypeOK /\ Claimed /\ StateTypeOK /\ ControlTypeOK
  BY DEF AloneInv, RowsTyped, ScannerTypeOK, CallTyped, StateTypeOK
<1>1. unborn' = unborn
  BY DEF Next, Locking, Scanning, SymbolStep, ReadSettings, StartSymbol, Evaluate,
         CheckTrade, CheckCooldown, CheckSignal, Launch, Call, Operator, Resume, Clearing,
         Clock, Restart, scannerVars, vars
<1>2. LockNext \/ UNCHANGED lockVars
  BY StepsImplementLock DEF vars
<1>3. ASSUME NEW a \in Scans, Scanning(a)
      PROVE  /\ scan[a] = "body"
             /\ \A b \in Scans \ {a} : work'[b] = work[b] /\ side'[b] = side[b]
             /\ \A m \in Symbols : work'[a][m] = "create" =>
                  \/ work[a][m] = "create" /\ side'[a][m] = side[a][m]
                  \/ InFlightSignals(m, side'[a][m]) = {}
  <2>1. CASE ReadSettings(a)
    BY <1>0, <2>1 DEF ReadSettings, ScanAt
  <2>2. ASSUME NEW m \in Symbols, StartSymbol(a, m) \/ Evaluate(a, m) \/ CheckTrade(a, m)
                                  \/ CheckCooldown(a, m)
        PROVE  /\ scan[a] = "body"
               /\ \E pc \in WorkPcs \ {"create"} : WorkGoto(a, m, pc)
               /\ \A b \in Scans \ {a} : side'[b] = side[b]
               /\ \A n \in Symbols \ {m} : side'[a][n] = side[a][n]
    BY <1>0, <2>2 DEF StartSymbol, Evaluate, CheckTrade, CheckCooldown, WorkAt, ScanAt, WorkPcs
  <2>3. ASSUME NEW m \in Symbols, NEW pc \in WorkPcs, WorkGoto(a, m, pc)
        PROVE  /\ \A b \in Scans \ {a} : work'[b] = work[b]
               /\ \A n \in Symbols \ {m} : work'[a][n] = work[a][n]
               /\ work'[a][m] = pc
    BY <1>0, <2>3 DEF WorkGoto
  <2>4. ASSUME NEW m \in Symbols, CheckSignal(a, m)
        PROVE  /\ scan[a] = "body"
               /\ \E pc \in WorkPcs : WorkGoto(a, m, pc)
                              /\ (pc = "create" => InFlightSignals(m, side[a][m]) = {})
               /\ side' = side
    <3>1. InFlightSignals(m, side[a][m]) \subseteq ExistingSignals(m, side[a][m])
      BY DEF InFlightSignals, ExistingSignals, SignalsOf, Queued
    <3> QED
      BY <2>4, <3>1 DEF CheckSignal, WorkAt, ScanAt, WorkPcs
  <2> QED
    BY <1>3, <2>1, <2>2, <2>3, <2>4 DEF Scanning, SymbolStep
<1>4. ASSUME \A a \in Scans : ~Scanning(a) PROVE work' = work /\ side' = side
  BY <1>4
     DEF Next, Locking, Launch, Call, Operator, Resume, Clearing, Clock, Restart,
         scannerVars, vars
<1>5. Untouched' /\ Alone'
  BY <1>0, <1>1, <1>2, <1>3, <1>4, AloneStays
<1>6. UnbornAbsent'
  BY <1>0, UnbornStays
<1> QED
  BY <1>5, <1>6

\* Lines 492-501: as long as no scan loses its lock, the check and the create of
\* one scan, with whatever calls and requests run between them, leave a symbol
\* with at most one signal of a direction in flight, provided no withdrawn signal
\* is put back.
THEOREM OneSignal == Spec /\ [][NoneRevived]_vars => []OneSignalPerSide
<1>1. Init => Untouched /\ UnbornAbsent /\ Alone
  BY DEF Init, ScannerInit, LockInit, Untouched, AllWork, UnbornAbsent, Alone,
         InFlightSignals, CreatesAt, WorkAt, ScanAt
<1>2. RowsTyped /\ [Next]_vars => RowsTyped'
  BY ScanSteps, CallSteps, OtherSteps DEF Next
<1>3. AloneInv /\ [Next]_vars /\ [NoneRevived]_vars => Untouched' /\ UnbornAbsent' /\ Alone'
  <2> SUFFICES ASSUME AloneInv, [Next]_vars, [NoneRevived]_vars
               PROVE  Untouched' /\ UnbornAbsent' /\ Alone'
    OBVIOUS
  <2>1. NoneRevived
    BY DEF NoneRevived, vars, stateVars
  <2> QED
    BY <2>1, CreatingAlone, OthersAlone
<1>4. AloneInv => OneSignalPerSide
  <2> SUFFICES ASSUME AloneInv, lost = {}, NEW m \in Symbols, NEW d \in Directions
               PROVE  Cardinality(InFlightSignals(m, d)) <= 1
    BY DEF OneSignalPerSide
  <2>1. \A s, t \in InFlightSignals(m, d) : s = t
    BY DEF AloneInv, Alone
  <2>2. CASE InFlightSignals(m, d) = {}
    BY <2>2, FS_EmptySet
  <2>3. ASSUME NEW s \in InFlightSignals(m, d) PROVE Cardinality(InFlightSignals(m, d)) <= 1
    <3>1. InFlightSignals(m, d) = {s}
      BY <2>1
    <3> QED
      BY <3>1, FS_Singleton
  <2> QED
    BY <2>2, <2>3
<1> QED
  BY <1>1, <1>2, <1>3, <1>4, RowsInitially, LockImplemented, LockInvariance, PTL
     DEF Spec, AloneInv

-----------------------------------------------------------------------------
(* When nothing is put back: if only calls of approveLive write the status  *)
(* of a signal in flight, and one at a time.                                *)

\* Two calls never work on one signal at the same time.
OneCallPerSignal ==
    \A c, d \in Calls : InFlight(c) /\ InFlight(d) /\ ex[c].signal = ex[d].signal => c = d

\* A call holds its signal until it has settled what becomes of it.
HoldsSignal ==
    \A c \in Calls : InFlight(c) /\ ex[c].pc # "catch" => sig[ex[c].signal] = "approved"

HoldInv == RowsTyped /\ UnbornAbsent /\ HoldsSignal /\ stopping = {}

\* The requests that withdraw signals.
Withdrawals == {"skip", "cancel", "stop", "cleanup"}

\* One step of a call that holds its signal: it writes only that signal, and
\* holds it still unless it comes to the catch block or to its end.
LEMMA CallWritesOwn ==
    ASSUME NEW c \in Calls, CallTyped, HoldsSignal, CallStep(c)
    PROVE  /\ InFlight(c) /\ ex'[c].signal = ex[c].signal
           /\ \A d \in Calls \ {c} : ex'[d] = ex[d]
           /\ \A s \in Signals \ {ex[c].signal} : sig'[s] = sig[s]
           /\ sig' # sig => sig[ex[c].signal] = "approved"
           /\ InFlight(c)' /\ ex'[c].pc # "catch" => sig'[ex[c].signal] = "approved"
<1>0. ExecutionTypeOK /\ sig \in [Signals -> SignalStatus]
  BY DEF CallTyped, StateTypeOK
<1>1. ex[c].pc \notin {"ready", "done", "dead"}
  BY DEF CallStep, CheckStep, TradeStep, LoadSignal, CheckExpiry, CheckSettings,
         CheckExisting, CheckBalance, CheckMarkPrice, RaceGuard, PauseCheck, Settle,
         CatchRead, CatchWrite, SetLeverage, PlaceEntry, CreateTrade, PlaceStop1,
         FetchMarkForStop, PlaceStop2, PlaceStop3, EmergencyClose, FailTrade, FailSignal,
         RecordStop, PlaceTp1, RecordTp1, PlaceTp2, RecordTp2, MarkExecuted, At
<1>2. ex[c].signal \in Signals
  BY <1>1 DEF CallTyped, Claimed
<1>3. /\ ex'[c].signal = ex[c].signal
      /\ \A d \in Calls \ {c} : ex'[d] = ex[d]
  BY <1>0, ChecksMove, TradingMoves DEF CallStep, Moved
<1>4. CASE ~(Settle(c) \/ CatchRead(c) \/ CatchWrite(c) \/ FailSignal(c) \/ MarkExecuted(c))
  <2>1. sig' = sig /\ ex[c].pc # "catch"
    BY <1>4
       DEF CallStep, CheckStep, TradeStep, LoadSignal, CheckExpiry, CheckSettings,
           CheckExisting, CheckBalance, CheckMarkPrice, RaceGuard, PauseCheck,
           SetLeverage, PlaceEntry, CreateTrade, PlaceStop1, FetchMarkForStop, PlaceStop2,
           PlaceStop3, EmergencyClose, FailTrade, RecordStop, PlaceTp1, RecordTp1,
           PlaceTp2, RecordTp2, PlaceConditional, RecordOrder, At, stateVars, dbVars
  <2> QED
    BY <1>1, <1>3, <2>1 DEF HoldsSignal, InFlight
<1>5. CASE CatchRead(c)
  <2>1. sig' = sig
    BY <1>5 DEF CatchRead, stateVars
  <2>2. \/ Moved(c, {"catchWrite"}) /\ sig[ex[c].signal] = "approved"
        \/ Moved(c, {"done"})
    BY <1>0, <1>5, GotoMoves DEF CatchRead, Pcs, Refusing
  <2> QED
    BY <1>1, <1>3, <2>1, <2>2 DEF InFlight, Moved
<1>6. ASSUME NEW pc \in {"catch", "done"}, Moved(c, {pc}), ex[c].pc # "catch",
             NEW status, sig' = SignalsWith(ex[c].signal, status)
      PROVE  /\ \A s \in Signals \ {ex[c].signal} : sig'[s] = sig[s]
             /\ sig' # sig => sig[ex[c].signal] = "approved"
             /\ InFlight(c)' /\ ex'[c].pc # "catch" => sig'[ex[c].signal] = "approved"
  BY <1>0, <1>1, <1>2, <1>6 DEF HoldsSignal, InFlight, Moved, SignalsWith
<1>7. CASE Settle(c) \/ CatchWrite(c) \/ MarkExecuted(c)
  <2>1. ex[c].pc # "catch"
    BY <1>7 DEF Settle, CatchWrite, MarkExecuted, At
  <2>2. Moved(c, {"catch"}) \/ Moved(c, {"done"})
    BY <1>0, <1>7, GotoMoves DEF Settle, CatchWrite, MarkExecuted, Pcs, Refusing
  <2> QED
    BY <1>1, <1>3, <1>6, <1>7, <2>1, <2>2 DEF Settle, CatchWrite, MarkExecuted, InFlight
<1>8. CASE FailSignal(c)
  <2>1. ex[c].pc # "catch" /\ Moved(c, {"catch"})
    BY <1>0, <1>8, ThrowMoves DEF FailSignal, At
  <2> QED
    BY <1>1, <1>3, <1>6, <1>8, <2>1 DEF FailSignal, InFlight
<1> QED
  BY <1>4, <1>5, <1>7, <1>8

\* The steps of calls and claims.
LEMMA CallsHold ==
    ASSUME HoldInv, OneCallPerSignal, NEW c \in Calls,
           CallStep(c) \/ \E s \in Signals : Claim(c, s)
    PROVE  HoldsSignal' /\ NoneRevived
<1>0. CallTyped /\ sig \in [Signals -> SignalStatus]
  BY DEF HoldInv, RowsTyped, CallTyped, StateTypeOK
<1>1. CASE CallStep(c)
  <2>1. /\ InFlight(c) /\ ex'[c].signal = ex[c].signal
        /\ \A d \in Calls \ {c} : ex'[d] = ex[d]
        /\ \A s \in Signals \ {ex[c].signal} : sig'[s] = sig[s]
        /\ sig' # sig => sig[ex[c].signal] = "approved"
        /\ InFlight(c)' /\ ex'[c].pc # "catch" => sig'[ex[c].signal] = "approved"
    BY <1>0, <1>1, CallWritesOwn DEF HoldInv
  <2>2. NoneRevived
    BY <2>1 DEF NoneRevived, Queued
  <2>3. ASSUME NEW d \in Calls \ {c}, InFlight(d)', ex'[d].pc # "catch"
        PROVE  sig'[ex'[d].signal] = "approved"
    <3>1. InFlight(d) /\ ex[d].pc # "catch" /\ ex'[d].signal = ex[d].signal
      BY <2>1, <2>3 DEF InFlight
    <3>2. ex[d].signal \in Signals \ {ex[c].signal}
      BY <1>0, <2>1, <3>1 DEF OneCallPerSignal, CallTyped, Claimed, InFlight
    <3> QED
      BY <2>1, <3>1, <3>2 DEF HoldInv, HoldsSignal
  <2> QED
    BY <2>1, <2>2, <2>3 DEF HoldsSignal
<1>2. ASSUME NEW s \in Signals, Claim(c, s) PROVE HoldsSignal' /\ NoneRevived
  <2>1. /\ ex'[c].signal = s
        /\ \A d \in Calls \ {c} : ex'[d] = ex[d]
        /\ sig' = [sig EXCEPT ![s] = "approved"]
        /\ sig[s] \in {"active", "pending"}
    BY <1>0, <1>2, ClaimMoves DEF Claim
  <2>2. NoneRevived
    BY <1>0, <2>1 DEF NoneRevived, Queued
  <2>3. HoldsSignal'
    BY <1>0, <2>1 DEF HoldInv, HoldsSignal, InFlight
  <2> QED
    BY <2>2, <2>3
<1> QED
  BY <1>1, <1>2

LEMMA HoldStep ==
    ASSUME Withdrawals \cap Requests = {}, HoldInv, OneCallPerSignal, [Next]_vars
    PROVE  HoldsSignal' /\ stopping' = {} /\ NoneRevived
<1>0. /\ RowsTyped /\ CallTyped /\ HoldsSignal /\ UnbornAbsent /\ stopping = {}
      /\ sig \in [Signals -> SignalStatus] /\ ExecutionTypeOK /\ unborn \subseteq Signals
  BY DEF HoldInv, RowsTyped, CallTyped, StateTypeOK, ScannerTypeOK
<1>1. ASSUME sig' = sig, ex' = ex PROVE HoldsSignal' /\ NoneRevived
  BY <1>0, <1>1 DEF HoldsSignal, InFlight, NoneRevived
<1>2. ASSUME NEW c \in Calls, NEW s \in Signals, CallStep(c) \/ Claim(c, s),
             stopping' = stopping
      PROVE  HoldsSignal' /\ stopping' = {} /\ NoneRevived
  BY <1>0, <1>2, CallsHold
<1>3. CASE (\E a \in Scans : Locking(a) \/ Scanning(a))
           \/ (\E p \in Processes : Clearing(p)) \/ Clock \/ UNCHANGED vars
  <2>1. UNCHANGED <<sig, ex, stopping>>
    BY <1>3 DEF Locking, Scanning, Clearing, Clock, stateVars, controlVars, vars
  <2> QED
    BY <1>0, <1>1, <2>1
<1>4. ASSUME NEW a \in Scans, Creating(a) PROVE HoldsSignal' /\ stopping' = {} /\ NoneRevived
  <2>1. PICK s \in unborn : sig' = [sig EXCEPT ![s] = "active"]
    BY <1>4 DEF Creating, CreateSignal
  <2>2. ex' = ex /\ stopping' = stopping
    BY <1>4 DEF Creating, controlVars
  <2>3. s \in Signals /\ sig[s] = "deleted"
    BY <1>0, <2>1 DEF UnbornAbsent
  <2>4. NoneRevived
    BY <1>0, <2>1 DEF NoneRevived
  <2>5. HoldsSignal'
    BY <1>0, <2>1, <2>2, <2>3 DEF HoldsSignal, InFlight
  <2> QED
    BY <1>0, <2>2, <2>4, <2>5
<1>5. ASSUME NEW s \in Signals, Launch(s) PROVE HoldsSignal' /\ stopping' = {} /\ NoneRevived
  <2>1. stopping' = stopping
    BY <1>5 DEF Launch, controlVars
  <2>2. (sig' = sig /\ ex' = ex) \/ \E c \in Calls : Claim(c, s)
    BY <1>5 DEF Launch, stateVars
  <2> QED
    BY <1>0, <1>1, <1>2, <2>1, <2>2
<1>6. ASSUME NEW c \in Calls, Call(c) PROVE HoldsSignal' /\ stopping' = {} /\ NoneRevived
  <2>1. CallStep(c) \/ \E s \in Signals : Claim(c, s)
    BY <1>6 DEF Call
  <2>2. stopping' = stopping
    BY <1>6 DEF Call, controlVars
  <2>3. HoldsSignal' /\ NoneRevived
    BY <2>1, CallsHold
  <2> QED
    BY <1>0, <2>2, <2>3
<1>7. CASE Operator \/ \E p \in Processes : Resume(p)
  <2>1. sig' = sig /\ stopping' = {} /\ ex' = ex
    BY <1>0, <1>7
       DEF Operator, RequestStep, Resume, ResumeBot, SkipSignal, CancelSignal, SignalAges,
           CleanupSignals, BeginStop, StopPauses, StopCancels, PauseBot, ValidatePatch,
           WritePatch, Asked, Withdrawals, stateVars, controlVars
  <2> QED
    BY <1>0, <1>1, <2>1
<1>8. ASSUME NEW p \in Processes, Restart(p) PROVE HoldsSignal' /\ stopping' = {} /\ NoneRevived
  <2>1. /\ sig' = sig /\ stopping' = {}
        /\ ex' = [c \in Calls |-> IF InFlight(c) THEN [ex[c] EXCEPT !.pc = "dead"]
                                                 ELSE ex[c]]
    BY <1>8 DEF Restart, CallsDie, stateVars
  <2>2. \A c \in Calls : ~InFlight(c)'
    BY <1>0, <2>1 DEF InFlight, ExecutionTypeOK
  <2> QED
    BY <2>1, <2>2 DEF HoldsSignal, NoneRevived
<1> QED
  BY <1>3, <1>4, <1>5, <1>6, <1>7, <1>8 DEF Next

\* Where the operator withdraws no signal and calls do not share one, a scan
\* that keeps its lock leaves a symbol with at most one signal of a direction in
\* flight, whatever is refused, paused, expired, cleared or restarted in between.
THEOREM OneSignalUndisturbed ==
    ASSUME Withdrawals \cap Requests = {}
    PROVE  Spec /\ []OneCallPerSignal => []OneSignalPerSide
<1> DEFINE NotStopping == stopping = {}
<1>1. Init => UnbornAbsent /\ HoldsSignal /\ NotStopping
  BY DEF Init, ScannerInit, ExecutionInit, ControlInit, UnbornAbsent, HoldsSignal, InFlight
<1>2. RowsTyped /\ [Next]_vars => RowsTyped'
  BY ScanSteps, CallSteps, OtherSteps DEF Next
<1>3. /\ RowsTyped /\ UnbornAbsent /\ HoldsSignal /\ NotStopping
      /\ OneCallPerSignal /\ [Next]_vars
      => HoldsSignal' /\ NotStopping' /\ [NoneRevived]_vars
  BY HoldStep DEF HoldInv
<1>4. RowsTyped /\ UnbornAbsent /\ [Next]_vars => UnbornAbsent'
  BY UnbornStays
<1> HIDE DEF NotStopping
<1> QED
  BY <1>1, <1>2, <1>3, <1>4, RowsInitially, OneSignal, PTL DEF Spec


=============================================================================
