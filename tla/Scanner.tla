------------------------------ MODULE Scanner -------------------------------
(***************************************************************************)
(* ScannerService._runScan: each scan works through the enabled symbols,   *)
(* several at a time, and for each checks trades and signals, creates a    *)
(* signal and may execute it.  Composed with the calls of approveLive that *)
(* execute the signals and with the operator's requests.                   *)
(***************************************************************************)
EXTENDS OrderExecution, BotControl, ScanLock

CONSTANTS
    AutoExecute,        \* requireDashboardConfirmation is off
    ScanConcurrency,    \* symbols a scan processes at a time
    MaxOpenTrades,      \* the setting of that name
    DirectionOf         \* the direction of each signal

Directions == {"LONG", "SHORT"}

ASSUME DirectionAssumption == DirectionOf \in [Signals -> Directions]

VARIABLES
    work,       \* for each scan and symbol, where processSymbol is suspended
    side,       \* for each scan and symbol, the direction of its candidate
    aborted,    \* scans that have seen a pause (scanAborted)
    unborn,     \* signals that have not been created
    recent,     \* signals created in the last three minutes
    launched    \* signals whose automatic call has not yet tried its claim

scannerVars == <<work, side, aborted, unborn, recent, launched>>

vars == <<stateVars, ex, controlVars, lockVars, scannerVars>>

WorkPcs == {"unread", "todo", "evaluate", "trade", "cooldown", "signal", "create",
            "done"}

ScannerTypeOK ==
    /\ work \in [Scans -> [Symbols -> WorkPcs]]
    /\ side \in [Scans -> [Symbols -> Directions]]
    /\ aborted \in SUBSET Scans
    /\ unborn \in SUBSET Signals
    /\ recent \in SUBSET Signals
    /\ launched \in SUBSET Signals

ScannerInit ==
    /\ work = [a \in Scans |-> [m \in Symbols |-> "unread"]]
    /\ side = [a \in Scans |-> [m \in Symbols |-> "LONG"]]
    /\ aborted = {}
    /\ unborn = Signals
    /\ recent = {}
    /\ launched = {}

\* A signal that has not been created has no row.
Init ==
    /\ AccountInit
    /\ sig = [s \in Signals |-> "deleted"]
    /\ ExecutionInit /\ ControlInit /\ LockInit /\ ScannerInit

-----------------------------------------------------------------------------
WorkAt(a, m, pc) == ScanAt(a, "body") /\ work[a][m] = pc
WorkGoto(a, m, pc) == work' = [work EXCEPT ![a][m] = pc]

AllWork(a, pc) == \A m \in Symbols : work[a][m] = pc

Busy(a) == {m \in Symbols : work[a][m] \notin {"unread", "todo", "done"}}

\* The scan ends at once if the bot is paused, the account cannot be read or
\* the tickers cannot be fetched.
ReadSettings(a) ==
    /\ ScanAt(a, "body") /\ AllWork(a, "unread")
    /\ \E pc \in {"todo", "done"} :
         /\ pc = "todo" => ~settings.isPaused
         /\ pc = "done" => settings.isPaused \/ MayFail("market")
         /\ work' = [work EXCEPT ![a] = [m \in Symbols |-> pc]]
    /\ UNCHANGED <<side, aborted, unborn, recent, launched>>

\* A worker of mapWithConcurrency takes the next symbol; a pause aborts the
\* scan for all symbols not yet taken.
StartSymbol(a, m) ==
    /\ WorkAt(a, m, "todo")
    /\ Cardinality(Busy(a)) < ScanConcurrency
    /\ IF a \in aborted \/ settings.isPaused
       THEN WorkGoto(a, m, "done") /\ aborted' = aborted \cup {a}
       ELSE WorkGoto(a, m, "evaluate") /\ UNCHANGED aborted
    /\ UNCHANGED <<side, unborn, recent, launched>>

\* The only message of validateSignal that depends on what the bot is doing.
RiskAllows == Cardinality(LiveTrades) < MaxOpenTrades

\* Candles, filters, strategies and the risk engine leave a candidate of one
\* direction, or none.
Evaluate(a, m) ==
    /\ WorkAt(a, m, "evaluate")
    /\ \/ /\ RiskAllows
          /\ WorkGoto(a, m, "trade")
          /\ \E d \in Directions : side' = [side EXCEPT ![a][m] = d]
       \/ WorkGoto(a, m, "done") /\ UNCHANGED side
    /\ UNCHANGED <<aborted, unborn, recent, launched>>

CheckTrade(a, m) ==
    /\ WorkAt(a, m, "trade")
    /\ WorkGoto(a, m, IF LiveTradesOf(m) = {} THEN "cooldown" ELSE "done")
    /\ UNCHANGED <<side, aborted, unborn, recent, launched>>

ClosedTradesOf(m) ==
    {t \in Trades : trade[t].symbol = m /\ trade[t].status \notin {"none", "live_open"}}

\* A trade that was closed may have been closed in the last half hour.
CheckCooldown(a, m) ==
    /\ WorkAt(a, m, "cooldown")
    /\ \/ WorkGoto(a, m, "signal")
       \/ ClosedTradesOf(m) # {} /\ WorkGoto(a, m, "done")
    /\ UNCHANGED <<side, aborted, unborn, recent, launched>>

SignalsOf(m, d) ==
    {s \in Signals : SymbolOf[s] = m /\ DirectionOf[s] = d /\ sig[s] # "deleted"}

\* Faulty variant: signals that an automatic call has claimed do not count.
ExistingUnclaimed(m, d) ==
    {s \in SignalsOf(m, d) : sig[s] \in Queued \ {"approved"}}

\* Signals of the symbol and of the candidate's direction that are queued, being
\* executed or less than three minutes old.
ExistingSignals(m, d) ==
    {s \in SignalsOf(m, d) : sig[s] \in Queued \/ s \in recent}

CheckSignal(a, m) ==
    /\ WorkAt(a, m, "signal")
    /\ WorkGoto(a, m, IF ExistingSignals(m, side[a][m]) = {} THEN "create" ELSE "done")
    /\ UNCHANGED <<side, aborted, unborn, recent, launched>>

\* Faulty variant: a status the enum does not have.
CreateSignalAsNew(a, m) ==
    /\ WorkAt(a, m, "create")
    /\ \E s \in unborn :
         /\ SymbolOf[s] = m /\ DirectionOf[s] = side[a][m]
         /\ sig' = [sig EXCEPT ![s] = "new"]
         /\ unborn' = unborn \ {s}
         /\ recent' = recent \cup {s}
         /\ launched' = IF AutoExecute THEN launched \cup {s} ELSE launched
    /\ WorkGoto(a, m, "done")
    /\ UNCHANGED <<side, aborted>>

\* The pause is not tested again: freshSettings is what StartSymbol read.
CreateSignal(a, m) ==
    /\ WorkAt(a, m, "create")
    /\ \E s \in unborn :
         /\ SymbolOf[s] = m /\ DirectionOf[s] = side[a][m]
         /\ sig' = [sig EXCEPT ![s] = "active"]
         /\ unborn' = unborn \ {s}
         /\ recent' = recent \cup {s}
         /\ launched' = IF AutoExecute THEN launched \cup {s} ELSE launched
    /\ WorkGoto(a, m, "done")
    /\ UNCHANGED <<side, aborted>>

\* The checks of a scan, none of which changes a row.
SymbolStep(a) ==
    \/ ReadSettings(a)
    \/ \E m \in Symbols :
         \/ StartSymbol(a, m) \/ Evaluate(a, m) \/ CheckTrade(a, m)
         \/ CheckCooldown(a, m) \/ CheckSignal(a, m)

-----------------------------------------------------------------------------
\* A scan takes and gives back the lock, and ends when every symbol is done.
Locking(a) ==
    /\ \/ CallScan(a) \/ EnterStep(a)
       \/ AllWork(a, "done") /\ FinishScan(a)
    /\ UNCHANGED <<stateVars, ex, controlVars, scannerVars>>

Scanning(a) == SymbolStep(a) /\ UNCHANGED <<stateVars, ex, controlVars, lockVars>>

Creating(a) ==
    /\ \E m \in Symbols : CreateSignal(a, m)
    /\ UNCHANGED <<settings, expired, trade, rows, exchangeVars, ex, controlVars, lockVars>>

\* The call that autoExecute started claims its signal, or finds it claimed.
Launch(s) ==
    /\ s \in launched
    /\ launched' = launched \ {s}
    /\ \/ \E c \in Calls : ex[c].actor = "system" /\ Claim(c, s)
       \/ sig[s] \notin {"active", "pending"} /\ UNCHANGED <<stateVars, ex>>
    /\ UNCHANGED <<controlVars, lockVars, work, side, aborted, unborn, recent>>

\* Calls of the dashboard, and every further step of a call.
Call(c) ==
    /\ \/ CallStep(c)
       \/ Asked("approve") /\ ex[c].actor = "manual" /\ \E s \in Signals : Claim(c, s)
    /\ UNCHANGED <<controlVars, lockVars, scannerVars>>

Operator ==
    /\ RequestStep
    /\ unborn \cap expired' = {}
    /\ UNCHANGED <<ex, lockVars, scannerVars>>

\* Resume and start: the settings, then clearScannerLock.
Resume(p) ==
    /\ ResumeBot
    /\ BeginClear(p)
    /\ UNCHANGED <<ex, scannerVars>>

Clearing(p) ==
    /\ ClearStep(p)
    /\ UNCHANGED <<stateVars, ex, controlVars, scannerVars>>

\* Redis forgets; three minutes pass since a signal was created.
Clock ==
    \/ ClockStep /\ UNCHANGED <<stateVars, ex, controlVars, scannerVars>>
    \/ /\ \E s \in recent : recent' = recent \ {s}
       /\ UNCHANGED <<stateVars, ex, controlVars, lockVars, work, side, aborted, unborn,
                     launched>>

\* The backend dies: its scans, its calls and its requests with it.
Restart(p) ==
    /\ ScannerDies(p)
    /\ CallsDie
    /\ stopping' = {} /\ patch' = NoPatch
    /\ launched' = {}
    /\ UNCHANGED <<stateVars, work, side, aborted, unborn, recent>>

Next ==
    \/ \E a \in Scans : Locking(a) \/ Scanning(a) \/ Creating(a)
    \/ \E s \in Signals : Launch(s)
    \/ \E c \in Calls : Call(c)
    \/ Operator
    \/ \E p \in Processes : Resume(p) \/ Clearing(p) \/ Restart(p)
    \/ Clock

Spec == Init /\ [][Next]_vars

-----------------------------------------------------------------------------
TypeOK ==
    /\ StateTypeOK /\ ExecutionTypeOK /\ ControlTypeOK /\ LockTypeOK
    /\ ScannerTypeOK

\* Signals of a symbol and direction waiting for execution or being executed.
InFlightSignals(m, d) ==
    {s \in Signals \ unborn : SymbolOf[s] = m /\ DirectionOf[s] = d /\ sig[s] \in Queued}

\* A symbol has one signal of a direction to be executed at a time (lines
\* 492-501).  The check and the create are two requests, so this rests on scans
\* not overlapping.
OneSignalPerSide ==
    lost = {} =>
        \A m \in Symbols, d \in Directions : Cardinality(InFlightSignals(m, d)) <= 1

\* "Skip if a signal for this symbol was already created or is in-flight" (line
\* 486): a symbol has one signal to be executed at a time, of either direction.
\* It fails: a queued LONG does not keep a later scan from creating a SHORT.
OneSignalPerSymbol ==
    lost = {} =>
        \A m \in Symbols :
            Cardinality(UNION {InFlightSignals(m, d) : d \in Directions}) <= 1

\* "Max open trades hard cap" (risk engine line 88): never more trades are open
\* than the setting allows.  It fails: nobody counts again when a trade is opened.
OpenTradesCapped == Cardinality(LiveTrades) <= MaxOpenTrades

=============================================================================
