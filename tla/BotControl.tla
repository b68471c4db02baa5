----------------------------- MODULE BotControl -----------------------------
(***************************************************************************)
(* The requests that change signals and settings while calls of            *)
(* approveLive are in flight: SignalsService (skip, cancel, cleanup),      *)
(* DashboardController (pause, stop, emergency stop, resume, settings) and *)
(* the monitor's sweep over stale signals.  The operator is one person:    *)
(* one stop and one settings change are in progress at a time.             *)
(***************************************************************************)
EXTENDS TradingState

CONSTANT Requests   \* the operator's requests in this instance

VARIABLES
    stopping,   \* writes of a stop that are still to come
    patch       \* the settings a PATCH has validated and is about to write

controlVars == <<stopping, patch>>

StopWrites == {"pause", "cancel"}

\* The keys assertNoUnsafeLiveMutation protects.
LiveSettings == [realTradingEnabled : BOOLEAN, mode : {"testnet", "live"}]

NoPatch == <<>>

ControlTypeOK ==
    /\ stopping \in SUBSET StopWrites
    /\ patch \in LiveSettings \cup {NoPatch}

ControlInit ==
    /\ stopping = {}
    /\ patch = NoPatch

Asked(request) == request \in Requests

\* SignalsService.CLEANUP_STATUSES
CleanupStatuses == {"skipped", "expired", "failed", "cancelled"}

-----------------------------------------------------------------------------
\* skip and cancel write over any status.
SkipSignal(s) ==
    /\ Asked("skip")
    /\ sig[s] # "deleted"
    /\ sig' = SignalsWith(s, "skipped")
    /\ UNCHANGED <<settings, expired, trade, rows, exchangeVars, controlVars>>

CancelSignal(s) ==
    /\ Asked("cancel")
    /\ sig[s] # "deleted"
    /\ sig' = SignalsWith(s, "cancelled")
    /\ UNCHANGED <<settings, expired, trade, rows, exchangeVars, controlVars>>

\* deleteMany over terminal signals that no trade refers to.
CleanupSignals ==
    /\ Asked("cleanup")
    /\ sig' = SignalsMoved({s \in Signals : \A t \in Trades : trade[t].signal # s},
                           CleanupStatuses, "deleted")
    /\ UNCHANGED <<settings, expired, trade, rows, exchangeVars, controlVars>>

-----------------------------------------------------------------------------
\* Stop and emergency stop issue their two updates concurrently.
BeginStop ==
    /\ Asked("stop")
    /\ stopping = {}
    /\ stopping' = StopWrites
    /\ UNCHANGED <<stateVars, patch>>

StopPauses ==
    /\ "pause" \in stopping
    /\ settings' = [settings EXCEPT !.isPaused = TRUE]
    /\ stopping' = stopping \ {"pause"}
    /\ UNCHANGED <<sig, expired, trade, rows, exchangeVars, patch>>

StopCancels ==
    /\ "cancel" \in stopping
    /\ sig' = SignalsMoved(Signals, Queued, "cancelled")
    /\ stopping' = stopping \ {"cancel"}
    /\ UNCHANGED <<settings, expired, trade, rows, exchangeVars, patch>>

\* Pause leaves the signals alone.
PauseBot ==
    /\ Asked("pause")
    /\ settings' = [settings EXCEPT !.isPaused = TRUE]
    /\ UNCHANGED <<sig, expired, trade, rows, exchangeVars, controlVars>>

\* Resume and start.
ResumeBot ==
    /\ Asked("resume")
    /\ stopping = {}
    /\ settings' = [settings EXCEPT !.isPaused = FALSE]
    /\ UNCHANGED <<sig, expired, trade, rows, exchangeVars, controlVars>>

\* PATCH /settings: a live mode change is refused while a trade is open ...
ValidatePatch(p) ==
    /\ Asked("patch")
    /\ patch = NoPatch
    /\ \/ LiveTrades = {}
       \/ \A key \in {"realTradingEnabled", "mode"} : p[key] = settings[key]
    /\ patch' = p
    /\ UNCHANGED <<stateVars, stopping>>

\* ... and written an await later.
WritePatch ==
    /\ patch # NoPatch
    /\ settings' = [settings EXCEPT
                      !.realTradingEnabled = patch.realTradingEnabled,
                      !.mode = patch.mode]
    /\ patch' = NoPatch
    /\ UNCHANGED <<sig, expired, trade, rows, exchangeVars, stopping>>

-----------------------------------------------------------------------------
\* The sweep of the monitor, at any time.
ExpireStaleSignals ==
    /\ sig' = StaleExpired
    /\ UNCHANGED <<settings, expired, trade, rows, exchangeVars, controlVars>>

\* The clock passes a signal's expiresAt.
SignalAges(s) ==
    /\ Asked("expiry")
    /\ expired' = expired \cup {s}
    /\ UNCHANGED <<settings, sig, trade, rows, exchangeVars, controlVars>>

-----------------------------------------------------------------------------
\* Everything but resuming, which also clears the scanner's lock.
RequestStep ==
    \/ \E s \in Signals : SkipSignal(s) \/ CancelSignal(s) \/ SignalAges(s)
    \/ CleanupSignals
    \/ BeginStop \/ StopPauses \/ StopCancels \/ PauseBot
    \/ \E p \in LiveSettings : ValidatePatch(p)
    \/ WritePatch

ControlStep == RequestStep \/ ResumeBot

=============================================================================
