# PerpScout AI: a verification project

TLA+ models of the trading core of this repository, model-checked with TLC, and
theorems about them checked with TLAPS. Paths below are relative to
`src/backend/src/`; "line" refers to the file just named.

## 1. The system

A bot that trades Binance USDM perpetual futures: a NestJS backend over
PostgreSQL (Prisma) and Redis, and a Next.js dashboard. A scanner turns market
data into *signals*; executing a signal sends an entry order, a stop-loss and
take-profits and creates a *trade*; a monitor and a websocket notice when the
exchange has closed a trade. Everything runs in one Node process: handlers
interleave at every `await`, with each other and with the exchange.

| component | state | operations | interacts with |
|---|---|---|---|
| Order execution (`execution/order-execution.service.ts`) | none of its own: Signal, Trade, Order rows | `approveLive` | called by dashboard, scanner, monitor; sends orders |
| Signal requests (`signals/signals.service.ts`) | Signal rows | approve, skip, cancel, cleanup | dashboard |
| Bot control (`dashboard/dashboard.controller.ts`) | BotSettings | pause, stop, emergency stop, resume, start, settings PATCH, reconcile | cancels signals under calls in flight |
| Position monitor (`monitor/position-monitor.service.ts`) | `running`; Trade, Order, Signal rows | every 5 s: holding limit, reconciliation, orphan import, breakeven stop, expiry sweep, refill, continuous flow | cancels and sends orders, calls `approveLive`, starts scans |
| User data stream (`monitor/user-data-stream.service.ts`) | websocket, listenKey | fills -> `finalizeExchangeClosedTrade` | concurrent with the monitor |
| Trades (`trades/trades.service.ts`) | Trade, Order rows | `closeLive`, archive, export | cancels and sends orders |
| Scanner (`scanner/scanner.service.ts`) | Redis lock and throttle, `scanning` flag | `runScan`, `clearScannerLock`, `forceReconcileOpenTrades`, `syncSymbols`, strategy health | creates signals, executes them |
| Binance client (`binance/binance.service.ts`) | ban breaker, position-mode cache | signed requests, orders, balances | everybody |
| Risk engine, position size (`risk/`) | none | `validateSignal`, sizing | scanner |
| Trading windows (`settings/`) | none | session and weekend rules | scanner, execution, monitor |
| Strategies, indicators, regime, scoring | none | pure formulas | scanner |
| Authentication (`auth/`) | nonces and sessions in Redis | nonce, login, guard | dashboard |
| Cleanup scheduler, logs | log tables | retention, writes | nobody reads them back |
| Frontend | none | pages over the API | dashboard |

What is hard: no database transaction spans two awaits, so every check made
before an await can be stale after it; the same rows are written by up to seven
handlers, some guarded (`updateMany where status`), some not; requests to
Binance fail, or succeed although the client times out; the process can die
between an order and the row that records it; messages of the stream are lost
and reordered. What makes the components correct: a signal is executed once; a
symbol has one open trade; a position always has a stop, a row and somebody
responsible for it; stopping the bot stops it; a trade the exchange has closed
is closed in the database, once; nothing stays claimed, open or orphaned for
ever.

## 2. The modules

| module | models |
|---|---|
| `TradingState` | the rows of Signal, Trade, Order and BotSettings and the Binance account that all components share; the unique index; reduce-only arithmetic |
| `OrderExecution` | `approveLive`, one action per stretch between two awaits that others can observe |
| `BotControl` | skip, cancel, cleanup, pause, stop, resume, settings PATCH, expiry sweep |
| `SignalExecution` | composes those two: concurrent calls against the operator's requests; its safety properties and their inductive invariant |
| `ExecutionProofs` | what each step of `approveLive` and of the bot control does to the shared state: lemmas the proofs about compositions share, among them what it takes to enter a position |
| `SignalExecutionProofs` | theorems about `SignalExecution` for all constants |
| `ProtectionProofs` | that positions have their stop and their row, for all constants; extends `SignalExecutionProofs` |
| `TradeLedger` | abstract: a trade is opened once, for a symbol nobody holds, and once closed stays closed |
| `Exchange` | external: orders trigger or expire, positions are closed outside the bot, fills are reported |
| `PositionMonitor` | a tick of the monitor, stage by stage, over what each stage read |
| `UserDataStream` | concurrent handlers of fill messages |
| `TradeClosing` | `closeLive` and `forceReconcileOpenTrades` |
| `LiveTrading` | composes all of them; fairness; safety, refinement and liveness; the inductive invariant of its refinement |
| `LiveTradingProofs` | its types, its refinement of `TradeLedger`, who can replace a verdict and what protects a position over its whole life, for all constants |
| `ScanLock` | how scans are kept apart: the throttle and the lock in Redis, the `scanning` flag of each process, `clearScannerLock` |
| `Scanner` | the checks `_runScan` makes per symbol before it creates a signal; composes `ScanLock`, `OrderExecution` and `BotControl` |
| `ScanLockProofs`, `ScannerProofs` | theorems about both, for all constants |
| `Candles` | the indicators that read candles: patterns, swings, structure, levels, gaps, order blocks, ATR |
| `Strategies` | market regime, the five strategies with their gates, stops and targets, the selector |
| `Scoring` | hot score, confidence, selection score, position size, leverage, fixed-return prices, pause after losses |
| `SymbolAnalysis` | a worker of a scan at one symbol after another: from its candles to a signal, with the risk engine, while the settings change |
| `SymbolAnalysisProofs` | theorems about all properties of that module, strategy by strategy, for all values |
| `BinanceClient` | what `BinanceService` remembers between requests: the ban breaker and the cached position mode |
| `StreamSupervisor` | the cron jobs that open, keep alive and tear down the user data stream; its sockets and listen keys |
| `Authentication` | nonces, logins with their awaits, sessions, logout |
| `SettingsRules` | a settings PATCH: validation, consistency, unsafe changes, normalisation, the micro preset |
| `Backend` | composes those four: sessions guard the PATCHes, the mode they write decides which exchange client and stream talk to |
| `BackendProofs` | theorems about `Backend` for all constants |
| `MCSignalExecution`, `MCLiveTrading`, `MCScanLock`, `MCScanner`, `MCSymbolAnalysis`, `MCBackend` | instances for TLC |

How state corresponds to code:

* `sig[s]` is `Signal.status` (`"deleted"` after cleanup); `expired` holds the
  signals whose `expiresAt` has passed. `trade[t]` and `rows[t][kind]` are the
  Trade row and the status of its Order rows: the stop (`sl`), the breakeven
  stop (`be`) and the take-profits. A trade created by a call has the call's
  name; one imported by the monitor a name from `Imports`.
* `pos` and `resting` are the exchange's side: the position per symbol and the
  conditional orders that wait. A quantity is counted in halves of an order, so
  that the split between TP1 and TP2 (`order-execution.service.ts` 370) and
  reduce-only clipping are visible. A conditional order that Binance accepts although the
  client's ten seconds are over rests, and the call goes on as if it had been refused: a stop of
  the three attempts under a name no row has (`LostStops`), a take-profit under its own.
* `ex[c]` is a call of `approveLive`: its program counter is the await it is
  suspended at; `to` and `mark` are the statuses it will write when refused.
* `mon` is the tick in progress with its local variables (`todo`, `seen`,
  `positions`, `orphans`, `queue`, `taken`), which go stale as in the code;
  `ws` the handlers of stream messages; `closer` the operator's request;
  `stopping` and `patch` the writes a stop and a PATCH have still to make.
* An action is one read or one write: guards are the code's conditions on what
  was read, the next location its early return. A check that refuses first
  writes the signal's status (`Settle`) and then runs the catch block, which
  reads (`CatchRead`) and writes (`CatchWrite`) in two steps, as the code does.

* `lock` is the Redis key `scanner:run-lock`, which holds the token of a scan, in
  the model its name; `scan[a]` the await a `runScan` is suspended at;
  `throttled` whether `scanner:last-started-at` is recent; `clearing[p]` the
  progress of a `clearScannerLock`. Any of these requests to Redis may throw (`"redis"`).
  `lost` (scans whose lock was deleted or expired), `cleared` and `jammed` (processes whose
  flag the throw at 85 has left up) are history variables.
* `work[a][m]` is where scan `a` is in `processSymbol` for symbol `m`, `aborted`
  its `scanAborted`; `unborn` holds the signals not yet created, `recent` those
  younger than three minutes, `launched` those whose automatic call of
  `approveLive` has not reached its claim. Candles, filters, strategies and scores decide
  whether there is a candidate, which is a free choice, as is which of the signals still
  unborn it becomes, and so its direction (`DirectionOf`); of the risk engine only the count of
  open trades is kept.

* `SymbolAnalysis` keeps `processSymbol`'s locals: the reading of the `market`, the
  candidates of the selector still `waiting`, of which the first in rank is taken next, what the risk engine
  is asked (`pending`), the `selectable` ones and the `signal` published (`SignalOf`). `settings`
  is the row, `scan` what the scan has read of it; the risk engine reads the row
  again for every candidate. `IsReading` and `IsSettings` say which readings and settings
  there can be: candles whose open and close lie between low and high, windows long enough for the
  patterns, a price on the symbol's tick; fields as the DTO bounds them. `StrategyConfig` is what
  `buildStrategyConfig` reads from the row: per strategy its switch, thresholds, longest stop and the two
  multiples of its targets, each within the bounds of its own column and compared with no other. A maximum
  of 0, which `position-size.service.ts` (35) takes for no cap, is not among the fields, because the DTO
  admits none below 1. Prices are whole units of an instance, amounts hundredths, as in the
  source's rounding to steps and cents.
* `Strategies` states every rule once, for a long; a short is a long in the mirror
  (`SeenBy`, `Looking`): prices change sign, highs become lows. Where the source is
  not symmetric (crowded funding, the penalty of a short in a bullish market) the
  rule names the direction.
* `ban` is what is left of a ban at Binance, `backoff` what is left until
  `bannedUntilMs`; `req[r]` is the await of a request. `told` is the time an answer
  names and, as time does not pass while an answer is handled, needs no clock.
  `unaware`, `misread`, `ended`, `spent` and `together` are history variables.
* `sup[u]` is a run of the cron job `supervise`; `ws` the field of that name;
  `socket[s]` a connection with listeners: `"live"`, or `"deaf"` when Binance has
  dropped its key; `deletes` the keys being closed. `key` tells whether Binance has a listen key.
* `nonce`, `session` are the keys in Redis, `login[l]` the await a login is at.
* `stored` is the BotSettings row, restricted to the fields an instance follows;
  `patch[p]` the await a PATCH is at, with what it has read.

Every instance gives `Faults` (requests that may fail), `Moves` (what the market
does), `Requests` (what the operator does) and `Actors` (who calls), so that a
run names exactly what it allows. `Backend` names scenarios instead: `callers` is
chosen at the start and says who acts in a behaviour, so that one run covers
each interesting pair of neighbours without their product.

## 3. The runs

| run | question | instance | result |
|---|---|---|---|
| `ExecSafety` | Can interleavings of calls, stop, resume, skip, cleanup, every failure and a crash put signals, trades and stops at odds? | 2 calls of the dashboard, 2 signals (one splittable) of one symbol; orders are refused, or accepted without an answer | holds |
| `ExecProtected` | Does every position end up with a stop and a row when requests fail? | 2 automatic calls, 2 symbols; all faults and lost answers but those of the entry's answer and the emergency close | holds |
| `LiveVerdicts` | Is a trade closed once, whoever notices first? | 1 splittable signal, executed by dashboard or refill, an import; stop, TP, breakeven move and holding limit; stops, cancels and prices fail, cancels, closes and new stops lose their answers, messages get lost | holds |
| `LiveProtected` | Is a position covered over its whole life unless somebody is at work on it? | 1 splittable trade, breakeven move, manual close, reconciliation; the new stop and closes lose their answers | holds |
| `LiveRepair` | Are closures noticed, limits kept, entries resolved, positions adopted and claims released, whatever fails? | 1 call that may crash or lose the answer to its entry, 1 import; most requests fail now and then, no message arrives | holds under fairness |
| `ScanLock` | Does the lock keep scans apart, is it given back, and does the flag outlive its scan? | 3 scans in 2 processes; clears, expiry, crashes, requests to Redis that throw | holds, `LockIsFreed` under fairness |
| `ScanSignals` | Does a symbol get one signal of a direction at a time? | 2 scans of 1 process, 1 symbol, 3 signals (two longs, a short), 1 call; pause, resume, expiry, crash, Redis that throws | holds |
| `Analysis` | Are the signals of the strategies sound: stop and targets on the right side, loss within the budget, size within the limits, confidence the one it was sized with? | every one of 480 readings of a market (long and short), 5 settings, one with multiples the wrong way round, 1 change of them (one switches strategies off), 5 accounts, 2 records of results | holds |
| `Backend` | Do overlapping logins, PATCHes, requests under a ban and stream jobs keep sessions, settings, breaker, mode cache and socket right? | 8 scenarios of one to three callers, bans of 2 units, one accident | holds, the last three under fairness |
| `DoubleExecution` | Does the claim prevent double execution? | 3 calls, 1 signal, failing balance request | violated |
| `BreakevenFailure` | Does a failed breakeven move leave the stop in place? | 1 trade, refused stops | violated under fairness |
| `BanSilence` | Is nothing sent while the breaker knows of a ban? | 1 signed request, 1 balance, 1 stream job | violated |

Properties, and the code they are about:

* `OneLiveTradePerSymbol`, `ImplementsLedger`: the two duplicate guards (74, 133)
  are both before the entry; only the unique index makes the promise true. With
  the index dropped both are violated.
* `ExecutedHasStop`, `FailedHasNoKnownOrder`, `EntryIsResolved`: the three attempts
  at the stop, the emergency close and the take-profit branches (253-496). A failed trade
  may well have stops at rest, those whose answer was lost (section 4); the property says
  that there is nothing else, neither a row nor an order Binance has confirmed.
* `StopHoldsTheRest`: the third pause check (143). The history variable `late`
  remembers the calls already past it when the bot was stopped.
* `NeverUnprotected`: one stop that rests in a symbol covers the whole position (`Covered`), except while a call is before its stop, the monitor is between
  two stops or an operator's close is under way.
* `PositionIsBooked`: exchange and database agree when no call is half-way.
* `FirstVerdictStands`: the `status: 'live_open'` guard of `updateMany`
  (monitor 236, 305) makes racing closers safe. The exception is the call that gives its own trade
  up without asking for its status (335).
* `ClosedIsNoticed`, `HoldingLimitIsKept`, `OrphanIsAdopted`,
  `ApprovedIsTransient`: what the monitor's tick must eventually repair.
* `TickEnds`: the flag `running` keeps ticks apart (monitor 39-55), so everything above rests on
  each tick ending, whatever it awaits: requests, calls of the refill, a scan.
* `OverlapNeedsLoss`, `OneScanPerProcess`: what lock and flag of `runScan` (69-103)
  are for. Neither alone suffices: the lock expires after thirty minutes under
  a long scan, where the flag still excludes the other scans of the process,
  and the flag says nothing of other processes.
* `LockIsFreed`: the release at the end of a scan, and the time to live for a process that
  dies or whose release throws.
* `FlagHasScan`: the flag has no time to live, and while it is up its process scans no more. It is up
  only for a scan at work, which lowers it in `finally`; the one way around is the request at 85,
  which follows the flag but precedes the `try`.
* `OneSignalPerSide`: the check at 492-501 and the create are two requests, so
  the promise rests on scans not overlapping; after a lost lock two scans do
  create twin signals. It is about one direction, as the check is (section 4).

* `TargetsAhead`, `LossIsBudgeted`, `SizeFits`: what the signal that leaves a scan
  promises, after five strategies, the risk engine (24-113), position sizing and
  fixed-return prices have each computed a part of it at different moments. Each
  states its exceptions: a fixed loss smaller than the fees, a first multiple set above the
  second, the leverage changed between the scan's read and the risk engine's. The scores are
  part of it: they decide which candidate is published, and the confidence sets the share of the
  budget that `LossIsBudgeted` is about.
* `ConfidenceIsFinal`: the comment at `scanner.service.ts` 369-375 promises that the
  provisional confidence used for sizing is the final one.
* `NonceBuysOneLogin`: the nonce is read (`auth.service.ts` 54) and deleted after the signature
  check (80); of overlapping logins only one finds it to delete.
* `WriteIsAuthorised`: what `AuthGuard` (24, 27) reads in two awaits still holds when the
  settings are written.
* `UnsafeChangeHadCause`, `WrittenTogetherFits`: the guard of `updateSettings` (622)
  and the comparisons (807-865) precede the write; the properties say in which two
  cases the first is overtaken, and that the second survives for what one PATCH
  writes itself.
* `NothingForgotten`: answers of overlapping requests are merged with `Math.max` (151).
* `WrongModeWasUnread`: the cached position mode is wrong only after a failed read, which
  caches the default for an hour (320).
* `OneSocket`: `supervise` (60-106), the closed-socket handlers and `teardown` never leave a
  second socket listening.
* `BanEnds`, `StreamRecovers`, `StreamStops`: the breaker lets a ban run out unless the
  requests that bypass it extend it; the stream comes back in live mode and
  stays away outside of it.

### Bounds, and why they are enough

Two calls exhibit every race for a claim, a guard or the index; a third appears
only in `DoubleExecution`, where three are needed. Two signals of one symbol
are a duplicate, of two symbols an interference. Quantities are 0, 1 or 2 lots: nothing,
one take-profit, two. The live runs follow one call, whose trade and whose
imported position are the two trades that compete. A call runs once and is not re-used, so the number of
executions is bounded by `Calls`, of imported trades by `Imports`; a position
is bounded by the entries. Nothing else is bounded. Permuting calls is a
symmetry of the execution runs, which check safety only.

Of three scans two share a process and one does not, so the lock is contended
within and across processes while a third scan holds or has lost it. A scan runs
once. `ScanSignals` needs two scans for an overlap, one symbol and two signals of a direction for a
twin, a third of the other direction to show that the two sides do not disturb each other, and one
call to change a signal's status under a scan.

The readings of `Analysis` are 4 shapes of a market (rising, bouncing, shaken,
dumped), in 5 states of BTC, with 3 tickers and 4 variations of volume, hour and
slower trend, and the mirror of each; all five strategies publish signals for long and
for short. Of the lookbacks the DTO admits (5 to 200) the instance has the default and half of it
(`Lookbacks`); the other settings are those of five rows and six PATCHes. `TargetsAhead` exempts a bounce below a reward of 1.5 (`CheapBounce`), but
no reading reaches it: it needs an ATR above nine percent of the support. A settings change may fall between any two steps.

In `Backend` two requests of a kind overlap; a ban of two units can be shortened and
extended; two sockets are an old and a new connection; an accident is a lost answer or a
restart. Requests, PATCHes and jobs are used again when they return, so
behaviours are not bounded in length; logins and nonces are used once. `MCInit`
fixes the account's position mode in scenarios where nobody asks for it, and the
settings' mode in those where nobody acts on it: the values would only copy the
state space. Deadlock is not checked: logins come to an end, and scenarios
without a PATCH or a job rest when they have.

### Fairness

Weak fairness of every call, of the monitor, of the stream handlers and of
closes: the event loop resumes every continuation, the scheduler calls the
monitor every five seconds, and all HTTP requests carry a timeout
(`binance.service.ts` 71-73), so none waits for ever. Weak fairness of the clock
passing `expiresAt`. Strong fairness (`BinanceRecovers`) of three monitor
requests succeeding - fetching positions, closing at market, learning the exit
price: Binance does not refuse the same request for ever. Operator
requests, market moves, claims and crashes are never assumed to happen. In
`ScanLock`, weak fairness of scans (their requests carry timeouts too), of a
`clearScannerLock` that has begun and of the lock's time to live. In `Backend`, weak fairness of
the return of requests (axios gives up after ten seconds), of the clock, of the
cron job `supervise` and each of its steps, and of Binance ending a socket whose
key is gone (after a day at the latest); strong fairness of a request for a listen
key being granted, outside a ban. Calls, logins and PATCHes are not assumed to happen.

## 4. What the violated runs show

* **Double execution.** Call A claims a signal and its balance request fails; it
  writes 'active' (line 45). Call B claims the signal. A's catch block had read
  'approved' - B's claim - and writes 'active' (543). Call C claims it too, and B
  and C both send an entry. The comment at 21 promises the opposite.
* **Failed breakeven.** The old stop is cancelled (monitor 398) before the new one
  is refused (422); the next ticks find no open stop row (381) and never retry,
  although 457 says the stop stays and is retried.
* **Silence during a ban.** The comment at `binance.service.ts` 59-63 says that every request path
  checks the breaker. A balance request in live mode (215) and the requests for
  listen keys do not, and a signed request checks before it awaits the settings,
  so one that began before the ban is sent under it.

Three more promises fail in the models, though no run is spent on them:

* A dashboard call is refused after the stop has cancelled its signal and writes
  'active' over 'cancelled', and the signal executes on resume
  (`SignalExecution!CancelledStaysOut`, with two calls and one signal). The comment at
  `dashboard.controller.ts` 281 promises that nothing executes on resume.
* A queued LONG does not keep a later scan from creating a SHORT of the same symbol
  (`Scanner!OneSignalPerSymbol`, in the instance of `ScanSignals`): the filter (`scanner.service.ts` 495)
  asks for the direction, while the comment above it (486) speaks of a signal "for this symbol". The
  guards of `approveLive` and the unique index still allow one trade.
* A strategy's `tp1Multiplier` may be set above its `tp2Multiplier`; neither the DTO nor the consistency checks
  (`dashboard.controller.ts` 807-865) compare them, and then the half of the position meant to lock in profit
  early (`order-execution.service.ts` 365-370) has the farther target (`SymbolAnalysis!CrossedTargets`).

Other behaviours of the code the model reproduces, for which no document
promises anything else, and which therefore bound what the passing runs claim:

* A stop of the three attempts whose answer is lost rests at Binance while the call places another
  one, or closes in emergency and gives its trade up (`order-execution.service.ts` 253-348). It is in no row, nothing cancels it,
  and being reduce-only it waits for the symbol's next position. It counts for
  `NeverUnprotected`, for it does protect that position.
* The emergency path writes 'failed' over whatever the trade has become: a lost stop can
  trigger, and the stream or the poll record it, before the call has used up its attempts.
  So `FirstVerdictStands` excepts the call's own failure.
* A cancel of the stop that is carried out without an answer leaves a position without a stop after TP1: the
  move to breakeven ends there (monitor 398) and the row stays open. So the protection runs lose no answers of
  cancels.
* The request at `scanner.service.ts` 85 can throw after the flag is set and before the `try`: the process then
  scans no more, until a resume, a start or a restart lowers the flag.
* Positions are fetched (monitor 118) before the trades are read (122): a trade opened in
  between is recorded as closed while it is open (`LiveTrading!FinalizedIsFlat`, one
  trade, nothing fails).
* The risk engine counts the open trades when a candidate is judged (90),
  `approveLive` opens the trade much later and does not count; a scan judges ten
  symbols at a time, so two candidates that both find room become two trades
  although one is allowed (`Scanner!OpenTradesCapped`, one scan, two symbols).
* Two signals of one symbol pass both guards; the second entry fills, the index
  refuses its row, and the doubled part has neither stop nor row. So
  `NeverUnprotected` and `PositionIsBooked` are checked for different symbols.
* The monitor imports a position whose call is between entry and
  `trade.create`; that call is then refused and no stop is placed. So the
  protection runs have no import names.
* Cleanup can delete a cancelled signal that is still executing: the foreign key
  refuses the trade after the entry.
* `closeLive` takes a market close that failed for a position that is gone
  (trades 140-148), and it, `forceReconcileOpenTrades` and the failure branch of
  `approveLive` write the status without a guard. So `FirstVerdictStands` is
  about the stream, the poll and the holding limit, and `LiveProtected` has no
  failing close.
* A PATCH of the live-mode settings validates before an await and writes after
  it: a trade can be opened in between.
* `clearScannerLock` takes the flag from a running scan: the next scan starts
  beside it, in the same process. So `OneScanPerProcess` is about the time before
  any resume or start.
* `processSymbol` tests for a pause when it takes a symbol (the settings at 602 are the
  ones read then): a signal can be created after a stop has cancelled all
  others.
* A call refused after its signal was skipped, stopped or expired writes
  'active' over that status; the scanner may have created another signal
  meanwhile. So `ScanSignals` has pause and resume, but no skip, stop or expiry.
* Two PATCHes that each write one field of a pair are each consistent alone and leave
  an inconsistent row; so `WrittenTogetherFits` is about pairs one PATCH wrote.
* The schema's default `minRiskReward` of 2.0 exceeds the default first targets of the
  strategies (1.3 to 1.5), which the PATCH would refuse (807-865); the micro preset brings its own 1.3.
* A restart forgets the ban, and an answer lost under a ban leaves the breaker
  unaware (`unaware`).
* `closeListenKey` runs after `teardown` and reads the settings again: after a change
  of the mode it goes to the other exchange, and when the mode has changed back it drops the
  key a new stream uses. `StreamRecovers` excepts keys dropped again and again.
* The signal a scan publishes keeps the size and leverage of that moment; execution
  does not validate them again. Its reward is that of the strategy's stop, also
  where a fixed return replaces stop and targets.
* The last candle of a window is still forming, so a pattern may vanish after its
  signal is published. `priceNearFvg` and `priceNearOrderBlock` return the first hit, not the
  nearest. Ten dollars of distance outweigh a touch in `detectSwingLevels` (71-83), whose comment has
  proximity break ties only.
* A strategy is paused by losses in sequence, a result of zero included; the
  setting has a floor of five.
* An import has no stop, and a position whose emergency close failed has none.

## 5. What is proved

`SignalExecutionProofs` proves, for every set of signals, calls and symbols,
every rounding of quantities and every set of faults, actors and requests:

* `Invariance`: `Spec => []IInv`;
* `TypeCorrect`, `OneLiveTrade`, `ExecutedImpliesStop`, `FailedHasNothingKnown`,
  `StopHolds`: the five invariants of `ExecSafety`;
* `LedgerImplemented`: `Spec => Ledger!Spec`, the refinement.

Assumptions: `ConstantsAssumption` of `TradingState` (signals have symbols and a
quantity of 0, 1 or 2 lots, names of calls and imports differ, `None` is
neither a signal nor a symbol) and `ActorsAssumption` of `OrderExecution`.

Argument. The properties speak of rows, but what keeps them true is where the
calls are. `ExecutedHasStop`, say, is not inductive: from a state in which a
call stands at `executed` without a recorded stop, the next step breaks it.
`CallConsistent` therefore says for each location whether the call's trade
exists (`Unopened`, `Opened`), whether an answered order of it can be on the exchange
(`Stopless`, which leaves room for lost stops) and whether its stop is recorded (`StopRecorded`), and that no refusal writes
'live_executed'; `Claimed` says that a call past its claim has a signal. `IInv`
adds these to the properties. The lemmas of `ExecutionProofs` give each action's effect on the
state (`ChecksMove`, `TradingMoves`, `ControlSteps`), then the steps that touch one
conjunct are treated by that conjunct: the index for `OneLiveTradePerSymbol`,
the pause check for `StopHoldsTheRest`, whose step follows from the fact that
`pauseCheck` is the only way into the trading locations. The refinement maps
`trade.create` to `Open`, `FailTrade` to `Close` and everything else to a
stutter.

`LiveTradingProofs` proves the same refinement for the whole bot, `LedgerImplemented`, and
`TypeCorrect`, from the same two assumptions: for any number of calls, imports and symbols,
whatever Binance refuses or fills, however often the process dies. `SignalExecution` needed
the locations of one kind of actor; here the table is written by calls, the tick,
the handlers of fill messages, `closeLive` and the reconciliation. Each of them holds a
trade it read several awaits ago, and three (`closeLive`, the reconciliation, the failure
branch of `approveLive`) write its status without a guard, so a step is one of the ledger
only if that row was opened: a row written before it exists would be a trade that starts
closed, in no symbol. `IInv`
says it for everybody who has a trade in hand (`CallsExist`, `MonitorExists`, `HandlersExist`,
`CloserExists`) and for whatever hangs on a trade (`RowsExist`: order rows and resting orders).
Every step of every component writes the table in one of two ways (`TableStep`):
it opens a row under the unique index, or overwrites a row that exists with a status of a
trade that is over; the two are the ledger's `Open` and `Close` or stutter.

Who can replace a verdict is `OnlyThreeOverwrite`, which needs no hypothesis: a final status is
replaced only by the failure branch of the trade's own call, by `closeLive` or by the
reconciliation. `FirstVerdictStands` itself therefore does not hold for all constants;
`FirstVerdict` proves it, the call's own failure excepted, where the operator neither closes nor
reconciles, which is when the other two are not on their way (`NobodyOverwrites`). Requests may
fail or lose their answers at will.

`LifelongProtection` proves `NeverUnprotected` of `LiveTrading`, for any number of calls, signals
and symbols, where three actors besides the call take stops away and the market fills orders
in between. Its hypotheses are the cases in which the code breaks the promise:

* `NothingAmiss`, of the constants: no import while a call is between entry and `trade.create`, no lost
  answer of an entry, no failing market close (the emergency's, the holding limit's,
  `closeLive`'s), no cleanup, no crash, and refused stops and lost answers of cancels only where no
  stop is moved to breakeven (the run `BreakevenFailure` shows what a refusal there does). Every
  other answer may be lost, those of stops and closes too.
* `OneEntryPerSymbol`, of the behaviour: without it the second of two entries has no row and no stop.
* `EntersFlat`, of the behaviour: an entry meets no position. The monitor can record a trade as closed
  whose position is open (`FinalizedIsFlat`, section 4); a new entry would add to that position and its
  stop cover only the new part.

`OneCallProtected` derives both hypotheses on the behaviour for a single call, which is the
situation of the run `LiveProtected` with every permitted fault and every move of the market.
`Covered` cannot be followed by itself, for every step between the removal of a stop and its replacement
breaks it. The invariant `HInv` therefore says who answers for a position (`Held`): a call that
has filled it and not yet created its trade, or a trade which holds at least as much and is kept
(`Kept`), by a resting stop, by its call, by the monitor between cancelling and placing or closing, or by
`closeLive`. `CallsBooked` says that the trade's row is the position its call filled,
`OwnOrders` that `closeLive` cancels only orders of its own trade, `EntersAlone` that a call on its way
to `trade.create` finds no open trade. A step either leaves the keeper, passes the position to
another one, or reduces it by the whole quantity of its trade, which is to nothing. TLC
checked `HInv` on instances of one and two calls before the proof.

`ProtectionProofs` proves of `SignalExecution`, for all constants:

* `StopsStand`: an open trade belongs to a call that is at work, done or dead, and past the
  placing of its stop that stop rests at the exchange. Nothing is assumed.
* `Protected` (`NeverUnprotected`) and `Booked` (`PositionIsBooked`), under two hypotheses.
  `NothingLost`: the answer of an entry is not lost, the emergency close works, no cleanup, no
  crash. `OneEntryPerSymbol`: no two calls of one symbol are between the second duplicate guard
  and `trade.create`. Each of these is a case in which the code does leave a position without
  its stop or row (section 4 and the hazards), so none can be dropped; all other requests
  may fail or lose their answers, and stop, pause, skip, cancel and expiry interleave at will.

The inductive invariant `PInv` follows a position from its fill on: a call on its way to
`trade.create` finds no open trade (`EntersAlone`), once filled its lots are the position
(`Filled`), an open trade's lots are the position (`AllBooked`), and there is no position
that belongs to neither (`NoStray`).

`ScanLockProofs` proves, for any number of scans and processes and whatever
expires, is cleared, throws or dies, `OverlapOnlyAfterLoss`, `ScansExclude` and `FlagOwned` (`FlagHasScan`) from
`ScansAssumption`. The first two speak of scans in their body, but what excludes
them is decided at the lock and at the flag. `LockInv` therefore says that a scan which
has taken the lock holds it until it gives it back, unless it is in `lost`
(`HoldsUnlessLost`), and that without a clear the flag of a process is up while
one of its scans runs (`FlagIsUp`). `ScannerProofs` proves `LockImplemented`, that
the composed scanner takes only steps of `ScanLock` or leaves its variables
alone, so that `ScansOverlapOnlyAfterLoss` follows without another invariant, and
`ScannerTypeCorrect`, whose only difficulty is that a call launched by a scan always has the
signal the scan has just created. `OneSignalPerSide` says that as long as no scan has lost its lock,
and rests on who may add to the signals in flight: a scan that finds none (`Alone`), and a refused
call, which writes 'active' over whatever the signal has become. With two calls on one signal, or
with a stop or a skip under a call, TLC finds the property violated that way. `OneSignal` therefore assumes that no refusal
revives a signal (`NoneRevived`); `OneSignalUndisturbed` derives this from one call per signal at a
time and an operator who withdraws none, the conditions of the run `ScanSignals`.

`BackendProofs` proves all eight safety properties of the run `Backend`, `TypeOK`
included, for any number of requests, jobs, sockets, wallets, logins and PATCHes, from
`ClientAssumption`, `AuthAssumption`, `StreamAssumption` and `BackendAssumption`.
Four inductive invariants, one per component, because its variables change only in its own
steps, in a restart and where the stored mode is read (`AuthSteps`, `ClientSteps`, `StreamSteps`,
`SettingsSteps`):

* `AuthInv`: a nonce is stored for one wallet, and then it is neither unissued
  nor spent. That is why the login which deletes it is the only one to do so.
* `PatchTyped` adds to `AuthInv` what each location of a PATCH has established
  (`PatchOK`): past the guard its token had not ended when it was sent and its
  actor is the allowed wallet; past the validation its body is consistent, and
  stays so through `Normalized`, which proves `TogetherFits`.
* `ClientInv`: the breaker's two properties, and for a read of the position mode
  under way (`ModeInv`) that its answer is the account's mode unless it failed.
* `StreamInv`: a socket is attached exactly if it is `ws`, and at most one run of
  `supervise` is between its decision and its connection, with the flag up.

`SymbolAnalysisProofs` proves all five properties of the run `Analysis`, for all readings,
settings, accounts, results and PATCHes the assumptions of the module admit:

* `TypeCorrect`. The arithmetic of the strategies must not leave its types: candidates have a
  positive entry and whole stops and targets (`Candidates`), an allowed size is positive.
* `ConfidenceStays`: what the risk engine is asked carries the provisional confidence, and a
  candidate without messages gets the risk score the placeholder assumed.
* `SizesFit`, and the lemma behind it, `SizeWithinMaximum`: the step added when rounding has taken a size below
  the minimum never takes it past the maximum.
* `LossBudgeted`: the stop a size was computed for is the published one, or the leverage was
  patched in between.
* `TargetsLieAhead`: for each of the five strategies and both directions, from its gates and its
  stop to the order of stop, entry and targets; for fixed returns from the monotony of `FixedRoePrice`
  in the return. The settings of the strategies are arbitrary: any switch, threshold, longest stop and
  multiple within the bounds of its column (`BoundsAreNumbers`), which enter the order of the targets only
  by their comparison. Fixed returns need `FineTicks`: half a tick is worth less
  than the fees of one side. With coarser ticks rounding can take a stop onto the entry (a tick
  of 50 at a price of 10000), so the hypothesis cannot go; the symbols Binance lists meet it.
* `OneSidedWicks`: no candle is a hammer or pin bar for both directions.

The inductive invariant (`IInv`) says of every location what has been established
about the candidate in hand: `WaitingSound` and `Asked`, then `Carried` and `Budgeted` for the selectable
ones, `Created` for the published signal. The extremes of a window (`Lowest`, `Highest`) are taken
from the least-number principle of the natural numbers (`LeastNumber`), which
needs no induction theorem.

Only model-checked:

* `LockIsFreed` and all other liveness (fairness and ENABLED are beyond TLAPS):
  `ClosedIsNoticed`, `HoldingLimitIsKept`, `EntryIsResolved`, `OrphanIsAdopted`, `ApprovedIsTransient`,
  `TickEnds`, `BanEnds`, `StreamRecovers`, `StreamStops`.
* The result of the folds over candles (`Clustered`, `Atr`): what they compute for every input needs
  induction over data; the assumption `IsChart` says only that a reading has an ATR that is not negative and
  levels that were touched.

## 6. Abstractions

* Database requests do not fail. One-way position mode. Where positions are modelled the signals of one
  symbol share a direction; `Scanner`, where they do not, reads no position.
* Settings read and trades read at the start of a tick's stage are one step, as
  are the price and pnl requests of a finalisation and the cancels of one
  trade's orders. Rows with status 'filled' that record an entry or a close are not
  kept, nothing reads them.
* Every order, cancel and close may be carried out although its request times out, each kind under a
  name of its own in `Faults` (`entryTimeout`, `stopTimeout`, `takeProfitTimeout`, `cancelTimeout`, `closeTimeout`,
  `breakevenTimeout`). A lost take-profit rests under its own name, since nothing tries it again.
* Which status the catch block writes after an error of Binance depends on its
  message and is a free choice.
* `Signal.strategy` is NOT NULL, so the branch at 38-41 of `approveLive` is
  unreachable.
* One stop, one PATCH, one close or reconciliation is in progress at a time.
* The cooldown of the refill has no length: a closed symbol may or may not be
  cooling down.
* In `ScanLock` and `Scanner` requests to Redis may throw (`"redis"`), whether carried out or not;
  in `Authentication` they do not fail. They take effect in any order, also those one
  process has sent in sequence. A scan takes its symbols in any order. Its periodic writes of
  progress and statistics are left out.
* `reconcileStartupState` runs a tick and then only logs.
* Authentication is switched on (`dashboardAuthEnabled`) and a wallet is configured; without one the code
  accepts any. A signature is right or wrong as a whole.
* A unit of time in `BinanceClient` is longer than a request may take, so
  no time passes while an answer is under way.
* Moving averages, RSI, VWAP, volume ratios and divergence are free readings, which an
  instance gives as numbers. Fractions of a
  cent are dropped, and a target's reward is compared with a tolerance of one cent
  where the source has one of 1e-6.
* `applyWeekendOverrides` returns the settings as they are, and is left out.

## 7. Not modelled, and what is left of the plan

Not modelled:

* The scanner's volume prefilter (198-230) and `syncSymbols`, which decide which symbols a scan sees:
  sorting of tickers and upserts that no property of the other parts reads.
* Session windows other than the score of the hour: pure tests of a clock.
* Recursive indicators (EMA, RSI, VWAP): real-valued series; they are readings.
* Archiving, CSV exports, the late correction of pnl, the retry inside `fetchRealizedPnl`, symbol
  filters, the funding wallet (another host; errors are swallowed): no
  property reads their results.
* Symbol endpoints and read-only endpoints of the dashboard.
* Frontend, cleanup scheduler, logs, the schema's other tables.

Left to do:

1. `LiveTrading` with an import and a call of the same symbol in one liveness run.
