# TLA+ verification of the trading backend

This directory holds a formal model of the backend in `src/`: TLA+ modules
translated from the TypeScript and Python sources, TLC configurations that
check them on small instances, and theorems that TLAPS proves for every value
of the constants. `PROJECT.json` says, definition by definition, which lines
of the source each one stands for, and lists the hazards, runs, findings and
theorems that this document explains.

    tlc -workers 2 -config LiveSafety.cfg MCLiveTrading     # a run
    tlc -workers 2 -config Services.cfg MCServices          # the services beside it
    tlapm LiveTradingProofs.tla                             # the proofs of a module

## 1. The system

The backend is a NestJS application that several instances may run of, with
Postgres (Prisma) behind it, BullMQ queues in Redis, and two Python services:
the analysis agents and the MT5 worker that talks to a broker terminal. A
signal goes through it like this:

    candles --CANDLE_CLOSED--> technical-analysis job --> decision record
       --> signal-generation job --> Signal (CREATED)
       --SIGNAL_CREATED--> risk-evaluation job --> RiskAssessment, AgentDecision
       --RISK_EVALUATED--> supervisor-decision job --> SupervisorDecision
            PAPER mode     --> paper-trading job  --> PaperTrade, account balance
            ASSISTED mode  --> PENDING_MANUAL_APPROVAL --> a person approves
                               --> paper job, or broker dry run, or nothing
       LIVE mode: an administrator calls POST /live-trading/signals/:id/execute
                               --> LiveTrade, order at the MT5 worker

Everything in `--EVENT-->` passes through an in-process event bus that awaits
no listener. A service runs without interruption from one await to the next on
its own instance; at an await, and at any moment on another instance, anything
else may happen.

### Inventory

"Model" names the modules of this directory.

| Component | State | Operations | Hard behaviours | What makes it correct | Model |
|---|---|---|---|---|---|
| Live trading (`live-trading.service`, its guard, controller) | `LiveTrade`, `LiveTradingLimits`, broker log | execute a signal; update limits | checks and insert of concurrent requests; config read once; timeout after a filled order; a catch that writes | one active trade per symbol, daily limit, only approved orders, books that agree with the broker, nothing left reserved without a reason | `LiveTrading`, `LiveSlot` |
| Broker service and MT5 connector | broker log | live order with timeout, dry run, queries | lost and late answers | an unanswered order is not taken for executed | `LiveTrading` |
| MT5 worker (Python) | the terminal | order endpoint, account, symbol, price | partial fills, disabled trading | outcome reported truthfully | `LiveTrading` |
| Paper trading (engine, processor, producer) | `PaperTrade`, `PaperTradingAccount` | open from signal, close, evaluate a candle | no transactions; jobs retried and run 5 at once; manual close against candle | one open trade per instrument, profit or loss booked once, balance explained | `PaperTrading`, `PaperLedger` |
| Assisted trading | `ManualTradingDecision`, signal status | approve, reject, execute | two people decide at once; half-done approvals | one decision per signal, execution only after it | `DecisionFlow`, `TradeConsent` |
| Supervisor | `SupervisorDecision`, `AgentDecision`, signal status | decide by call or job | call against job, interrupted attempts, mode changes | one decision, an `OPERATE` is carried out, never a `BLOCK` | `DecisionFlow`, `TradeConsent` |
| Risk | `RiskAssessment`, `AgentDecision`, signal status | evaluate by call or job; position size | repeated and late evaluations | no approval without an approved assessment; sizes within the risk | `DecisionFlow`, `TradeConsent` (sizes are a choice) |
| Queues | BullMQ jobs, in-memory debounce | add with a job id, attempts, kept failures | failed job keeps its id; debounce set before the add | no step of a signal lost or doubled | `DecisionFlow`, `MarketData`, `SignalPipeline` |
| Event bus | listeners | emit, on, unsubscribe | listeners not awaited | lost events are the only lost steps | `DecisionFlow`, `MarketData`, `SignalPipeline`, `RealtimeStream` |
| Signals | `Signal` | create (unique candle key), update status | any status over any status | one signal per candle | status in `LiveTrading`, `PaperTrading`, `DecisionFlow`; creation in `SignalPipeline` |
| Signal generation, strategies | — | generate from a decision; EMA trend rules | two jobs for one candle; candles read anew by each attempt; rules written once per direction | one signal per candle, not older than its decision; both directions agree | `SignalPipeline`, `EmaTrend` |
| Market data | `MarketCandle`, `MarketDataSyncJob` | sync by call and by job, store candles, ask for an analysis | dying between candles and job row; a run that finds its candles already there; debounce | a stored candle is analysed; only earlier jobs silence an event | `CandleFeed`, `MarketData` |
| Technical analysis agent | decision records | analyse by call or job | jobs that read newer candles than they were added for; dying before the event | an added job is analysed | `SignalPipeline` (its statistics are a choice) |
| Backtesting | run, trades | run over candles, compute metrics, store | entry a candle after the signal; candles that reach stop and target; two statements to store | trades are what the prices say; row and trades agree | `Backtest` |
| Risk profile | `RiskProfile` | read, update the active one | — | limits used by the risk agent | a choice in `DecisionFlow` |
| Authentication | `AuthRefreshToken` | login, refresh, logout | two refreshes with one token | a revoked token stays revoked, a replaced one names its successor | `AuthSessions` |
| System configuration | `SystemConfig` | get, update | read once and used later | the kill switch stops execution | `LiveTrading`, choice in `DecisionFlow` |
| Fundamental agent, economic events | `EconomicEvent` | create, update, delete, look for a blocking event | calls that overlap between a write and its event | whoever is connected hears of every write | `EconomicCalendar`; its use by the supervisor is a choice in `DecisionFlow` |
| Realtime events | listeners and connections | connect, forward, leave | clients that come and go meanwhile | nobody loses or doubles messages | `RealtimeStream` |
| Analytics, performance, logs, instruments, agents' views | — | read-only views | — | — | not modelled |
| Health, env validation, Prisma service, exception filter | — | glue | — | — | not modelled |

### Where components meet

* Calls: live trading → guard, broker service → connector → worker; assisted
  trading → signals, paper queue, broker dry run; supervisor's processor and
  controller → paper queue.
* Rows that one component writes and another reads: the signal's status (every
  agent, and `PATCH /signals/:id/status` by anyone, over any status), the
  `AgentDecision` approvals of risk and supervisor (paper engine), the risk
  assessment, supervisor decision and manual decision (live guard), the system
  configuration (live guard, supervisor, assisted trading).
* Events that make a queue's producer add a job: `CANDLE_CLOSED`,
  `TECHNICAL_ANALYSIS_COMPLETED`, `SIGNAL_CREATED`, `RISK_EVALUATED`. Events
  that only the stream forwards: those of trades, jobs, settings, economic
  events and the log.
* The strategy is shared by signal generation and backtesting.

The hazards that follow from this are listed in `PROJECT.json`, each at its
line, with the properties that cover it, or the reason why none does. Some of
them have none because the code does what the hazard warns of and nothing says
that it should not: a debounce entry for a job that was never added, a sync that
dies after its candles are stored, a backtest whose second statement fails, a
status that changes after it was read. An event lost between a row and its job
is of the same kind. The properties about these parts name the case as an
exception, so they would not notice it; what they say is that it is the only
one.

## 2. Plan

In order of what a mistake costs:

| # | Modules | State | Abstract specification | Runs | Theorems |
|---|---|---|---|---|---|
| 1 | `LiveSlot`, `LiveTrading` | done | `LiveSlot`: exclusive slots | `live_*` | types, exclusion, reservation, approvals, books, faults, the daily limit, refinement |
| 2 | `PaperLedger`, `PaperTrading` | done | `PaperLedger`: what calls do not cross on is opened, closed and booked once | `paper_*` | types, approvals, nothing unbooked or invented, what an evaluation leaves; the engine's rules and refinement, with the crossing of calls as their only exception |
| 3 | `TradeConsent`, `DecisionFlow` | done | `TradeConsent`: approved, decided, consented, requested | `flow_*` | types, no false approval, no unjustified trade, approvals recorded, no signal, `OPERATE` or manual decision forgotten, the status of the decision, refinement |
| 4 | `CandleIds`, `CandleFeed`, `MarketData`, `SignalPipeline` | done | `CandleFeed`: candles are added, and analyses asked for of stored ones | `services` | debt of analyses, debounce, refinement; one signal per candle, forward only |
| 5 | `EmaTrend`, `Backtest` | done | a look back at the whole price series (`TradesReplay`) | `services` | the strategy's two halves; types, trades and rows of a backtest |
| 6 | `AuthSessions` | done | — | `services` | sessions accounted for, revoked stays revoked |
| 7 | `RealtimeStream`, `EconomicCalendar` | done | — | `services` | types, what clients hear |

Two further steps are open. Several signals in `DecisionFlow`, composed with
`PaperTrading`, would follow the supervisor's count of open trades to the trades
themselves; what the two have to agree on for one signal is said by
`ApprovalsRecorded` (the approvals a paper job looks for) and `PaperLedger` (the
books). The arithmetic of risk and position size would be pure functions against
reference definitions.

A module that is proved about, and every module it uses, has no recursive
operator. The runs are kept few, one per question. The modules of 4 to 7 share
no variables, so one run explores them side by side (section 4).

## 3. Modules

Each component module has one action per handler step between two awaits, and
is parameterised by CONSTANTS with a named assumption. Where a definition has
a *variant* in front of it (the comment says so), the variant is a plausible
mistake in that piece of code; nothing in the specification uses it. It is
there to show that a property notices the mistake (`mutants` in
`PROJECT.json`).

### LiveTrading (and LiveSlot)

A request is one call of `executeLiveFromSignal`; `pc` walks through it:

| `pc` | Code | Actions |
|---|---|---|
| idle → config | confirmation text, start | `WrongConfirmation`, `Request` |
| config | `validateLiveExecution`: env flags and `SystemConfig`, read with the plain client | `ReadConfig` |
| snapshot → reserve | the guard's other reads, in a Serializable transaction | `WrongUser`, `TakeSnapshot` |
| reserve | create of the `LiveTrade` and commit, or P2034 | `Commit`, `Abort` |
| blocked | the first catch | `LogBlocked` |
| logValidation, logPlace | log entries, the first inside the first `try`, the second in none | `LogValidation`, `LogPlaceOrder` |
| send, await | the connector's POST and its timeout | `SendOrder`, `ReceiveAnswer`, `Timeout` |
| logResponse, markExecuted, markSignal | the second `try` | `LogResponse`, `markLiveTradeExecuted`, `MarkSignal` |
| failing, markFailed | the second catch | `LogFailed`, `markLiveTradeFailed` |

The worker (`WorkerFills`, `WorkerFillsPartly`, `WorkerRejects`,
`WorkerRefuses`) answers an order whether or not anyone still waits. `Crash`
ends a request anywhere. Others grant approvals, override the signal's status,
change configuration and limits, and midnight passes.

*Serializable.* Postgres takes one snapshot and aborts a transaction that
cannot be ordered among the committed ones. `TakeSnapshot` evaluates all reads
at once; `missed` collects the reservations that commit afterwards; `Commit` is
forbidden on a `Conflict`: two reservations that each miss a row the other
reads. Postgres may abort more often, so `Abort` is always possible. It tracks
conflicts among Serializable transactions only, and the reservation is the only
one the program has; the other writers run at the default isolation level and
are left out of `Conflict`.

*Finer than the model.* `dayStart` (guard, line 144) is computed a few reads after
the snapshot; the model takes both at one moment. After a midnight between them the
guard would count the rows of the new day, of which its snapshot has none; those
reserved meanwhile are in `missed`, a conflict as before, and the row is created later
still, on that day. A statement that goes through although its client sees an error
is not a case of its own: for the reservation it is `Commit` followed by a failing
`LogValidation`, which the same catch receives; for the row of the trade it is the
write followed by the failure of the next statement; for the status of the signal it
is a failing `MarkSignal` beside an override by someone else.

*Not in the model:* the amounts of a request (risk amount, stop distance), the
log's contents, and the daily loss: it sums rows with the status CLOSED,
which no statement of the program ever writes, so it is 0 (`DailyLoss`).

`LiveSlot` is what the reservation promises to someone who does not look
inside: a symbol is a slot held by one request at a time, never handed over
without being free in between, and a request that gave up does not claim
again. `HolderOf` maps the table to the slots.

### PaperTrading (and PaperLedger)

A call is a run of `openTradeFromSignal`, `closeTrade` or
`evaluateOpenTradesOnCandle`. Openers and evaluators may be jobs of the queue
(`Jobs`). One that throws is put back until its attempts are used (`Throws`); one
whose worker dies is put back too, which uses no attempt but may happen `MaxStalls`
times only (`Dies`). The program's own exceptions are
made unrecoverable by the processor, so `Check` ends the call for good. The
signal that an opener is for (`target`) is chosen in `Init` from `SignalsOf`. One
step stands for one statement:

* opening: `ReadSignal`, `CheckExisting`, `CheckInstrument`, `CheckApprovals`,
  `CreateTrade` (`signalId` is unique: a second row is an error), `Recount`,
  `Restate` (`recalculateAccountEquity`), `MarkSignal`;
* closing: `FindTrade`, `ReadAccount`, `CloseTrade` (by id, whatever the
  status), `UpdateBalance` (from the balance read earlier), `Recount`, `Restate`;
* a candle: `FindTouched`, then `NextTouched` and a closing for each trade.

Four history variables look at it from outside: `booked` is what was ever added
to a balance, `unbooked` the trades whose closing call ended between the two
writes, `due` what each balance would be with everything booked on it, and
`explained` all it could be with some of that. A fifth, `crossed`, remembers where
calls got in each other's way. The engine checks and acts in separate statements: it
looks for an open trade on the instrument and creates one (`Entering`), looks whether a
trade is open and closes it (`Shutting`), reads a balance and writes one back
(`Holding`). Two calls that are between the two at once, on the same instrument, trade or
account, have crossed on it. Each step of a call is followed by `Cross`, which changes
nothing else.

`TradesApproved`, `BalanceExplained`, `ClosedIsBooked` and `ListsAreClosed` hold
whether calls cross or not. `RulesUnlessCrossed` says of the three rules that
concurrent calls break (the findings `paper_instrument_race` and `paper_double_close`
break two of them) that *only* crossing breaks them, and only for what was crossed on:
interruptions and retries, or calls on other instruments, trades and accounts, never
do. With a single worker that runs one job at a time, and no manual close beside it, nothing
crosses, and the rules hold as they stand.

Prices are small integers, a size is 1 in the runs. The open trades' unrealised
results that the equity could include are null in the code and add nothing.

`ListsAreClosed` says why an evaluation may leave trades behind that its candle
touches: `closeTrade` throws when it finds a trade closed, the loop ends, and the
queue does not retry the exception.

`PaperLedger` is the books without the calls: a trade is opened where its instrument
has none open, closed once, and what is stored with it is added to its account (`owed`),
or lost with the call that owed it; nothing else moves a balance. Each of these has the
exception of what was crossed on, and no other. The trades a call is about to book are
what is owed.

The query for a candle's trades returns 200 at most; the model lists all of them. The
engine never opens a second trade on an instrument whose open trade it sees, so 200 are
exceeded only by more than 200 calls that crossed on one instrument.

### DecisionFlow (and TradeConsent)

One signal from `SIGNAL_CREATED` on. An activity is a call of an endpoint or
the job of a queue: `Evaluating` (risk agent), `Deciding` (supervisor),
`Assisting` (approve, reject and execute). Jobs are keyed by the signal, a
failed one keeps its id (`Add` does nothing then), events are delivered to a
listener that may fail to add the job (`Lose`), the enqueue endpoints may add
a job at any time (`Enqueue`). An attempt of a job that throws (`Throws`) uses one of
`MaxAttempts`; one whose worker dies (`Dies`) does not, and a job survives `MaxStalls`
of these. `interrupted` holds the activities that ended *halfway*, after their first
write and before their last one (`Halfway`): an attempt that ended before it wrote, or
the loser of a unique key, leaves nothing behind and excuses nothing. `hasty` records
that a job of the supervisor was enqueued, by the endpoint, before there was an
assessment.

The configuration is changed by administrators at any time, so a read of it
returns any member of `Settings`. What the agents compute from numbers (risk
and reward, drawdown, confidence, open trades, economic events) is a choice
among the outcomes the branches leave: the supervisor blocks without an
approved assessment or with trading off, and otherwise may operate, wait or
block. `PENDING` stands for PENDING_MANUAL_APPROVAL. The paper job is only
requested here; what it does is `PaperTrading`. It asks for the `AgentDecision` rows of
risk and supervisor (`agents`), which are written after the assessment and the decision
that let the next activity go on; `ApprovalsRecorded` says who is about to write them
when they are missing.

`TradeConsent` is what remains without places, rows and retries: an approved
assessment, one decision in one mode, a person's consent and the request of a trade.
Their order is all that it prescribes. The status of the signal is not part of it, for
every activity writes it blindly; `StatusShowsDecision` says when it nevertheless
shows the decision, and which disturbances may hide it.

### CandleFeed, MarketData and SignalPipeline

Candles of one instrument and timeframe are the numbers `Candles`; the exchange
has them up to `clock`, the last one still forming.

`CandleFeed` is all that the analysis side needs to know of market data: a step
may store candles, or ask for the analysis of a stored one, or both.
`MarketData` is the detailed machine behind it:

| `at` | Code | Actions |
|---|---|---|
| idle, add, queued | `execute` or `enqueue`: the row is created, the job added | `StartSync`, `AddSyncJob`, `RunSyncJob` |
| fetch, insert | the provider's answer; `createMany` that skips what is there | `FetchCandles`, `InsertCandles` |
| complete, find | the row is COMPLETED; the newest candle is looked up and the event emitted | `CompleteSync`, `EmitSynced` |
| failing | the catch | `MarkSyncFailed` |

`SyncDies` interrupts any of them. A queued sync that dies once it has emitted, but
before its job is completed, is run again too, and emits again if newer candles came
meanwhile; the model takes it as done. A second queued sync of the same range, which the
runs have, does to candles and events what that second run would do. The other emitters are `createCandle`,
`createBulk` and `enqueueAnalysis`. The producer's listener is `Debounce` and
`AddAnalysisJob`, with a gap between the debounce entry and the job in which
other events are skipped, and `ListenerThrows`. `ForgetRecent` ends a window.

`SignalPipeline` extends `CandleFeed`: it takes candles and jobs as they come.
An analysis (`ReadCandles`, `StoreDecision`) and a generation (`ReadLatest`,
`findByCandleKey`, `CreateSignal`) are jobs with attempts or calls of an
endpoint; neither carries candles, each reads the newest when it runs.
A job id that is still in the queue, also as a failed job, ignores a second
add; a completed job is removed and its id is free again (`Ended`).
`AddGenerationJob` is the listener of `TECHNICAL_ANALYSIS_COMPLETED`.

### EmaTrend and Backtest

`evaluate` is the strategy as a function from a reading (EMAs, RSI, ATR, the
nearest levels, the closes, three flags, and the parameters of the strategy's active
version) to a verdict. It has the code's two
hand-written halves. Multiples of the ATR are in tenths, the confidence is
counted as the code counts it, and "closer than 0.3 per cent" is cross-multiplied.

`Backtest` extends it with the loops of `run`, a step for each element:

| `stage` | Code | Actions |
|---|---|---|
| idle | the checks and the row of the run | `createRun` |
| candles, `index = 0` | a turn of the loop over candles, or its end | `NextBar`, `closeRemainingTrades` |
| candles, `index > 0` | the loop over open trades, the latest first | `closeTriggeredTrades` |
| metrics | the loop over the balance | `maxDrawdown` |
| trades, complete | the two statements that store the outcome | `createTrades`, `completeRun` |
| failing | the catch | `failRun` |

A candle is chosen when the loop reaches it. A signal opens its trade at the
close of the *next* candle, so the model lets it wait in `pending` until then.
Amounts are integers and `Rounded` does what `toFixed` does, to a coarser unit.
`drawdown` is where the loop over the balance is, the peak and the deepest fall so
far; a fall is a fraction, and `Less` compares fractions. The code puts the
closed trades into a list of their own before it books them; nothing happens in
between, and the model books each at once (`Booked`). Each statement may throw, and the
process may die at any stage.

### AuthSessions

A request is a login, refresh or logout; a refresh is `findToken`,
`createToken`, `revokePrevious` and `respond`. `carried` is the token it came
with, and `raced` collects refreshes whose token another request spent while
they were under way. A token is a row or not yet one; hashes always match, since
nobody else can sign a token, and whether a user is active is a choice.

### RealtimeStream and EconomicCalendar

`RealtimeStream` is one observable per client: `stream` subscribes it to every
forwarded event in one go, `Delivered` is what an emission does to the clients,
`unsubscribe` is the teardown. `Forwards` is the table of events and messages.
`EconomicCalendar` puts it together with a service that emits: a write, and in a
later step its event; an evaluation emits one event or two, in one go. `written`,
what was written or found so far, and `since`, how much of it there was when a
client connected, are history variables.

### How they fit

`DecisionFlow` ends where `PaperTrading` and `LiveTrading` begin: both start
with approvals that may appear at any time (`Grant`) and statuses that anyone
may write (`updateStatus`), which includes every order in which
`DecisionFlow` produces them. `SignalPipeline` ends with `SIGNAL_CREATED`, where
`DecisionFlow` begins, and begins with `CandleFeed`, which `MarketData`
implements. `Backtest` runs the `evaluate` of `EmaTrend`; `EconomicCalendar` is
one of the emitters of `RealtimeStream`, which stand for the others by
`EmitElsewhere`.

## 4. Runs

| Run | Configuration | Checks | Distinct states |
|---|---|---|---|
| `live_safety` | 2 requests, 2 signals on 1 symbol, 2 approvals | `TypeOK`, `OneActivePerSymbol`, `ReservationHeld`, `BooksMatchBroker`, `StuckOnlyByFault`, `OutcomeStands`, `SlotSpec` | 450 thousand |
| `live_quota` | 2 requests, 2 symbols, limit of one a day switched off and on, one midnight | `ReservationsWithinLimit` | 1.5 million |
| `live_liveness` | 2 requests, 1 symbol, fairness | `ReservationsResolved` | 30 thousand |
| `live_kill_switch` | as above | `KillSwitchCutsExecution`: **violated** | |
| `live_positions` | as above | `OnePositionPerSymbol`: **violated** | |
| `paper_concurrent` | 2 opens of one signal or of two of one instrument, a close, a candle, 2 approvals; 2 at a time | `TypeOK`, `TradesApproved`, `BalanceExplained`, `ClosedIsBooked`, `ListsAreClosed`, `LedgerSpec` | 1.4 million |
| `paper_evaluations` | 2 opens on one instrument and 2 accounts, the job of a candle with 2 attempts and 1 stall; 2 at a time, fairness | `RulesUnlessCrossed`, `TouchedTradesClose` | 195 thousand |
| `paper_instrument_race` | 2 jobs at a time | `OneOpenPerInstrument`: **violated** | |
| `paper_double_close` | a close and a candle at a time | `BookedOnce`: **violated** | |
| `flow_decides` | both jobs with 2 attempts and 1 stall, a supervisor call, a manual call, 1 extra event | `TypeOK`, `AgentMatchesDecision`, `EvaluatedIsDecided`, `OperateIsCarriedOut`, `ApprovalsRecorded`, `StatusShowsDecision`, `ManualDecisionSettles`, `ConsentSpec` | 1.9 million |
| `flow_duplicates` | 2 manual calls | `OneManualDecision`: **violated** | |
| `services` | one part per behaviour, see below; fairness | `TypesOK`, `AnalysisOwed`, `SkipsCovered`, `SyncsSettle`, `FeedImplemented` (`MarketData`); `AddedIsAnalysed`, `MovesForward`, `SignalsExplained`, `JobsEnd` (`SignalPipeline`); `EmaMirror` (`EmaTrend`); `TradesReplay`, `RowHonest` (`Backtest`); `SessionsAccounted`, `SpentStaysSpent` (`AuthSessions`); `ClientsHear` (`EconomicCalendar`) | 449 thousand |

`services` is one run of several machines that share nothing: `MCServices`
picks the part in `Init`, and the variables of the other parts stay as they
began. Its parts are:

| Part | Instance | Distinct states |
|---|---|---|
| market | 2 syncs, direct or queued, over 2 candles, limit 2; 1 call of another endpoint; 1 fault | 35 thousand |
| pipeline | 2 candles, 1 call, 2 decisions, 2 attempts, 1 fault | 206 thousand |
| strategy | 2270 readings: EMAs that agree and do not, edges of the RSI ranges, levels at and beside the 0.3 per cent, both volatilities, steady, unsteady and too few closes, two versions of the parameters | 2271 |
| backtest | 5 candles of 3 shapes, 3 readings, all of the balance at risk | 108 thousand |
| auth | 3 requests, 3 tokens | 26 thousand |
| calendar | 2 calls over 2 events, 2 clients, 1 event from elsewhere | 72 thousand |

Some invariants of section 5 are in no run, because one of its properties says
more: a behaviour of `TradeConsent` with `ApprovalsRecorded` gives `PaperJobJustified`;
and approvals are only ever added, so `OrdersApproved` says of an order no more than
`Permitted` said of its request. `OneOpenPerInstrument` and `BookedOnce` are the parts
of `RulesUnlessCrossed` without their exceptions, and are found violated.

### Bounds, and why they are enough

* *Two of everything that competes.* Every exclusion property here is about
  pairs (two requests on a symbol, two calls on an account, two deciders). Two
  show every pairwise race; what three would add (a chain of conflicts) is
  covered by the theorems, which have no bound.
* `MaxDay = 1`: one midnight, which is where the day of the count and the day
  of the row can differ.
* `MaxAttempts = 2` instead of 3: one retry distinguishes a first attempt, a
  repeated one and the last one.
* `MaxStalls = 1` is BullMQ's default: the second dead worker fails the job.
  `paper_concurrent` has none, its candle has one attempt, and `paper_evaluations` has
  the retries.
* `MaxRunning = 2` is every pair of calls that may get in each other's way: two opens, an
  open and a close, an evaluation and the call that closes a trade of its list. More at
  once (the default concurrency is 5, in each instance, and endpoints beside it) is what
  the theorems cover, all of which hold for any `MaxRunning`.
* `MaxExtras = 1`: one interruption, lost event, early enqueue or override per
  behaviour of `flow_decides`, each of them anywhere. The properties name the
  excuses one by one, so a second one would only add excuses; the theorems
  about the module have no such bound.
* `services`: two syncs show every pair of overlapping runs, and `MaxCandle = 2`
  the older and the newer candle that all hazards there are about. Two decisions
  and two attempts make duplicates, retries and a last attempt. Five candles are
  a signal, its entry, two candles that may close it, and the end; the shapes
  include one that reaches stop and target and one that gaps past the stop;
  all of the balance is at risk (`RiskPercent = 100`), so that losses, drawdown
  and a balance at or below zero occur within them. Three tokens are
  a session, its successor and that of a racing request. Two clients show that
  one's leaving does not silence the other.
* `Requests` are symmetric in the safety runs of `LiveTrading` (nothing tells
  them apart but their signal, which is chosen in `Init`), and so are the two
  opens of `paper_concurrent`, which name any of its signals; no symmetry where liveness is checked.
* Deadlock is checked except in the runs of `DecisionFlow` and `services`, in
  which everything ends. In the other modules others can always change a setting or a status.

### Fairness

* `LiveTrading`: weak fairness of `Advance(r)`. A started handler goes on: its
  database statements settle and the connector's request has a timeout.
  Nothing is assumed of the worker, administrators or callers; `Crash`
  is not excluded, so the properties hold with crashes, and name them where
  they make a difference.
* `PaperTrading`: weak fairness of `Advance(c)` and `Resume(c)` (each with `Cross`): the
  worker takes a waiting retry again. Interruptions are not excluded.
* `DecisionFlow` has no fairness. Everything in it ends, so what must happen is
  stated of the states in which nothing is left to do (`Quiet`).

* `services`: weak fairness of a sync's and a listener's own steps
  (`SyncStep`, `ListenerStep`) and of the workers of the two queues
  (`AnalysisStep`, `GenerationStep`). Awaited statements settle and BullMQ hands
  waiting jobs, also those of a dead worker, to a live one. Nothing is assumed
  of callers, of the exchange or of the end of a debounce window.

### Findings

* `live_kill_switch`: the configuration is read once, before the transaction.
  An administrator switches the kill switch on after that, and the order is
  sent. The README of the backend says that it cuts execution.
* `live_positions`: any error of the broker call marks the trade FAILED, also a
  timeout after which the worker fills the order. The guard does not count
  FAILED trades, so a second order goes out on a symbol with an open position.
  The backend's README says that a FAILED attempt does not block a retry; that the
  attempt may have opened the position is what it does not say.
* `paper_instrument_race`: the check for an open trade on the instrument and
  the create are two statements, and the queue runs five jobs at once.
* `paper_double_close`: the status is checked in one statement and the row
  updated by id in a later one; a manual close and a candle both add the
  trade's result.
* `flow_duplicates`: the check for a manual decision and its create are two
  statements, and the column is not unique.

Also worth knowing, although no text in the repository says otherwise: a failed
log entry before `markLiveTradeFailed` leaves a REQUESTED row that blocks its
symbol (`StuckOnlyByFault` names it), an EXECUTED trade becomes FAILED when the
update of its signal throws (`OutcomeStands`), and a decision whose attempt
dies after the row was written is never carried out (`OperateIsCarriedOut`).
`TouchedTradesClose` has an exception beside a job that gave up: an evaluation whose
next trade was closed by someone else ends with the error of that trade, which the
queue does not retry, and leaves the trades after it open (`ListsAreClosed`: for no
other reason). A paper job may find the risk approval missing, for good, because the
evaluation had stored its assessment and not yet the approval (`ApprovalsRecorded`).
A supervisor call that finds the assessment between its create and the status update
(risk-agent.service.ts:104 and :138) may set PENDING_MANUAL_APPROVAL, which the risk
agent then overwrites with APPROVED: the signal no longer waits for a person, and
`approveSignal` refuses it. `Undisturbed` excludes such calls from
`StatusShowsDecision`; the jobs alone cannot do this, because the event that starts
the second is emitted after the status is written.

`services` has no violation; what it shows is worth knowing nevertheless:

* A sync that dies after the candles are stored leaves a RUNNING row for ever,
  and a later run for the same range stores nothing and asks for no analysis:
  `AnalysisOwed` and `SyncsSettle` name it.
* The debounce swallows a newer candle for an older one's job, and for a job
  whose add failed. It is never extended by an event that it swallowed.
* A job analyses the newest candle, not the one in its id (`AddedIsAnalysed`),
  and a generation may pick a newer candle than its decision saw
  (`MovesForward` says that it never picks an older one).
* A decision whose event is lost, or whose process dies before it, never becomes
  a signal (`JobsEnd`).
* Two refreshes with one token both succeed: one login has two living sessions
  (`SessionsAccounted`). A logout does not reach the second.
* A backtest whose entry gaps past the stop is sized by the distance that is
  left, and still loses no more than its share (`TradesReplay`); but one
  that gaps past its target is closed there as a WIN with a negative result, and
  the balance may become negative, after which sizes are negative too:
  a negative balance turns the sign of a result round, and bounds no loss
  (`TradesReplay` says both), and `RowHonest` speaks of falls to balances that are
  not negative.
* Messages may arrive in another order than the writes they tell of: an
  UPDATED may follow the DELETED of its row (`ClientsHear` counts them).

## 5. Proofs

All theorems hold for every value of the constants, under the named assumption
of each module (`LiveTradingAssumption`, `PaperTradingAssumption`,
`DecisionFlowAssumption`, `MarketDataAssumption`, `SignalPipelineAssumption` and
those of the other modules: kinds of calls are disjoint, functions have their
domains, bounds are natural numbers). In particular, sets of requests, signals
and calls need not be finite, and nothing bounds how often anything happens
except attempts.

**LiveTradingProofs.**

* `TypeCorrect`: the types.
* `ExclusiveSymbol`, `HoldsWhileWorking`: `OneActivePerSymbol` is not inductive,
  for nothing in it says why a commit finds its symbol free. The invariant
  `IInv` adds that a request about to commit has in `missed` every active row
  on its symbol (`SnapshotSound`), that rows exist only after a commit
  (`NoRowYet`) and that a working request keeps its row active
  (`ReservationHeld`, without which a FAILED row could turn EXECUTED). An
  active row on the symbol is then a conflict, and `Commit` is not allowed on
  one. Most steps only have to be shown *quiet* (they reserve nothing and
  forget nothing).
* `OnlyApprovedOrders`: approvals are only ever added, so what the snapshot saw
  still holds when the order is sent (`ApprovalInv`).
* `BooksFollowBroker`, `OnlyFaultsStick`: `BooksInv` says, for each place of a
  request, what its row, its order and its recorded faults may be.
* `OutcomesStand`: the action property, from the same invariants (`RowSteps`).
* `QuotaRespected`: a request about to commit read a limit that exceeds the number of
  the rows of its days that it does not miss (`RoomLeft`). That number never grows: a
  row that is reserved after the snapshot is missed. A commit whose day has a row it
  misses is a conflict, so the rows of its day are those it counted and its own.
  Counting needs finite sets: each step adds one row at most, so the rows are finite
  though `Requests` need not be.
* `ImplementsSlot`: every step is a claim, a release or a stutter of `LiveSlot`.
  The holder of a symbol is a CHOOSE, unique because of `OneActivePerSymbol`.

**PaperTradingProofs**, with any number of calls at once, interrupted and retried:

* `EngineTyped`: needs that each kind of call keeps to its own places, that a
  call that goes on has an attempt left, and that an evaluation has a price for
  each trade on its list.
* `OnlyApprovedTrades`: approvals do not go away between check and create.
* `NothingUnbooked`: the strengthening `Accounted` ties the amount stored in the
  row to the price the closing call works with; without it a second close that
  overwrites the amount would break the argument.
* `NothingInvented`: a balance that a call has read, and may write back later, is
  one of the `explained` ones, and these only grow.
* `ListsEnd`: the invariant `Lists` follows an evaluation from its list on. Every trade
  on it is open or was taken by another call (`ClosedByOther`, which never becomes false
  again: who is about to book, books or is interrupted); the trade that the evaluation
  itself works on is no longer on the list; and the price it closes at is positive,
  because trades are opened from positive terms (`TradesTradable`). So only a trade
  that was taken makes it give up early.

* `RulesKept`: `RulesUnlessCrossed` is not inductive, for it says nothing of the calls
  that are about to act. The invariant `UInv` does: unless calls crossed on it, an
  instrument that a call found free is still free (`StillFree`), a trade it found open
  is still open (`StillOpen`), the booking it owes is of the stored amount and nobody
  else's (`SoleBooking`), and the balance it read is still the balance (`StillRead`).
  Whoever could undo one of these would have to be at the same place, which
  `CrossingsRecorded` puts into `crossed`; and what is booked is closed (`BooksClosed`),
  so no later call finds it open.
* `LedgerKept`: from `UInv`, each step is one of `PaperLedger` or a stutter. What is owed
  changes when a call enters or leaves its booking (`Owing`); the amount it adds is the one
  stored with the trade (`SoleBooking`), the balance it adds to is still the balance, and
  the balance that a recalculation writes back is the one that is there (`StillRead`).

**DecisionFlowProofs**, with any number of calls, attempts and interruptions:

* `FlowTyped`: needs that a job runs only while the queue holds it as active and
  that attempts are left then.
* `NoFalseApproval`, `NoUnjustifiedTrade`: for each place of an activity, what is
  still true of what it read: a decider's assessment is still on record, its
  OPERATE follows from an approved one, and once it has written the decision,
  the row is its own (`Deliberated`); a manual call that got past its checks
  has an OPERATE before it and its own decision behind it (`Consented`).
* `NoSignalForgotten`, `NoOperateForgotten`, `ManualDecisionsSettle` are about states
  in which nothing is left to do, and say nothing of the way there. The invariant
  `Owed` does: an assessed signal is settled, or something is under way that leads on,
  namely an evaluation before its event, the event, a waiting job or an attempt before
  its decision (`DecisionDue`); the supervisor's job, if it failed, was enqueued before
  there was anything to decide or had no attempt left (`NothingEarly`, `FailedFor`); an
  OPERATE is in the paper queue or one writer is on
  the way there (`OperateCarried`, `OneWriter`, because the supervisor's decision is
  unique); and a signal that a person was asked about is not marked
  pending again (`AskedOnce`), so that a manual decision stands or is about to be
  marked, and its trade was requested or is about to be (`AllMarked`).
* `ApprovalsFollow`: the invariant `Recorded` says of every approved assessment and every
  OPERATE, whether or not a trade was asked for, that its approval is on record, about to
  be written by the one who wrote the row, or lost with an interruption;
  `PaperJobJustified` turns a request into these rows.
* `JobsLeaveTheStatus`: as long as nobody but the jobs moves and nothing goes wrong
  (`Undisturbed`, true of every earlier state too), they come one after the other: the
  risk job evaluates once (`EvaluatedOnce`), the supervisor's follows its event
  (`DecidedAfter`), and the status is that of whoever wrote last (`StatusFollows`).
* `ImplementsConsent`: every step is one of `TradeConsent` or a stutter. A decision is
  never replaced because its row is unique, a consent has an OPERATE before it because
  a manual call has read it (`Consented`), and a request comes from the writer of an OPERATE
  of the paper mode or from a consent that is still there (`ConsentStays`).

**MarketDataProofs**, with any number of syncs, calls and candles:

* `MarketInvariant` strengthens the types by what each place of a sync implies
  (`SyncOwes`: unless interrupted, it stores once and only what it fetched, and
  with fresh candles goes on to name the newest), by each emitter emitting once
  and the debounce map naming one whose job was sent, and by events being about
  stored candles. `AnalysisIsOwed` and `SkipsAreCovered` follow.
* `MarketImplementsFeed`: each action is a step of `CandleFeed` or a stutter.

**SignalPipelineProofs**, with any number of candles, decisions, attempts and
faults: `PipelineInvariant` relates, for each job, what was read to what is
stored, and each generation to its decision. `AddedAreAnalysed`,
`SignalsMoveForward` and `SignalsAreExplained` follow from it; the last one needs
that a generation past its look-up has no signal of its own unless it was
interrupted.

**AuthSessionsProofs**, with any number of tokens and requests: `AuthInvariant`
says which tokens a request has at each of its steps, and that the one it carries
is good until another request spends it;
`TokensStaySpent` is the action property, from the guard of the second statement.

**EconomicCalendarProofs**, with any number of calls, clients and events:

* `CalendarTyped`: the types of the calendar and its stream, above all that a client
  has listeners exactly while it is connected, and that a call has something to emit
  exactly while it is about to.
* `ClientsHearAll` counts. For each event and row, what a client heard and what still
  waits is at least what was written since it came and at most all that was written
  (`Hears`). A write adds one to both sides; an emission takes one from what waits and
  gives one to what each client heard, for which no two events may be sent as the same
  message (`MessageInjective`) and no call may emit one twice. An event from elsewhere
  is written and heard at once. Calls with something to emit are finitely many,
  because each step adds one at most.

**StrategyProofs**, for all integers, markets, readings and lengths of a run:

* `EmaAlwaysMirrors`: each filter, the consistency of closes and the confidence is
  shown to be that of the mirrored reading, then the whole verdict.
* `StrategyTyped`, `BacktestTyped`: the types, strengthened to rows of open and closed trades
  (`Formed`).
* `TradesAlwaysReplay`: an open trade has been touched by no candle it was shown, and
  `index` divides those that have seen the newest candle from those that have not
  (`TradesHeld`). When it closes, this is what the look back finds (`CandleReplays`,
  `EndReplays`). Its profit needs what `Rounded` keeps: signs, and a distance of at most
  half a unit (`RoundedBounds`, `Earned`); the stop and the target lie on their sides
  because the strategy's readings have an ATR of at least zero (`EvaluateSides`). The
  proof corrected the property: it had claimed of every trade what a trade opened on a
  negative balance does not do.
* `RowsAreHonest`: the balance is the running sum of the closed trades (`Summed`), and
  the loop over it has found a peak and a fall that none before it exceeds (`Measured`).
  That fractions may be chained (`NotLess`) and that the fall from the peak is the
  deepest (`PeakFallsDeepest`) is arithmetic on positive denominators.

The inductive invariants were model-checked as invariants of the runs' instances
before they were proved.

**Only model-checked:** the liveness properties `ReservationsResolved`,
`TouchedTradesClose`, `SyncsSettle` and `JobsEnd` (the prover neither liveness under fairness nor ENABLED), and `TypesOK` of the composition
of services, each part of which is proved in the module of its service. No theorem
is about what a fold or another recursion computes: `grossProfit` and `grossLoss` of
a backtest are such folds (`Total`), and no property speaks of them.

## 6. What is not modelled

* The technical agent's indicators and the backtest's synthetic ones: statistics
  on floats, without state. A reading stands for their results.
* The arithmetic of risk (position size, reward ratio, daily loss) and the
  account figures the supervisor reads: choices in `DecisionFlow`. In
  particular, several signals that are decided on one count of open trades are
  not followed to their trades.
* In a backtest: counters of filtered signals, percentages and averages of
  trades, and the strategy's text fields.
* Analytics, performance, logs and the dashboards: they read and change nothing.
* Broker status, account and price queries; the dry run's log.
* Health checks, env validation, the Prisma service and the exception filter:
  glue.
* The fundamental agent's own decision record; creating paper accounts (the
  accounts are a constant); the job ids of the paper queue.
* Payloads of the stream's messages beside the id, and heartbeats after the
  first: nothing depends on them.
* Authorisation and validation of requests, except where a state change depends
  on it (the administrator looked up by the live guard, the limits of a sync);
  access tokens, which keep no state.
