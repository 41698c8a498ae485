----------------------------- MODULE MarketData -----------------------------
(***************************************************************************)
(* Candles of one instrument and timeframe: the historical syncs that      *)
(* fetch and store them, directly or as a queued job, the endpoints that   *)
(* store them one by one or in bulk, and the CANDLE_CLOSED events, which   *)
(* the technical-analysis producer turns into jobs unless it put one in    *)
(* the queue for the same symbol and timeframe within the debounce window. *)
(*                                                                         *)
(* A candle is its number; the exchange has every candle up to clock, the  *)
(* last one still forming.  Every await that lets another activity see or  *)
(* change something is a step of its own.                                  *)
(***************************************************************************)
EXTENDS CandleIds

CONSTANTS
  Syncs,      \* calls of POST /market-data/sync and /sync/enqueue
  Asks,       \* what a sync may ask for
  MaxLimit,   \* MARKET_DATA_SYNC_MAX_LIMIT
  MaxExtras,  \* bound on what happens beside the syncs: calls, failures, deaths,
              \* an inactive instrument
  NoOne       \* no sync and no call

Emitters == Syncs \cup Calls

\* The end of the range is optional: 0 where none is given.
AskRows ==
  [from : Candles, to : Candles \cup {0}, limit : Nat, trigger : BOOLEAN, queued : BOOLEAN]

ASSUME MarketDataAssumption ==
  /\ Syncs \cap Calls = {}
  /\ NoOne \notin Emitters
  /\ Asks \subseteq AskRows
  /\ MaxLimit \in Nat
  /\ MaxExtras \in Nat

VARIABLES
  clock,     \* the candle that is forming
  candles,   \* the stored candles
  at,        \* where each sync is
  ask,       \* what each sync asks for
  row,       \* status of the MarketDataSyncJob row of each sync
  seen,      \* the candle that was forming when the provider answered the sync
  fresh,     \* syncs whose current run inserted candles
  stored,    \* candles each sync inserted, in all its runs
  refused,   \* queued syncs whose instrument was inactive when they ran
  syncHit,   \* syncs that met a failing statement outside their handler, or died
  kind,      \* what each call of the other endpoints does
  closed,    \* the candle of the CANDLE_CLOSED event of each emitter, or 0
  listener,  \* what became of the event in the producer
  recent,    \* the emitter whose job is in the debounce map
  skippedBy, \* the emitter a skipped event was skipped for
  jobs,      \* ids of the analysis jobs that were added to the queue
  extras     \* what happened beside the syncs so far

syncVars == <<at, ask, row, seen, fresh, stored, refused, syncHit>>
eventVars == <<kind, closed, listener, recent, skippedBy, jobs>>
marketVars == <<clock, candles, syncVars, eventVars, extras>>

SyncSteps == {"idle", "add", "queued", "fetch", "insert", "complete", "find", "failing", "done"}
Running   == {"fetch", "insert", "complete", "find", "failing"}
Rows      == {"none", "PENDING", "RUNNING", "COMPLETED", "FAILED"}
Kinds     == {"none", "candle", "bulk", "enqueue"}

MarketTypeOK ==
  /\ clock \in Candles
  /\ candles \subseteq Candles
  /\ at \in [Syncs -> SyncSteps]
  /\ ask \in [Syncs -> AskRows]
  /\ row \in [Syncs -> Rows]
  /\ seen \in [Syncs -> 0..MaxCandle]
  /\ fresh \subseteq Syncs
  /\ stored \in [Syncs -> SUBSET Candles]
  /\ refused \subseteq Syncs
  /\ syncHit \subseteq Syncs
  /\ kind \in [Calls -> Kinds]
  /\ closed \in [Emitters -> 0..MaxCandle]
  /\ listener \in [Emitters -> {"none", "resolve", "add", "added", "skipped", "lost"}]
  /\ recent \in Emitters \cup {NoOne}
  /\ skippedBy \in [Emitters -> Emitters \cup {NoOne}]
  /\ jobs \subseteq JobIds
  /\ extras \in 0..MaxExtras

MarketInit ==
  /\ clock = 1
  /\ candles = {}
  /\ at = [s \in Syncs |-> "idle"]
  /\ ask \in [Syncs -> Asks]
  /\ row = [s \in Syncs |-> "none"]
  /\ seen = [s \in Syncs |-> 0]
  /\ fresh = {}
  /\ stored = [s \in Syncs |-> {}]
  /\ refused = {}
  /\ syncHit = {}
  /\ kind = [p \in Calls |-> "none"]
  /\ closed = [e \in Emitters |-> 0]
  /\ listener = [e \in Emitters |-> "none"]
  /\ recent = NoOne
  /\ skippedBy = [e \in Emitters |-> NoOne]
  /\ jobs = {}
  /\ extras = 0

-----------------------------------------------------------------------------
(* Helpers                                                                 *)

HasEnd(a) == a.to # 0

\* What the provider answers: the candles of the range from its start on, at
\* most limit of them, the forming one included.
Fetched(s) ==
  {c \in Candles : /\ ask[s].from <= c /\ (HasEnd(ask[s]) => c <= ask[s].to)
                   /\ c < ask[s].from + ask[s].limit /\ c <= seen[s]}

Extra == extras < MaxExtras /\ extras' = extras + 1

Go(s, from, to) ==
  /\ at[s] = from
  /\ at' = [at EXCEPT ![s] = to]

\* An error inside execute's try.
Throws(s, from) == Extra /\ Go(s, from, "failing")

\* An error, or a death, that leaves the row as it is.
GivesUp(s, from) ==
  /\ Extra
  /\ Go(s, from, "done")
  /\ syncHit' = syncHit \cup {s}

-----------------------------------------------------------------------------
(* Historical syncs                                                        *)

\* validateInput, resolveLimit, and resolveSyncContext for an active instrument.
Accepted(a) == (HasEnd(a) => a.from < a.to) /\ a.limit <= MaxLimit

\* POST /market-data/sync creates the row and goes on; /sync/enqueue creates it
\* and puts the job in the queue.
StartSync(s) ==
  /\ Accepted(ask[s])
  /\ Go(s, "idle", IF ask[s].queued THEN "add" ELSE "fetch")
  /\ row' = [row EXCEPT ![s] = IF ask[s].queued THEN "PENDING" ELSE "RUNNING"]
  /\ UNCHANGED <<clock, candles, ask, seen, fresh, stored, refused, syncHit,
                 eventVars, extras>>

AddSyncJob(s) ==
  /\ \/ Go(s, "add", "queued") /\ UNCHANGED <<syncHit, extras>>
     \/ GivesUp(s, "add")
  /\ UNCHANGED <<clock, candles, ask, row, seen, fresh, stored, refused, eventVars>>

\* The processor resolves the context again, outside the try, and the instrument
\* may be inactive by now; a sync job has one attempt.
RunSyncJob(s) ==
  /\ \/ /\ Accepted(ask[s])
        /\ Go(s, "queued", "fetch")
        /\ row' = [row EXCEPT ![s] = "RUNNING"]
        /\ UNCHANGED <<refused, syncHit, extras>>
     \/ /\ Extra
        /\ Go(s, "queued", "done")
        /\ refused' = refused \cup {s}
        /\ UNCHANGED <<row, syncHit>>
     \/ GivesUp(s, "queued") /\ UNCHANGED <<row, refused>>
  /\ UNCHANGED <<clock, candles, ask, seen, fresh, stored, eventVars>>

FetchCandles(s) ==
  /\ \/ /\ Go(s, "fetch", "insert")
        /\ seen' = [seen EXCEPT ![s] = clock]
        /\ UNCHANGED extras
     \/ Throws(s, "fetch") /\ UNCHANGED seen
  /\ UNCHANGED <<clock, candles, ask, row, fresh, stored, refused, syncHit, eventVars>>

\* createMany with skipDuplicates: what is stored already stays as it is.
InsertCandles(s) ==
  /\ \/ /\ Go(s, "insert", "complete")
        /\ LET new == Fetched(s) \ candles IN
           /\ candles' = candles \cup new
           /\ fresh' = IF new = {} THEN fresh \ {s} ELSE fresh \cup {s}
           /\ stored' = [stored EXCEPT ![s] = @ \cup new]
        /\ UNCHANGED extras
     \/ Throws(s, "insert") /\ UNCHANGED <<candles, fresh, stored>>
  /\ UNCHANGED <<clock, ask, row, seen, refused, syncHit, eventVars>>

CompleteSync(s) ==
  /\ \/ /\ Go(s, "complete", IF ask[s].trigger /\ s \in fresh THEN "find" ELSE "done")
        /\ row' = [row EXCEPT ![s] = "COMPLETED"]
        /\ UNCHANGED extras
     \/ Throws(s, "complete") /\ UNCHANGED row
  /\ UNCHANGED <<clock, candles, ask, seen, fresh, stored, refused, syncHit, eventVars>>

\* CANDLE_CLOSED reaches the producer's listener, which looks up the symbol.
Emit(e, c) ==
  /\ closed' = [closed EXCEPT ![e] = c]
  /\ listener' = [listener EXCEPT ![e] = "resolve"]

\* Variant: the event names the first candle of the sync.
EmitOldest(s) ==
  /\ Go(s, "find", "done")
  /\ \E n \in Fetched(s) : (\A c \in Fetched(s) : n <= c) /\ Emit(s, n)
  /\ UNCHANGED <<clock, candles, ask, row, seen, fresh, stored, refused, syncHit,
                 kind, recent, skippedBy, jobs, extras>>

\* Variant: the event names the end of the range that was asked for.
EmitRequestedEnd(s) ==
  /\ Go(s, "find", "done")
  /\ Emit(s, ask[s].to)
  /\ UNCHANGED <<clock, candles, ask, row, seen, fresh, stored, refused, syncHit,
                 kind, recent, skippedBy, jobs, extras>>

\* The id of the newest fetched candle is read and the event emitted.
EmitSynced(s) ==
  /\ \/ /\ Go(s, "find", "done")
        /\ \E n \in Fetched(s) : IsNewest(n, Fetched(s)) /\ Emit(s, n)
        /\ UNCHANGED extras
     \/ Throws(s, "find") /\ UNCHANGED <<closed, listener>>
  /\ UNCHANGED <<clock, candles, ask, row, seen, fresh, stored, refused, syncHit,
                 kind, recent, skippedBy, jobs>>

\* Variant: the error is logged only.
ForgetFailure(s) ==
  /\ Go(s, "failing", "done")
  /\ UNCHANGED <<clock, candles, ask, row, seen, fresh, stored, refused, syncHit,
                 eventVars, extras>>

\* The handler writes FAILED, also over COMPLETED.
MarkSyncFailed(s) ==
  /\ \/ /\ Go(s, "failing", "done")
        /\ row' = [row EXCEPT ![s] = "FAILED"]
        /\ UNCHANGED <<syncHit, extras>>
     \/ GivesUp(s, "failing") /\ UNCHANGED row
  /\ UNCHANGED <<clock, candles, ask, seen, fresh, stored, refused, eventVars>>

\* The process dies: a queued sync is taken up again by another worker.
SyncDies(s) ==
  /\ at[s] \in Running
  /\ Extra
  /\ syncHit' = syncHit \cup {s}
  /\ at' = [at EXCEPT ![s] = IF ask[s].queued THEN "queued" ELSE "done"]
  /\ UNCHANGED <<clock, candles, ask, row, seen, fresh, stored, refused, eventVars>>

-----------------------------------------------------------------------------
(* The other endpoints                                                     *)

Begin(p, k) ==
  /\ Extra
  /\ kind[p] = "none"
  /\ kind' = [kind EXCEPT ![p] = k]

\* POST /market-data/candles: a stored candle is a conflict and nothing happens.
createCandle(p) ==
  /\ Begin(p, "candle")
  /\ \E c \in Candles \ candles : candles' = candles \cup {c} /\ Emit(p, c)
  /\ UNCHANGED <<clock, syncVars, recent, skippedBy, jobs>>

\* POST /market-data/candles/bulk skips duplicates and emits no event.
createBulk(p) ==
  /\ Begin(p, "bulk")
  /\ \E cs \in SUBSET Candles : candles' = candles \cup cs
  /\ UNCHANGED <<clock, syncVars, closed, listener, recent, skippedBy, jobs>>

\* POST /agents/technical/analyze/enqueue: forced, and about no candle.
enqueueAnalysis(p) ==
  /\ Begin(p, "enqueue")
  /\ listener' = [listener EXCEPT ![p] = "resolve"]
  /\ UNCHANGED <<clock, candles, syncVars, closed, recent, skippedBy, jobs>>

-----------------------------------------------------------------------------
(* The technical-analysis producer                                         *)

JobOf(e) == IF closed[e] = 0 THEN e ELSE closed[e]

Forced(e) == e \in Calls /\ kind[e] = "enqueue"

\* The lookup of the instrument or the add throws; nobody awaits a listener.
ListenerThrows(e) ==
  /\ Extra
  /\ listener' = [listener EXCEPT ![e] = "lost"]

\* Variant: a skipped event renews the entry.
DebounceRenewed(e) ==
  /\ listener[e] = "resolve"
  /\ LET skip == recent # NoOne /\ ~Forced(e) IN
     /\ listener' = [listener EXCEPT ![e] = IF skip THEN "skipped" ELSE "add"]
     /\ skippedBy' = [skippedBy EXCEPT ![e] = IF skip THEN recent ELSE @]
  /\ recent' = e
  /\ UNCHANGED <<clock, candles, syncVars, kind, closed, jobs, extras>>

\* The map is read and written in one go after the symbol is known, and before
\* the job is in the queue.
Debounce(e) ==
  /\ listener[e] = "resolve"
  /\ \/ /\ recent # NoOne /\ ~Forced(e)
        /\ listener' = [listener EXCEPT ![e] = "skipped"]
        /\ skippedBy' = [skippedBy EXCEPT ![e] = recent]
        /\ UNCHANGED <<recent, extras>>
     \/ /\ recent = NoOne \/ Forced(e)
        /\ listener' = [listener EXCEPT ![e] = "add"]
        /\ recent' = e
        /\ UNCHANGED <<skippedBy, extras>>
     \/ ListenerThrows(e) /\ UNCHANGED <<recent, skippedBy>>
  /\ UNCHANGED <<clock, candles, syncVars, kind, closed, jobs>>

\* The queue ignores the add of an id it still holds, also as a failed job.
AddAnalysisJob(e) ==
  /\ listener[e] = "add"
  /\ \/ /\ listener' = [listener EXCEPT ![e] = "added"]
        /\ jobs' = jobs \cup {JobOf(e)}
        /\ UNCHANGED extras
     \/ ListenerThrows(e) /\ UNCHANGED jobs
  /\ UNCHANGED <<clock, candles, syncVars, kind, closed, recent, skippedBy>>

\* The debounce window passes, or the process that held the map restarts.
ForgetRecent ==
  /\ recent # NoOne
  /\ recent' = NoOne
  /\ UNCHANGED <<clock, candles, syncVars, kind, closed, listener, skippedBy,
                 jobs, extras>>

\* The exchange begins the next candle.
Tick ==
  /\ clock < MaxCandle
  /\ clock' = clock + 1
  /\ UNCHANGED <<candles, syncVars, eventVars, extras>>

SyncStep(s) ==
  \/ AddSyncJob(s) \/ RunSyncJob(s) \/ FetchCandles(s) \/ InsertCandles(s)
  \/ CompleteSync(s) \/ EmitSynced(s) \/ MarkSyncFailed(s)

ListenerStep(e) == Debounce(e) \/ AddAnalysisJob(e)

MarketNext ==
  \/ \E s \in Syncs : StartSync(s) \/ SyncStep(s) \/ SyncDies(s)
  \/ \E p \in Calls : createCandle(p) \/ createBulk(p) \/ enqueueAnalysis(p)
  \/ \E e \in Emitters : ListenerStep(e)
  \/ ForgetRecent \/ Tick

MarketSpec == MarketInit /\ [][MarketNext]_marketVars

\* A started request, a queued sync and a listener go on: their statements and
\* their provider settle.  Nothing makes a call begin or a failure happen.
MarketFairness ==
  /\ \A s \in Syncs : WF_marketVars(SyncStep(s))
  /\ \A e \in Emitters : WF_marketVars(ListenerStep(e))

FairMarketSpec == MarketSpec /\ MarketFairness

-----------------------------------------------------------------------------
(* Properties                                                              *)

\* A sync that was to trigger an analysis and stored candles has emitted
\* CANDLE_CLOSED for a candle no older than any it stored, unless its row says
\* FAILED or it was interrupted.  The run that emits need not be the one that
\* stored them, and the row may be FAILED with all candles stored.
AnalysisOwed ==
  \A s \in Syncs :
    at[s] = "done" /\ ask[s].trigger /\ stored[s] # {} =>
      \/ \A c \in stored[s] : c <= closed[s]
      \/ row[s] = "FAILED"
      \/ s \in syncHit

\* An event is skipped as a duplicate only on account of an analysis that was
\* itself sent to the queue, or whose add failed: never of another skipped one.
SkipsCovered ==
  \A e \in Emitters :
    listener[e] = "skipped" =>
      /\ skippedBy[e] # NoOne
      /\ listener[skippedBy[e]] \in {"add", "added", "lost"}

\* The row of a started sync ends COMPLETED or FAILED (so that again and again
\* every row has), unless the sync was interrupted or its instrument was inactive
\* when it ran: then it may stay PENDING or RUNNING for ever.
SyncsSettle ==
  []<>\A s \in Syncs :
    row[s] \in {"none", "COMPLETED", "FAILED"} \/ s \in syncHit \cup refused

\* Every step adds candles, asks for the analysis of a stored candle or of none,
\* or does neither, as CandleFeed promises.
Feed == INSTANCE CandleFeed WITH history <- candles, requested <- jobs

FeedImplemented == Feed!FeedSpec
=============================================================================
