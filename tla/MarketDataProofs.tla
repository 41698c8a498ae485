--------------------------- MODULE MarketDataProofs ---------------------------
(***************************************************************************)
(* AnalysisOwed, SkipsCovered and the refinement of CandleFeed, for any    *)
(* number of syncs, calls and candles, whatever fails.                     *)
(***************************************************************************)
EXTENDS MarketData, TLAPS

\* A sync that was never interrupted stores candles once, and those it fetched; with
\* fresh candles it goes on to name the newest of them.
SyncOwes ==
  \A s \in Syncs :
    \/ s \in syncHit
    \/ /\ at[s] \in {"idle", "add", "queued", "fetch", "insert"} => stored[s] = {}
       /\ at[s] \in {"complete", "find"} => stored[s] \subseteq Fetched(s)
       /\ at[s] = "complete" /\ stored[s] # {} => s \in fresh
       /\ at[s] = "done" /\ ask[s].trigger /\ stored[s] # {} =>
            (\A c \in stored[s] : c <= closed[s]) \/ row[s] = "FAILED"

\* An emitter emits once, and the debounce map names one whose job was sent.
EmittersOnce ==
  /\ \A s \in Syncs : at[s] # "done" => listener[s] = "none"
  /\ \A p \in Calls : kind[p] = "none" => listener[p] = "none"
  /\ recent # NoOne => listener[recent] \in {"add", "added", "lost"}

\* What a sync has fetched is stored before it goes on, an event is about a stored
\* candle, and only a call asks for an analysis without one.
EventsStored ==
  /\ \A s \in Syncs : at[s] \in {"complete", "find"} => Fetched(s) \subseteq candles
  /\ \A e \in Emitters : closed[e] # 0 => closed[e] \in candles
  /\ \A s \in Syncs : listener[s] # "none" => closed[s] # 0

MarketInv ==
  MarketTypeOK /\ SyncOwes /\ EmittersOnce /\ SkipsCovered /\ EventsStored

-----------------------------------------------------------------------------
\* Nothing is stored, fetched or emitted at the beginning.
LEMMA MarketInitInv == MarketInit => MarketInv
<1> SUFFICES ASSUME MarketInit PROVE MarketInv
  OBVIOUS
<1> USE MarketDataAssumption, CandleIdsAssumption DEF MarketInit
<1>1. MarketTypeOK
  BY DEF MarketTypeOK, Candles, JobIds, Emitters, SyncSteps, Rows, Kinds
<1>2. SyncOwes /\ EmittersOnce /\ SkipsCovered /\ EventsStored
  BY DEF SyncOwes, EmittersOnce, SkipsCovered, EventsStored, Emitters
<1> QED
  BY <1>1, <1>2 DEF MarketInv

\* Every step keeps the types.
LEMMA MarketStepTypes == MarketTypeOK /\ EventsStored /\ [MarketNext]_marketVars => MarketTypeOK'
<1> SUFFICES ASSUME MarketTypeOK /\ EventsStored, [MarketNext]_marketVars PROVE MarketTypeOK'
  OBVIOUS
<1> USE MarketDataAssumption, CandleIdsAssumption DEF MarketTypeOK, syncVars, eventVars, Extra, Go, SyncSteps, Rows, Kinds, Emitters
<1>1. ASSUME NEW s \in Syncs, StartSync(s) PROVE MarketTypeOK'
  BY <1>1 DEF StartSync
<1>2. ASSUME NEW s \in Syncs, AddSyncJob(s) PROVE MarketTypeOK'
  BY <1>2 DEF AddSyncJob, GivesUp
<1>3. ASSUME NEW s \in Syncs, RunSyncJob(s) PROVE MarketTypeOK'
  BY <1>3 DEF RunSyncJob, GivesUp
<1>4. ASSUME NEW s \in Syncs, FetchCandles(s) PROVE MarketTypeOK'
  BY <1>4 DEF FetchCandles, Throws, Candles
<1>5. ASSUME NEW s \in Syncs, InsertCandles(s) PROVE MarketTypeOK'
  <2>1. Fetched(s) \ candles \subseteq Candles
    BY DEF Fetched
  <2> QED
    BY <1>5, <2>1 DEF InsertCandles, Throws
<1>6. ASSUME NEW s \in Syncs, CompleteSync(s) PROVE MarketTypeOK'
  BY <1>6 DEF CompleteSync, Throws
<1>7. ASSUME NEW s \in Syncs, EmitSynced(s) PROVE MarketTypeOK'
  <2>1. Fetched(s) \subseteq 0..MaxCandle
    BY DEF Fetched, Candles
  <2> QED
    BY <1>7, <2>1 DEF EmitSynced, Throws, Emit, IsNewest
<1>8. ASSUME NEW s \in Syncs, MarkSyncFailed(s) PROVE MarketTypeOK'
  BY <1>8 DEF MarkSyncFailed, GivesUp
<1>9. ASSUME NEW s \in Syncs, SyncDies(s) PROVE MarketTypeOK'
  BY <1>9 DEF SyncDies, Running
<1>10. ASSUME NEW p \in Calls, createCandle(p) PROVE MarketTypeOK'
  BY <1>10 DEF createCandle, Begin, Emit, Candles
<1>11. ASSUME NEW p \in Calls, createBulk(p) PROVE MarketTypeOK'
  BY <1>11 DEF createBulk, Begin
<1>12. ASSUME NEW p \in Calls, enqueueAnalysis(p) PROVE MarketTypeOK'
  BY <1>12 DEF enqueueAnalysis, Begin
<1>13. ASSUME NEW e \in Emitters, Debounce(e) PROVE MarketTypeOK'
  BY <1>13 DEF Debounce, ListenerThrows
<1>14. ASSUME NEW e \in Emitters, AddAnalysisJob(e) PROVE MarketTypeOK'
  <2>1. JobOf(e) \in JobIds \/ (e \in Syncs /\ closed[e] = 0)
    BY DEF JobOf, JobIds, Candles
  <2> QED
    BY <1>14, <2>1 DEF AddAnalysisJob, ListenerThrows, EventsStored
<1>15. ASSUME ForgetRecent PROVE MarketTypeOK'
  BY <1>15 DEF ForgetRecent
<1>16. ASSUME Tick PROVE MarketTypeOK'
  BY <1>16 DEF Tick, Candles
<1>17. CASE UNCHANGED marketVars
  BY <1>17 DEF marketVars
<1> QED
  BY <1>1, <1>2, <1>3, <1>4, <1>5, <1>6, <1>7, <1>8, <1>9, <1>10, <1>11, <1>12, <1>13, <1>14, <1>15, <1>16, <1>17
  DEF MarketNext, SyncStep, ListenerStep

\* A sync that stores candles goes on to name the newest, to FAILED, or is interrupted.
LEMMA OwesStep == MarketTypeOK /\ SyncOwes /\ [MarketNext]_marketVars => SyncOwes'
<1> SUFFICES ASSUME MarketTypeOK /\ SyncOwes, [MarketNext]_marketVars PROVE SyncOwes'
  OBVIOUS
<1> USE MarketDataAssumption, CandleIdsAssumption DEF MarketTypeOK, syncVars, eventVars, SyncOwes, Go, Extra, Emitters, Fetched
<1>1. ASSUME NEW s \in Syncs, StartSync(s) PROVE SyncOwes'
  BY <1>1 DEF StartSync
<1>2. ASSUME NEW s \in Syncs, AddSyncJob(s) PROVE SyncOwes'
  BY <1>2 DEF AddSyncJob, GivesUp
<1>3. ASSUME NEW s \in Syncs, RunSyncJob(s) PROVE SyncOwes'
  BY <1>3 DEF RunSyncJob, GivesUp
<1>4. ASSUME NEW s \in Syncs, FetchCandles(s) PROVE SyncOwes'
  BY <1>4 DEF FetchCandles, Throws
<1>5. ASSUME NEW s \in Syncs, InsertCandles(s) PROVE SyncOwes'
  BY <1>5 DEF InsertCandles, Throws
<1>6. ASSUME NEW s \in Syncs, CompleteSync(s) PROVE SyncOwes'
  BY <1>6 DEF CompleteSync, Throws
<1>7. ASSUME NEW s \in Syncs, EmitSynced(s) PROVE SyncOwes'
  BY <1>7 DEF EmitSynced, Throws, Emit, IsNewest
<1>8. ASSUME NEW s \in Syncs, MarkSyncFailed(s) PROVE SyncOwes'
  BY <1>8 DEF MarkSyncFailed, GivesUp
<1>9. ASSUME NEW s \in Syncs, SyncDies(s) PROVE SyncOwes'
  BY <1>9 DEF SyncDies, Running
<1>10. ASSUME NEW p \in Calls, createCandle(p) PROVE SyncOwes'
  BY <1>10 DEF createCandle, Begin, Emit
<1>11. ASSUME NEW p \in Calls, createBulk(p) PROVE SyncOwes'
  BY <1>11 DEF createBulk, Begin
<1>12. ASSUME NEW p \in Calls, enqueueAnalysis(p) PROVE SyncOwes'
  BY <1>12 DEF enqueueAnalysis, Begin
<1>13. ASSUME NEW e \in Emitters, Debounce(e) PROVE SyncOwes'
  BY <1>13 DEF Debounce, ListenerThrows
<1>14. ASSUME NEW e \in Emitters, AddAnalysisJob(e) PROVE SyncOwes'
  BY <1>14 DEF AddAnalysisJob, ListenerThrows, JobOf
<1>15. ASSUME ForgetRecent PROVE SyncOwes'
  BY <1>15 DEF ForgetRecent
<1>16. ASSUME Tick PROVE SyncOwes'
  BY <1>16 DEF Tick
<1>17. CASE UNCHANGED marketVars
  BY <1>17 DEF marketVars
<1> QED
  BY <1>1, <1>2, <1>3, <1>4, <1>5, <1>6, <1>7, <1>8, <1>9, <1>10, <1>11, <1>12, <1>13, <1>14, <1>15, <1>16, <1>17
  DEF MarketNext, SyncStep, ListenerStep

\* A listener runs once, and only what it sends enters the debounce map.
LEMMA OnceStep == MarketTypeOK /\ EmittersOnce /\ [MarketNext]_marketVars => EmittersOnce'
<1> SUFFICES ASSUME MarketTypeOK /\ EmittersOnce, [MarketNext]_marketVars PROVE EmittersOnce'
  OBVIOUS
<1> USE MarketDataAssumption, CandleIdsAssumption DEF MarketTypeOK, syncVars, eventVars, EmittersOnce, Go, Emitters
<1>1. ASSUME NEW s \in Syncs, StartSync(s) PROVE EmittersOnce'
  BY <1>1 DEF StartSync
<1>2. ASSUME NEW s \in Syncs, AddSyncJob(s) PROVE EmittersOnce'
  BY <1>2 DEF AddSyncJob, GivesUp
<1>3. ASSUME NEW s \in Syncs, RunSyncJob(s) PROVE EmittersOnce'
  BY <1>3 DEF RunSyncJob, GivesUp
<1>4. ASSUME NEW s \in Syncs, FetchCandles(s) PROVE EmittersOnce'
  BY <1>4 DEF FetchCandles, Throws
<1>5. ASSUME NEW s \in Syncs, InsertCandles(s) PROVE EmittersOnce'
  BY <1>5 DEF InsertCandles, Throws
<1>6. ASSUME NEW s \in Syncs, CompleteSync(s) PROVE EmittersOnce'
  BY <1>6 DEF CompleteSync, Throws
<1>7. ASSUME NEW s \in Syncs, EmitSynced(s) PROVE EmittersOnce'
  BY <1>7 DEF EmitSynced, Throws, Emit, IsNewest
<1>8. ASSUME NEW s \in Syncs, MarkSyncFailed(s) PROVE EmittersOnce'
  BY <1>8 DEF MarkSyncFailed, GivesUp
<1>9. ASSUME NEW s \in Syncs, SyncDies(s) PROVE EmittersOnce'
  BY <1>9 DEF SyncDies, Running
<1>10. ASSUME NEW p \in Calls, createCandle(p) PROVE EmittersOnce'
  BY <1>10 DEF createCandle, Begin, Emit
<1>11. ASSUME NEW p \in Calls, createBulk(p) PROVE EmittersOnce'
  BY <1>11 DEF createBulk, Begin
<1>12. ASSUME NEW p \in Calls, enqueueAnalysis(p) PROVE EmittersOnce'
  BY <1>12 DEF enqueueAnalysis, Begin
<1>13. ASSUME NEW e \in Emitters, Debounce(e) PROVE EmittersOnce'
  BY <1>13 DEF Debounce, ListenerThrows
<1>14. ASSUME NEW e \in Emitters, AddAnalysisJob(e) PROVE EmittersOnce'
  BY <1>14 DEF AddAnalysisJob, ListenerThrows, JobOf
<1>15. ASSUME ForgetRecent PROVE EmittersOnce'
  BY <1>15 DEF ForgetRecent
<1>16. ASSUME Tick PROVE EmittersOnce'
  BY <1>16 DEF Tick
<1>17. CASE UNCHANGED marketVars
  BY <1>17 DEF marketVars
<1> QED
  BY <1>1, <1>2, <1>3, <1>4, <1>5, <1>6, <1>7, <1>8, <1>9, <1>10, <1>11, <1>12, <1>13, <1>14, <1>15, <1>16, <1>17
  DEF MarketNext, SyncStep, ListenerStep

\* An event is skipped for the entry that the debounce map holds.
LEMMA SkipsStep == MarketTypeOK /\ EmittersOnce /\ SkipsCovered /\ [MarketNext]_marketVars => SkipsCovered'
<1> SUFFICES ASSUME MarketTypeOK /\ EmittersOnce /\ SkipsCovered, [MarketNext]_marketVars PROVE SkipsCovered'
  OBVIOUS
<1> USE MarketDataAssumption, CandleIdsAssumption DEF MarketTypeOK, syncVars, eventVars, EmittersOnce, SkipsCovered, Go, Emitters
<1>1. ASSUME NEW s \in Syncs, StartSync(s) PROVE SkipsCovered'
  BY <1>1 DEF StartSync
<1>2. ASSUME NEW s \in Syncs, AddSyncJob(s) PROVE SkipsCovered'
  BY <1>2 DEF AddSyncJob, GivesUp
<1>3. ASSUME NEW s \in Syncs, RunSyncJob(s) PROVE SkipsCovered'
  BY <1>3 DEF RunSyncJob, GivesUp
<1>4. ASSUME NEW s \in Syncs, FetchCandles(s) PROVE SkipsCovered'
  BY <1>4 DEF FetchCandles, Throws
<1>5. ASSUME NEW s \in Syncs, InsertCandles(s) PROVE SkipsCovered'
  BY <1>5 DEF InsertCandles, Throws
<1>6. ASSUME NEW s \in Syncs, CompleteSync(s) PROVE SkipsCovered'
  BY <1>6 DEF CompleteSync, Throws
<1>7. ASSUME NEW s \in Syncs, EmitSynced(s) PROVE SkipsCovered'
  BY <1>7 DEF EmitSynced, Throws, Emit, IsNewest
<1>8. ASSUME NEW s \in Syncs, MarkSyncFailed(s) PROVE SkipsCovered'
  BY <1>8 DEF MarkSyncFailed, GivesUp
<1>9. ASSUME NEW s \in Syncs, SyncDies(s) PROVE SkipsCovered'
  BY <1>9 DEF SyncDies, Running
<1>10. ASSUME NEW p \in Calls, createCandle(p) PROVE SkipsCovered'
  BY <1>10 DEF createCandle, Begin, Emit
<1>11. ASSUME NEW p \in Calls, createBulk(p) PROVE SkipsCovered'
  BY <1>11 DEF createBulk, Begin
<1>12. ASSUME NEW p \in Calls, enqueueAnalysis(p) PROVE SkipsCovered'
  BY <1>12 DEF enqueueAnalysis, Begin
<1>13. ASSUME NEW e \in Emitters, Debounce(e) PROVE SkipsCovered'
  BY <1>13 DEF Debounce, ListenerThrows
<1>14. ASSUME NEW e \in Emitters, AddAnalysisJob(e) PROVE SkipsCovered'
  BY <1>14 DEF AddAnalysisJob, ListenerThrows, JobOf
<1>15. ASSUME ForgetRecent PROVE SkipsCovered'
  BY <1>15 DEF ForgetRecent
<1>16. ASSUME Tick PROVE SkipsCovered'
  BY <1>16 DEF Tick
<1>17. CASE UNCHANGED marketVars
  BY <1>17 DEF marketVars
<1> QED
  BY <1>1, <1>2, <1>3, <1>4, <1>5, <1>6, <1>7, <1>8, <1>9, <1>10, <1>11, <1>12, <1>13, <1>14, <1>15, <1>16, <1>17
  DEF MarketNext, SyncStep, ListenerStep

\* Candles are stored before they are spoken of, and stay.
LEMMA StoredStep == MarketTypeOK /\ EmittersOnce /\ EventsStored /\ [MarketNext]_marketVars => EventsStored'
<1> SUFFICES ASSUME MarketTypeOK /\ EmittersOnce /\ EventsStored, [MarketNext]_marketVars PROVE EventsStored'
  OBVIOUS
<1> USE MarketDataAssumption, CandleIdsAssumption DEF MarketTypeOK, syncVars, eventVars, EmittersOnce, EventsStored, Go, Emitters, Fetched
<1>1. ASSUME NEW s \in Syncs, StartSync(s) PROVE EventsStored'
  BY <1>1 DEF StartSync
<1>2. ASSUME NEW s \in Syncs, AddSyncJob(s) PROVE EventsStored'
  BY <1>2 DEF AddSyncJob, GivesUp
<1>3. ASSUME NEW s \in Syncs, RunSyncJob(s) PROVE EventsStored'
  BY <1>3 DEF RunSyncJob, GivesUp
<1>4. ASSUME NEW s \in Syncs, FetchCandles(s) PROVE EventsStored'
  BY <1>4 DEF FetchCandles, Throws
<1>5. ASSUME NEW s \in Syncs, InsertCandles(s) PROVE EventsStored'
  BY <1>5 DEF InsertCandles, Throws
<1>6. ASSUME NEW s \in Syncs, CompleteSync(s) PROVE EventsStored'
  BY <1>6 DEF CompleteSync, Throws
<1>7. ASSUME NEW s \in Syncs, EmitSynced(s) PROVE EventsStored'
  <2>1. \A n \in Fetched(s) : n # 0
    BY DEF Fetched, Candles
  <2> QED
    BY <1>7, <2>1 DEF EmitSynced, Throws, Emit, IsNewest
<1>8. ASSUME NEW s \in Syncs, MarkSyncFailed(s) PROVE EventsStored'
  BY <1>8 DEF MarkSyncFailed, GivesUp
<1>9. ASSUME NEW s \in Syncs, SyncDies(s) PROVE EventsStored'
  BY <1>9 DEF SyncDies, Running
<1>10. ASSUME NEW p \in Calls, createCandle(p) PROVE EventsStored'
  BY <1>10 DEF createCandle, Begin, Emit
<1>11. ASSUME NEW p \in Calls, createBulk(p) PROVE EventsStored'
  BY <1>11 DEF createBulk, Begin
<1>12. ASSUME NEW p \in Calls, enqueueAnalysis(p) PROVE EventsStored'
  BY <1>12 DEF enqueueAnalysis, Begin
<1>13. ASSUME NEW e \in Emitters, Debounce(e) PROVE EventsStored'
  BY <1>13 DEF Debounce, ListenerThrows
<1>14. ASSUME NEW e \in Emitters, AddAnalysisJob(e) PROVE EventsStored'
  BY <1>14 DEF AddAnalysisJob, ListenerThrows, JobOf
<1>15. ASSUME ForgetRecent PROVE EventsStored'
  BY <1>15 DEF ForgetRecent
<1>16. ASSUME Tick PROVE EventsStored'
  BY <1>16 DEF Tick
<1>17. CASE UNCHANGED marketVars
  BY <1>17 DEF marketVars
<1> QED
  BY <1>1, <1>2, <1>3, <1>4, <1>5, <1>6, <1>7, <1>8, <1>9, <1>10, <1>11, <1>12, <1>13, <1>14, <1>15, <1>16, <1>17
  DEF MarketNext, SyncStep, ListenerStep

-----------------------------------------------------------------------------
\* The invariant is inductive.
THEOREM MarketInvariant == MarketSpec => []MarketInv
<1>1. MarketInv /\ [MarketNext]_marketVars => MarketInv'
  BY MarketStepTypes, OwesStep, OnceStep, SkipsStep, StoredStep DEF MarketInv
<1> QED
  BY <1>1, MarketInitInv, PTL DEF MarketSpec

\* Candles that a sync stored for analysis are never left behind in silence.
THEOREM AnalysisIsOwed == MarketSpec => []AnalysisOwed
<1>1. MarketInv => AnalysisOwed
  BY DEF MarketInv, SyncOwes, AnalysisOwed
<1> QED
  BY <1>1, MarketInvariant, PTL

\* No event is dropped on account of one that was dropped itself.
THEOREM SkipsAreCovered == MarketSpec => []SkipsCovered
BY MarketInvariant, PTL DEF MarketInv

\* Market data keeps the promise the signal pipeline is built on.
THEOREM MarketImplementsFeed == MarketSpec => FeedImplemented
<1> DEFINE Step == [Feed!FeedNext]_(Feed!feedVars)
<1>1. MarketInit => Feed!FeedInit
  BY DEF MarketInit, Feed!FeedInit
<1>2. MarketInv /\ [MarketNext]_marketVars => Step
  <2> SUFFICES ASSUME MarketInv, [MarketNext]_marketVars PROVE Step
    OBVIOUS
  <2> USE DEF MarketInv, MarketTypeOK, Feed!FeedNext, Feed!feedVars, Feed!StoreCandles
  <2>1. ASSUME NEW s \in Syncs, InsertCandles(s) PROVE Step
    <3>1. CASE UNCHANGED candles
      BY <2>1, <3>1 DEF InsertCandles, eventVars
    <3>2. CASE candles' = candles \cup (Fetched(s) \ candles)
      BY <2>1, <3>2 DEF InsertCandles, eventVars, Fetched, Feed!Candles, Candles
    <3> QED
      BY <2>1, <3>1, <3>2 DEF InsertCandles
  <2>2. ASSUME NEW p \in Calls, createCandle(p) PROVE Step
    BY <2>2 DEF createCandle, Feed!Candles, Candles
  <2>3. ASSUME NEW p \in Calls, createBulk(p) PROVE Step
    BY <2>3 DEF createBulk, Feed!Candles, Candles
  <2>4. ASSUME NEW e \in Emitters, AddAnalysisJob(e) PROVE Step
    <3>1. JobOf(e) \in candles \cup Calls /\ JobOf(e) \in JobIds
      BY <2>4 DEF AddAnalysisJob, JobOf, EventsStored, Emitters, JobIds
    <3>2. CASE UNCHANGED <<candles, jobs>>
      BY <3>2
    <3>3. CASE candles' = candles /\ jobs' = jobs \cup {JobOf(e)}
      BY <3>1, <3>3 DEF Feed!RequestAnalysis, Feed!JobIds, Feed!Candles, JobIds, Candles
    <3> QED
      BY <2>4, <3>2, <3>3 DEF AddAnalysisJob
  <2>5. CASE UNCHANGED <<candles, jobs>>
    BY <2>5
  <2> QED
    BY <2>1, <2>2, <2>3, <2>4, <2>5
    DEF MarketNext, SyncStep, ListenerStep, StartSync, AddSyncJob, RunSyncJob,
        FetchCandles, CompleteSync, EmitSynced, MarkSyncFailed, SyncDies,
        enqueueAnalysis, Debounce, ForgetRecent, Tick, eventVars, marketVars
<1> QED
  BY <1>1, <1>2, MarketInvariant, PTL DEF MarketSpec, FeedImplemented, Feed!FeedSpec
=============================================================================
