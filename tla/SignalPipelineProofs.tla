------------------------- MODULE SignalPipelineProofs -------------------------
(***************************************************************************)
(* AddedIsAnalysed, MovesForward and SignalsExplained, for any number of   *)
(* candles, calls, decisions, attempts and faults.                         *)
(***************************************************************************)
EXTENDS SignalPipeline, TLAPS

\* A candle is stored before its job exists, an analysis at work has read a stored
\* candle no older than its own, and a decision is about a stored candle.
AnalysesSound ==
  /\ \A c \in Candles : c \in requested \/ taAt[c] # "absent" => c \in history
  /\ \A j \in JobIds :
       taAt[j] = "analyse" => newest[j] \in history /\ (j \in Candles => j <= newest[j])
  /\ \A d \in Decisions : basis[d] # 0 => basis[d] \in history

\* A generation is about a stored decision, and has read a candle no older than that.
GenerationsSound ==
  /\ \A d \in Decisions : subject[d] = d
  /\ \A g \in Generators :
       sgAt[g] # "absent" => subject[g] \in Decisions /\ basis[subject[g]] # 0
  /\ \A g \in Generators :
       sgAt[g] \in {"find", "create"} =>
         latest[g] \in history /\ basis[subject[g]] <= latest[g]

\* A generation that was never interrupted is done once it has made a signal.
MadeOnce ==
  \A x \in signals : x.by \in sgHit \/ sgAt[x.by] = "done"

PipelineInv ==
  /\ PipelineTypeOK /\ AnalysesSound /\ GenerationsSound /\ MadeOnce
  /\ AddedIsAnalysed /\ MovesForward /\ SignalsExplained

-----------------------------------------------------------------------------
\* The jobs are of candles and of calls, and the generations of decisions and of calls.
LEMMA PipelineIds ==
  /\ \A c \in Candles : c \in JobIds /\ c \notin Calls /\ c \in 0..MaxCandle /\ c # 0
  /\ \A d \in Decisions :
       d \in Generators /\ d \notin Calls /\ d \in 0..MaxDecisions /\ d # 0
  /\ \A p \in Calls : p \in JobIds /\ p \in Generators
  /\ \A j \in JobIds : j \in Candles \/ j \in Calls
  /\ \A g \in Generators : g \in Decisions \/ g \in Calls
  /\ 0 \in 0..MaxCandle /\ 0 \in 0..MaxDecisions
  /\ MaxFaults \in Nat /\ MaxAttempts \in Nat \ {0}
BY SignalPipelineAssumption, CandleIdsAssumption DEF JobIds, Generators, Candles, Decisions

\* Nothing exists at the beginning.
LEMMA PipelineInitInv == PipelineInit => PipelineInv
<1> SUFFICES ASSUME PipelineInit PROVE PipelineInv
  OBVIOUS
<1> USE PipelineIds DEF PipelineInit, FeedInit
<1>1. PipelineTypeOK
  BY DEF PipelineTypeOK, Requests, AnalysisSteps, GenerationSteps
<1>2. AnalysesSound /\ GenerationsSound /\ MadeOnce
  BY DEF AnalysesSound, GenerationsSound, MadeOnce
<1>3. AddedIsAnalysed /\ MovesForward /\ SignalsExplained
  BY DEF AddedIsAnalysed, MovesForward, SignalsExplained
<1> QED
  BY <1>1, <1>2, <1>3 DEF PipelineInv

-----------------------------------------------------------------------------
\* Decision d is stored for analysis j and its generation announced, or lost.
Decided(j, d) ==
  /\ basis[d] = 0
  /\ basis' = [basis EXCEPT ![d] = newest[j]]
  /\ tradable' \subseteq tradable \cup {d}
  /\ \E to \in {"adding", "lost"} : sgAt' = [sgAt EXCEPT ![d] = to]

\* Analysis j left no decision; a candle's job is still there.
AnalysisEnds(j) ==
  UNCHANGED <<basis, tradable, sgAt>> /\ (j \in Candles => taAt'[j] # "absent")

\* What an analysis at work leaves behind, however it goes.
AnalysisRan(j) ==
  /\ UNCHANGED <<history, requested, request, sgTries, subject, latest, signals,
                 announced, sgHit>>
  /\ taAt[j] = "analyse"
  /\ \E to \in {"waiting", "absent", "failed"} : taAt' = [taAt EXCEPT ![j] = to]
  /\ newest' = [newest EXCEPT ![j] = 0]
  /\ taTries' \in [JobIds -> 0..MaxAttempts]
  /\ faults' \in 0..MaxFaults
  /\ AnalysisEnds(j) \/ \E d \in Decisions : Decided(j, d)

\* Both ways out of an analysis are such a run.
LEMMA AnalysisOutcome ==
  ASSUME PipelineTypeOK, NEW j \in JobIds, Analyse(j) \/ AnalysisDies(j)
  PROVE  AnalysisRan(j)
<1> USE PipelineIds DEF PipelineTypeOK, feedVars, signalVars, AnalysisGoes, Ended, Queued
<1>1. /\ UNCHANGED <<history, requested, request, sgTries, subject, latest, signals,
                     announced, sgHit>>
      /\ newest' = [newest EXCEPT ![j] = 0]
  BY DEF Analyse, AnalysisDies
<1>2. taAt[j] = "analyse"
  BY DEF Analyse, AnalysisDies, AnalysisFails
<1>3. \E to \in {"waiting", "absent", "failed"} : taAt' = [taAt EXCEPT ![j] = to]
  BY DEF Analyse, AnalysisDies, AnalysisFails
<1>4. taTries' \in [JobIds -> 0..MaxAttempts]
  BY DEF Analyse, AnalysisDies, AnalysisFails
<1>5. faults' \in 0..MaxFaults
  BY DEF Analyse, AnalysisDies, Fault
<1>6. ASSUME NEW d \in Decisions, StoreDecision(j, d),
             \E to \in {"adding", "lost"} : sgAt' = [sgAt EXCEPT ![d] = to]
      PROVE  Decided(j, d)
  BY <1>6 DEF StoreDecision, NextDecision, Decided
<1>7. AnalysisEnds(j) \/ \E d \in Decisions : Decided(j, d)
  <2>1. CASE UNCHANGED <<basis, tradable, sgAt>>
    <3>1. CASE Analyse(j)
      BY <2>1, <3>1, <1>6 DEF Analyse, AnalysisFails, AnalysisEnds
    <3>2. CASE AnalysisDies(j)
      BY <2>1, <3>2 DEF AnalysisDies, AnalysisEnds
    <3> QED
      BY <3>1, <3>2
  <2>2. CASE \E d \in Decisions, to \in {"adding", "lost"} :
               StoreDecision(j, d) /\ sgAt' = [sgAt EXCEPT ![d] = to]
    BY <1>6, <2>2
  <2> QED
    BY <2>1, <2>2 DEF Analyse, AnalysisDies
<1> QED
  BY <1>1, <1>2, <1>3, <1>4, <1>5, <1>7 DEF AnalysisRan

\* Every step keeps the types.
LEMMA PipelineStepTypes == PipelineTypeOK /\ AnalysesSound /\ GenerationsSound /\ [PipelineNext]_pipelineVars => PipelineTypeOK'
<1> SUFFICES ASSUME PipelineTypeOK /\ AnalysesSound /\ GenerationsSound, [PipelineNext]_pipelineVars PROVE PipelineTypeOK'
  OBVIOUS
<1> USE PipelineIds
    DEF PipelineTypeOK, feedVars, analysisVars, signalVars, Requests, AnalysisSteps, GenerationSteps, Fault
<1>1. ASSUME NewCandles PROVE PipelineTypeOK'
  BY <1>1 DEF NewCandles, StoreCandles
<1>2. ASSUME NEW p \in Calls, analyzeTechnical(p) PROVE PipelineTypeOK'
  BY <1>2 DEF analyzeTechnical, StartCall, AnalysisGoes
<1>3. ASSUME NEW p \in Calls, generate(p) PROVE PipelineTypeOK'
  BY <1>3 DEF generate, StartCall, GenerationGoes
<1>4. ASSUME NEW j \in JobIds, RequestJob(j) PROVE PipelineTypeOK'
  BY <1>4 DEF RequestJob, RequestAnalysis, StartCall
<1>5. ASSUME NEW j \in JobIds, ReadCandles(j) PROVE PipelineTypeOK'
  BY <1>5 DEF ReadCandles, AnalysisGoes, Ended, Queued, IsNewest
<1>6. ASSUME NEW j \in JobIds, Analyse(j) PROVE PipelineTypeOK'
  <2>1. AnalysisRan(j)
    BY <1>6, AnalysisOutcome
  <2>2. CASE AnalysisEnds(j)
    BY <2>1, <2>2 DEF AnalysisRan, AnalysisEnds
  <2>3. ASSUME NEW d \in Decisions, Decided(j, d) PROVE PipelineTypeOK'
    BY <2>1, <2>3 DEF AnalysisRan, Decided
  <2> QED
    BY <2>1, <2>2, <2>3 DEF AnalysisRan
<1>7. ASSUME NEW j \in JobIds, AnalysisDies(j) PROVE PipelineTypeOK'
  <2>1. AnalysisRan(j)
    BY <1>7, AnalysisOutcome
  <2>2. CASE AnalysisEnds(j)
    BY <2>1, <2>2 DEF AnalysisRan, AnalysisEnds
  <2>3. ASSUME NEW d \in Decisions, Decided(j, d) PROVE PipelineTypeOK'
    BY <2>1, <2>3 DEF AnalysisRan, Decided
  <2> QED
    BY <2>1, <2>2, <2>3 DEF AnalysisRan
<1>8. ASSUME NEW g \in Generators, AddGenerationJob(g) PROVE PipelineTypeOK'
  BY <1>8 DEF AddGenerationJob, GenerationGoes
<1>9. ASSUME NEW g \in Generators, ReadLatest(g) PROVE PipelineTypeOK'
  BY <1>9 DEF ReadLatest, GenerationGoes, IsNewest
<1>10. ASSUME NEW g \in Generators, findByCandleKey(g) PROVE PipelineTypeOK'
  BY <1>10 DEF findByCandleKey, GenerationGoes
<1>11. ASSUME NEW g \in Generators, CreateSignal(g) PROVE PipelineTypeOK'
  <2>1. sgAt[g] = "create" => Signal(g) \in SignalRows /\ latest[g] \in Candles
    BY DEF Signal, SignalRows, GenerationsSound, AnalysesSound
  <2>2. sgAt[g] = "create" \/ UNCHANGED <<signals, announced>>
    BY <1>11 DEF CreateSignal, GenerationGoes, GenerationFails
  <2>3. signals' \subseteq SignalRows /\ announced' \subseteq Candles
    BY <1>11, <2>1, <2>2 DEF CreateSignal, GenerationGoes, GenerationFails
  <2>4. sgAt' \in [Generators -> GenerationSteps]
    BY <1>11 DEF CreateSignal, GenerationGoes, GenerationFails
  <2>5. sgTries' \in [Generators -> 0..MaxAttempts] /\ faults' \in 0..MaxFaults
    BY <1>11 DEF CreateSignal, GenerationGoes, GenerationFails
  <2> QED
    BY <1>11, <2>3, <2>4, <2>5 DEF CreateSignal
<1>12. ASSUME NEW g \in Generators, GenerationDies(g) PROVE PipelineTypeOK'
  <2>1. sgAt[g] = "create" => Signal(g) \in SignalRows /\ latest[g] \in Candles
    BY DEF Signal, SignalRows, GenerationsSound, AnalysesSound
  <2>2. sgAt[g] = "create" \/ UNCHANGED <<signals, announced>>
    BY <1>12 DEF GenerationDies
  <2>3. signals' \subseteq SignalRows /\ announced' \subseteq Candles
    BY <1>12, <2>1, <2>2 DEF GenerationDies
  <2>4. sgAt' \in [Generators -> GenerationSteps]
    BY <1>12 DEF GenerationDies
  <2>5. sgTries' \in [Generators -> 0..MaxAttempts] /\ faults' \in 0..MaxFaults
    BY <1>12 DEF GenerationDies
  <2> QED
    BY <1>12, <2>3, <2>4, <2>5 DEF GenerationDies
<1>13. CASE UNCHANGED pipelineVars
  BY <1>13 DEF pipelineVars
<1> QED
  BY <1>1, <1>2, <1>3, <1>4, <1>5, <1>6, <1>7, <1>8, <1>9, <1>10, <1>11, <1>12, <1>13
  DEF PipelineNext, AnalysisStep, GenerationStep

\* Candles and decisions stay, and the newest candle is read.
LEMMA AnalysesStep == PipelineTypeOK /\ AnalysesSound /\ [PipelineNext]_pipelineVars => AnalysesSound'
<1> SUFFICES ASSUME PipelineTypeOK /\ AnalysesSound, [PipelineNext]_pipelineVars PROVE AnalysesSound'
  OBVIOUS
<1> USE PipelineIds
    DEF PipelineTypeOK, feedVars, analysisVars, signalVars, AnalysesSound
<1>1. ASSUME NewCandles PROVE AnalysesSound'
  BY <1>1 DEF NewCandles, StoreCandles
<1>2. ASSUME NEW p \in Calls, analyzeTechnical(p) PROVE AnalysesSound'
  BY <1>2 DEF analyzeTechnical, StartCall, AnalysisGoes
<1>3. ASSUME NEW p \in Calls, generate(p) PROVE AnalysesSound'
  BY <1>3 DEF generate, StartCall, GenerationGoes
<1>4. ASSUME NEW j \in JobIds, RequestJob(j) PROVE AnalysesSound'
  BY <1>4 DEF RequestJob, RequestAnalysis, StartCall
<1>5. ASSUME NEW j \in JobIds, ReadCandles(j) PROVE AnalysesSound'
  BY <1>5 DEF ReadCandles, AnalysisGoes, Ended, Queued, IsNewest
<1>6. ASSUME NEW j \in JobIds, Analyse(j) PROVE AnalysesSound'
  <2>1. AnalysisRan(j)
    BY <1>6, AnalysisOutcome
  <2>2. CASE AnalysisEnds(j)
    BY <2>1, <2>2 DEF AnalysisRan, AnalysisEnds
  <2>3. ASSUME NEW d \in Decisions, Decided(j, d) PROVE AnalysesSound'
    BY <2>1, <2>3 DEF AnalysisRan, Decided
  <2> QED
    BY <2>1, <2>2, <2>3 DEF AnalysisRan
<1>7. ASSUME NEW j \in JobIds, AnalysisDies(j) PROVE AnalysesSound'
  <2>1. AnalysisRan(j)
    BY <1>7, AnalysisOutcome
  <2>2. CASE AnalysisEnds(j)
    BY <2>1, <2>2 DEF AnalysisRan, AnalysisEnds
  <2>3. ASSUME NEW d \in Decisions, Decided(j, d) PROVE AnalysesSound'
    BY <2>1, <2>3 DEF AnalysisRan, Decided
  <2> QED
    BY <2>1, <2>2, <2>3 DEF AnalysisRan
<1>8. ASSUME NEW g \in Generators, AddGenerationJob(g) PROVE AnalysesSound'
  BY <1>8 DEF AddGenerationJob, GenerationGoes
<1>9. ASSUME NEW g \in Generators, ReadLatest(g) PROVE AnalysesSound'
  BY <1>9 DEF ReadLatest, GenerationGoes, IsNewest
<1>10. ASSUME NEW g \in Generators, findByCandleKey(g) PROVE AnalysesSound'
  BY <1>10 DEF findByCandleKey, GenerationGoes
<1>11. ASSUME NEW g \in Generators, CreateSignal(g) PROVE AnalysesSound'
  BY <1>11 DEF CreateSignal, GenerationGoes, GenerationFails, Signal, HasSignal
<1>12. ASSUME NEW g \in Generators, GenerationDies(g) PROVE AnalysesSound'
  BY <1>12 DEF GenerationDies, Signal, HasSignal
<1>13. CASE UNCHANGED pipelineVars
  BY <1>13 DEF pipelineVars
<1> QED
  BY <1>1, <1>2, <1>3, <1>4, <1>5, <1>6, <1>7, <1>8, <1>9, <1>10, <1>11, <1>12, <1>13
  DEF PipelineNext, AnalysisStep, GenerationStep

\* Decisions do not change, and candles are read after them.
LEMMA GenerationsStep == PipelineTypeOK /\ AnalysesSound /\ GenerationsSound /\ [PipelineNext]_pipelineVars => GenerationsSound'
<1> SUFFICES ASSUME PipelineTypeOK /\ AnalysesSound /\ GenerationsSound, [PipelineNext]_pipelineVars PROVE GenerationsSound'
  OBVIOUS
<1> USE PipelineIds
    DEF PipelineTypeOK, feedVars, analysisVars, signalVars, GenerationsSound, AnalysesSound
<1>1. ASSUME NewCandles PROVE GenerationsSound'
  BY <1>1 DEF NewCandles, StoreCandles
<1>2. ASSUME NEW p \in Calls, analyzeTechnical(p) PROVE GenerationsSound'
  BY <1>2 DEF analyzeTechnical, StartCall, AnalysisGoes
<1>3. ASSUME NEW p \in Calls, generate(p) PROVE GenerationsSound'
  BY <1>3 DEF generate, StartCall, GenerationGoes
<1>4. ASSUME NEW j \in JobIds, RequestJob(j) PROVE GenerationsSound'
  BY <1>4 DEF RequestJob, RequestAnalysis, StartCall
<1>5. ASSUME NEW j \in JobIds, ReadCandles(j) PROVE GenerationsSound'
  BY <1>5 DEF ReadCandles, AnalysisGoes, Ended, Queued, IsNewest
<1>6. ASSUME NEW j \in JobIds, Analyse(j) PROVE GenerationsSound'
  <2>1. AnalysisRan(j)
    BY <1>6, AnalysisOutcome
  <2>2. CASE AnalysisEnds(j)
    BY <2>1, <2>2 DEF AnalysisRan, AnalysisEnds
  <2>3. ASSUME NEW d \in Decisions, Decided(j, d) PROVE GenerationsSound'
    BY <2>1, <2>3 DEF AnalysisRan, Decided
  <2> QED
    BY <2>1, <2>2, <2>3 DEF AnalysisRan
<1>7. ASSUME NEW j \in JobIds, AnalysisDies(j) PROVE GenerationsSound'
  <2>1. AnalysisRan(j)
    BY <1>7, AnalysisOutcome
  <2>2. CASE AnalysisEnds(j)
    BY <2>1, <2>2 DEF AnalysisRan, AnalysisEnds
  <2>3. ASSUME NEW d \in Decisions, Decided(j, d) PROVE GenerationsSound'
    BY <2>1, <2>3 DEF AnalysisRan, Decided
  <2> QED
    BY <2>1, <2>2, <2>3 DEF AnalysisRan
<1>8. ASSUME NEW g \in Generators, AddGenerationJob(g) PROVE GenerationsSound'
  BY <1>8 DEF AddGenerationJob, GenerationGoes
<1>9. ASSUME NEW g \in Generators, ReadLatest(g) PROVE GenerationsSound'
  BY <1>9 DEF ReadLatest, GenerationGoes, IsNewest
<1>10. ASSUME NEW g \in Generators, findByCandleKey(g) PROVE GenerationsSound'
  BY <1>10 DEF findByCandleKey, GenerationGoes
<1>11. ASSUME NEW g \in Generators, CreateSignal(g) PROVE GenerationsSound'
  BY <1>11 DEF CreateSignal, GenerationGoes, GenerationFails, Signal, HasSignal
<1>12. ASSUME NEW g \in Generators, GenerationDies(g) PROVE GenerationsSound'
  BY <1>12 DEF GenerationDies, Signal, HasSignal
<1>13. CASE UNCHANGED pipelineVars
  BY <1>13 DEF pipelineVars
<1> QED
  BY <1>1, <1>2, <1>3, <1>4, <1>5, <1>6, <1>7, <1>8, <1>9, <1>10, <1>11, <1>12, <1>13
  DEF PipelineNext, AnalysisStep, GenerationStep

\* Whoever makes a signal is done or marked.
LEMMA MadeStep == PipelineTypeOK /\ AnalysesSound /\ GenerationsSound /\ MadeOnce /\ [PipelineNext]_pipelineVars => MadeOnce'
<1> SUFFICES ASSUME PipelineTypeOK /\ AnalysesSound /\ GenerationsSound /\ MadeOnce, [PipelineNext]_pipelineVars PROVE MadeOnce'
  OBVIOUS
<1> USE PipelineIds
    DEF PipelineTypeOK, feedVars, analysisVars, signalVars, MadeOnce, GenerationsSound, SignalRows
<1>1. ASSUME NewCandles PROVE MadeOnce'
  BY <1>1 DEF NewCandles, StoreCandles
<1>2. ASSUME NEW p \in Calls, analyzeTechnical(p) PROVE MadeOnce'
  BY <1>2 DEF analyzeTechnical, StartCall, AnalysisGoes
<1>3. ASSUME NEW p \in Calls, generate(p) PROVE MadeOnce'
  BY <1>3 DEF generate, StartCall, GenerationGoes
<1>4. ASSUME NEW j \in JobIds, RequestJob(j) PROVE MadeOnce'
  BY <1>4 DEF RequestJob, RequestAnalysis, StartCall
<1>5. ASSUME NEW j \in JobIds, ReadCandles(j) PROVE MadeOnce'
  BY <1>5 DEF ReadCandles, AnalysisGoes, Ended, Queued, IsNewest
<1>6. ASSUME NEW j \in JobIds, Analyse(j) PROVE MadeOnce'
  <2>1. AnalysisRan(j)
    BY <1>6, AnalysisOutcome
  <2>2. CASE AnalysisEnds(j)
    BY <2>1, <2>2 DEF AnalysisRan, AnalysisEnds
  <2>3. ASSUME NEW d \in Decisions, Decided(j, d) PROVE MadeOnce'
    BY <2>1, <2>3 DEF AnalysisRan, Decided
  <2> QED
    BY <2>1, <2>2, <2>3 DEF AnalysisRan
<1>7. ASSUME NEW j \in JobIds, AnalysisDies(j) PROVE MadeOnce'
  <2>1. AnalysisRan(j)
    BY <1>7, AnalysisOutcome
  <2>2. CASE AnalysisEnds(j)
    BY <2>1, <2>2 DEF AnalysisRan, AnalysisEnds
  <2>3. ASSUME NEW d \in Decisions, Decided(j, d) PROVE MadeOnce'
    BY <2>1, <2>3 DEF AnalysisRan, Decided
  <2> QED
    BY <2>1, <2>2, <2>3 DEF AnalysisRan
<1>8. ASSUME NEW g \in Generators, AddGenerationJob(g) PROVE MadeOnce'
  BY <1>8 DEF AddGenerationJob, GenerationGoes
<1>9. ASSUME NEW g \in Generators, ReadLatest(g) PROVE MadeOnce'
  BY <1>9 DEF ReadLatest, GenerationGoes, IsNewest
<1>10. ASSUME NEW g \in Generators, findByCandleKey(g) PROVE MadeOnce'
  BY <1>10 DEF findByCandleKey, GenerationGoes
<1>11. ASSUME NEW g \in Generators, CreateSignal(g) PROVE MadeOnce'
  BY <1>11 DEF CreateSignal, GenerationGoes, GenerationFails, Signal, HasSignal
<1>12. ASSUME NEW g \in Generators, GenerationDies(g) PROVE MadeOnce'
  BY <1>12 DEF GenerationDies, Signal, HasSignal
<1>13. CASE UNCHANGED pipelineVars
  BY <1>13 DEF pipelineVars
<1> QED
  BY <1>1, <1>2, <1>3, <1>4, <1>5, <1>6, <1>7, <1>8, <1>9, <1>10, <1>11, <1>12, <1>13
  DEF PipelineNext, AnalysisStep, GenerationStep

\* A job of a candle leaves the queue when its decision is stored.
LEMMA AddedStep == PipelineTypeOK /\ AnalysesSound /\ AddedIsAnalysed /\ [PipelineNext]_pipelineVars => AddedIsAnalysed'
<1> SUFFICES ASSUME PipelineTypeOK /\ AnalysesSound /\ AddedIsAnalysed, [PipelineNext]_pipelineVars PROVE AddedIsAnalysed'
  OBVIOUS
<1> USE PipelineIds
    DEF PipelineTypeOK, feedVars, analysisVars, signalVars, AddedIsAnalysed, AnalysesSound
<1>1. ASSUME NewCandles PROVE AddedIsAnalysed'
  BY <1>1 DEF NewCandles, StoreCandles
<1>2. ASSUME NEW p \in Calls, analyzeTechnical(p) PROVE AddedIsAnalysed'
  BY <1>2 DEF analyzeTechnical, StartCall, AnalysisGoes
<1>3. ASSUME NEW p \in Calls, generate(p) PROVE AddedIsAnalysed'
  BY <1>3 DEF generate, StartCall, GenerationGoes
<1>4. ASSUME NEW j \in JobIds, RequestJob(j) PROVE AddedIsAnalysed'
  BY <1>4 DEF RequestJob, RequestAnalysis, StartCall
<1>5. ASSUME NEW j \in JobIds, ReadCandles(j) PROVE AddedIsAnalysed'
  BY <1>5 DEF ReadCandles, AnalysisGoes, Ended, Queued, IsNewest
<1>6. ASSUME NEW j \in JobIds, Analyse(j) PROVE AddedIsAnalysed'
  <2>1. AnalysisRan(j)
    BY <1>6, AnalysisOutcome
  <2>2. CASE AnalysisEnds(j)
    BY <2>1, <2>2 DEF AnalysisRan, AnalysisEnds
  <2>3. ASSUME NEW d \in Decisions, Decided(j, d) PROVE AddedIsAnalysed'
    BY <2>1, <2>3 DEF AnalysisRan, Decided
  <2> QED
    BY <2>1, <2>2, <2>3 DEF AnalysisRan
<1>7. ASSUME NEW j \in JobIds, AnalysisDies(j) PROVE AddedIsAnalysed'
  <2>1. AnalysisRan(j)
    BY <1>7, AnalysisOutcome
  <2>2. CASE AnalysisEnds(j)
    BY <2>1, <2>2 DEF AnalysisRan, AnalysisEnds
  <2>3. ASSUME NEW d \in Decisions, Decided(j, d) PROVE AddedIsAnalysed'
    BY <2>1, <2>3 DEF AnalysisRan, Decided
  <2> QED
    BY <2>1, <2>2, <2>3 DEF AnalysisRan
<1>8. ASSUME NEW g \in Generators, AddGenerationJob(g) PROVE AddedIsAnalysed'
  BY <1>8 DEF AddGenerationJob, GenerationGoes
<1>9. ASSUME NEW g \in Generators, ReadLatest(g) PROVE AddedIsAnalysed'
  BY <1>9 DEF ReadLatest, GenerationGoes, IsNewest
<1>10. ASSUME NEW g \in Generators, findByCandleKey(g) PROVE AddedIsAnalysed'
  BY <1>10 DEF findByCandleKey, GenerationGoes
<1>11. ASSUME NEW g \in Generators, CreateSignal(g) PROVE AddedIsAnalysed'
  BY <1>11 DEF CreateSignal, GenerationGoes, GenerationFails, Signal, HasSignal
<1>12. ASSUME NEW g \in Generators, GenerationDies(g) PROVE AddedIsAnalysed'
  BY <1>12 DEF GenerationDies, Signal, HasSignal
<1>13. CASE UNCHANGED pipelineVars
  BY <1>13 DEF pipelineVars
<1> QED
  BY <1>1, <1>2, <1>3, <1>4, <1>5, <1>6, <1>7, <1>8, <1>9, <1>10, <1>11, <1>12, <1>13
  DEF PipelineNext, AnalysisStep, GenerationStep

\* A signal is stored for the candle its generation read.
LEMMA ForwardStep == PipelineTypeOK /\ AnalysesSound /\ GenerationsSound /\ MovesForward /\ [PipelineNext]_pipelineVars => MovesForward'
<1> SUFFICES ASSUME PipelineTypeOK /\ AnalysesSound /\ GenerationsSound /\ MovesForward, [PipelineNext]_pipelineVars PROVE MovesForward'
  OBVIOUS
<1> USE PipelineIds
    DEF PipelineTypeOK, feedVars, analysisVars, signalVars, MovesForward, GenerationsSound
<1>1. ASSUME NewCandles PROVE MovesForward'
  BY <1>1 DEF NewCandles, StoreCandles
<1>2. ASSUME NEW p \in Calls, analyzeTechnical(p) PROVE MovesForward'
  BY <1>2 DEF analyzeTechnical, StartCall, AnalysisGoes
<1>3. ASSUME NEW p \in Calls, generate(p) PROVE MovesForward'
  BY <1>3 DEF generate, StartCall, GenerationGoes
<1>4. ASSUME NEW j \in JobIds, RequestJob(j) PROVE MovesForward'
  BY <1>4 DEF RequestJob, RequestAnalysis, StartCall
<1>5. ASSUME NEW j \in JobIds, ReadCandles(j) PROVE MovesForward'
  BY <1>5 DEF ReadCandles, AnalysisGoes, Ended, Queued, IsNewest
<1>6. ASSUME NEW j \in JobIds, Analyse(j) PROVE MovesForward'
  <2>1. AnalysisRan(j)
    BY <1>6, AnalysisOutcome
  <2>2. CASE AnalysisEnds(j)
    BY <2>1, <2>2 DEF AnalysisRan, AnalysisEnds
  <2>3. ASSUME NEW d \in Decisions, Decided(j, d) PROVE MovesForward'
    BY <2>1, <2>3 DEF AnalysisRan, Decided
  <2> QED
    BY <2>1, <2>2, <2>3 DEF AnalysisRan
<1>7. ASSUME NEW j \in JobIds, AnalysisDies(j) PROVE MovesForward'
  <2>1. AnalysisRan(j)
    BY <1>7, AnalysisOutcome
  <2>2. CASE AnalysisEnds(j)
    BY <2>1, <2>2 DEF AnalysisRan, AnalysisEnds
  <2>3. ASSUME NEW d \in Decisions, Decided(j, d) PROVE MovesForward'
    BY <2>1, <2>3 DEF AnalysisRan, Decided
  <2> QED
    BY <2>1, <2>2, <2>3 DEF AnalysisRan
<1>8. ASSUME NEW g \in Generators, AddGenerationJob(g) PROVE MovesForward'
  BY <1>8 DEF AddGenerationJob, GenerationGoes
<1>9. ASSUME NEW g \in Generators, ReadLatest(g) PROVE MovesForward'
  BY <1>9 DEF ReadLatest, GenerationGoes, IsNewest
<1>10. ASSUME NEW g \in Generators, findByCandleKey(g) PROVE MovesForward'
  BY <1>10 DEF findByCandleKey, GenerationGoes
<1>11. ASSUME NEW g \in Generators, CreateSignal(g) PROVE MovesForward'
  BY <1>11 DEF CreateSignal, GenerationGoes, GenerationFails, Signal, HasSignal
<1>12. ASSUME NEW g \in Generators, GenerationDies(g) PROVE MovesForward'
  BY <1>12 DEF GenerationDies, Signal, HasSignal
<1>13. CASE UNCHANGED pipelineVars
  BY <1>13 DEF pipelineVars
<1> QED
  BY <1>1, <1>2, <1>3, <1>4, <1>5, <1>6, <1>7, <1>8, <1>9, <1>10, <1>11, <1>12, <1>13
  DEF PipelineNext, AnalysisStep, GenerationStep

\* A signal is stored once, and announced unless its maker is marked.
LEMMA ExplainedStep == PipelineTypeOK /\ AnalysesSound /\ MadeOnce /\ SignalsExplained /\ [PipelineNext]_pipelineVars => SignalsExplained'
<1> SUFFICES ASSUME PipelineTypeOK /\ AnalysesSound /\ MadeOnce /\ SignalsExplained, [PipelineNext]_pipelineVars PROVE SignalsExplained'
  OBVIOUS
<1> USE PipelineIds
    DEF PipelineTypeOK, feedVars, analysisVars, signalVars, SignalsExplained, MadeOnce
<1>1. ASSUME NewCandles PROVE SignalsExplained'
  BY <1>1 DEF NewCandles, StoreCandles
<1>2. ASSUME NEW p \in Calls, analyzeTechnical(p) PROVE SignalsExplained'
  BY <1>2 DEF analyzeTechnical, StartCall, AnalysisGoes
<1>3. ASSUME NEW p \in Calls, generate(p) PROVE SignalsExplained'
  BY <1>3 DEF generate, StartCall, GenerationGoes
<1>4. ASSUME NEW j \in JobIds, RequestJob(j) PROVE SignalsExplained'
  BY <1>4 DEF RequestJob, RequestAnalysis, StartCall
<1>5. ASSUME NEW j \in JobIds, ReadCandles(j) PROVE SignalsExplained'
  BY <1>5 DEF ReadCandles, AnalysisGoes, Ended, Queued, IsNewest
<1>6. ASSUME NEW j \in JobIds, Analyse(j) PROVE SignalsExplained'
  <2>1. AnalysisRan(j)
    BY <1>6, AnalysisOutcome
  <2>2. CASE AnalysisEnds(j)
    BY <2>1, <2>2 DEF AnalysisRan, AnalysisEnds
  <2>3. ASSUME NEW d \in Decisions, Decided(j, d) PROVE SignalsExplained'
    BY <2>1, <2>3 DEF AnalysisRan, Decided
  <2> QED
    BY <2>1, <2>2, <2>3 DEF AnalysisRan
<1>7. ASSUME NEW j \in JobIds, AnalysisDies(j) PROVE SignalsExplained'
  <2>1. AnalysisRan(j)
    BY <1>7, AnalysisOutcome
  <2>2. CASE AnalysisEnds(j)
    BY <2>1, <2>2 DEF AnalysisRan, AnalysisEnds
  <2>3. ASSUME NEW d \in Decisions, Decided(j, d) PROVE SignalsExplained'
    BY <2>1, <2>3 DEF AnalysisRan, Decided
  <2> QED
    BY <2>1, <2>2, <2>3 DEF AnalysisRan
<1>8. ASSUME NEW g \in Generators, AddGenerationJob(g) PROVE SignalsExplained'
  BY <1>8 DEF AddGenerationJob, GenerationGoes
<1>9. ASSUME NEW g \in Generators, ReadLatest(g) PROVE SignalsExplained'
  BY <1>9 DEF ReadLatest, GenerationGoes, IsNewest
<1>10. ASSUME NEW g \in Generators, findByCandleKey(g) PROVE SignalsExplained'
  BY <1>10 DEF findByCandleKey, GenerationGoes
<1>11. ASSUME NEW g \in Generators, CreateSignal(g) PROVE SignalsExplained'
  BY <1>11 DEF CreateSignal, GenerationGoes, GenerationFails, Signal, HasSignal
<1>12. ASSUME NEW g \in Generators, GenerationDies(g) PROVE SignalsExplained'
  BY <1>12 DEF GenerationDies, Signal, HasSignal
<1>13. CASE UNCHANGED pipelineVars
  BY <1>13 DEF pipelineVars
<1> QED
  BY <1>1, <1>2, <1>3, <1>4, <1>5, <1>6, <1>7, <1>8, <1>9, <1>10, <1>11, <1>12, <1>13
  DEF PipelineNext, AnalysisStep, GenerationStep

-----------------------------------------------------------------------------
\* The invariant is inductive.
THEOREM PipelineInvariant == PipelineSpec => []PipelineInv
<1>1. PipelineInv /\ [PipelineNext]_pipelineVars => PipelineInv'
  BY PipelineStepTypes, AnalysesStep, GenerationsStep, MadeStep, AddedStep, ForwardStep,
     ExplainedStep
  DEF PipelineInv
<1> QED
  BY <1>1, PipelineInitInv, PTL DEF PipelineSpec

\* A candle whose analysis was asked for is analysed, by a job of its own or a later
\* one, or its job is there to be seen.
THEOREM AddedAreAnalysed == PipelineSpec => []AddedIsAnalysed
BY PipelineInvariant, PTL DEF PipelineInv

\* No signal is older than what it was decided on.
THEOREM SignalsMoveForward == PipelineSpec => []MovesForward
BY PipelineInvariant, PTL DEF PipelineInv

\* Signals are unique, announced and one of each generation, interruptions aside.
THEOREM SignalsAreExplained == PipelineSpec => []SignalsExplained
BY PipelineInvariant, PTL DEF PipelineInv
=============================================================================
