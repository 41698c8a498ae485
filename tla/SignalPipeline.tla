--------------------------- MODULE SignalPipeline ---------------------------
(***************************************************************************)
(* From a stored candle to a trading signal: the technical-analysis jobs   *)
(* that market data asks for, the decisions they store, the                *)
(* signal-generation jobs those become and the signals they store.         *)
(*                                                                         *)
(*   technical-analysis job -> AgentDecision                               *)
(*   -> TECHNICAL_ANALYSIS_COMPLETED -> signal-generation job              *)
(*   -> TradingSignal, SIGNAL_CREATED                                      *)
(*                                                                         *)
(* Market data is its abstract specification CandleFeed.  Neither job      *)
(* carries candles: each reads the newest ones when it runs.  A job whose  *)
(* worker dies or loses its lock is taken up again from its start.  Calls  *)
(* of the endpoints run the same services without a queue.                 *)
(***************************************************************************)
EXTENDS CandleFeed, FiniteSets

CONSTANTS
  MinCandles,    \* technicalAgent.minCandles
  MaxDecisions,  \* bound on the technical decisions
  MaxAttempts,   \* attempts of a job of either queue
  MaxFaults      \* bound on calls, failing statements and deaths

Decisions  == 1..MaxDecisions
Generators == Decisions \cup Calls

ASSUME SignalPipelineAssumption ==
  /\ MinCandles \in Nat \ {0}
  /\ MaxDecisions \in Nat
  /\ MaxAttempts \in Nat \ {0}
  /\ MaxFaults \in Nat
  /\ Decisions \cap Calls = {}

VARIABLES
  request,   \* what each call asks for
  taAt,      \* where each technical analysis is: a job, or that of a call
  taTries,   \* failed attempts of each technical-analysis job
  newest,    \* the newest candle each analysis read
  basis,     \* decision -> the newest candle it is about, 0 when there is none
  tradable,  \* decisions with enough confidence and a bias
  sgAt,      \* where each generation is: the job of a decision, or a call
  sgTries,   \* failed attempts of each signal-generation job
  subject,   \* the decision each generation is about
  latest,    \* the newest candle each generation read
  signals,   \* TradingSignal rows
  announced, \* candles whose SIGNAL_CREATED was emitted
  sgHit,     \* generations that were interrupted
  faults     \* calls and faults so far

analysisVars == <<taTries, newest, basis, tradable>>
signalVars == <<sgTries, subject, latest, signals, announced, sgHit>>
pipelineVars == <<feedVars, request, taAt, analysisVars, sgAt, signalVars, faults>>

Requests        == {"none", "enqueue", "analyse", "generate"}
AnalysisSteps   == {"absent", "waiting", "analyse", "failed"}
GenerationSteps == {"absent", "adding", "lost", "waiting", "find", "create", "failed",
                    "done"}
SignalRows      == [candle : Candles, decision : Decisions, by : Generators]

PipelineTypeOK ==
  /\ history \subseteq Candles
  /\ requested \subseteq JobIds
  /\ request \in [Calls -> Requests]
  /\ taAt \in [JobIds -> AnalysisSteps]
  /\ taTries \in [JobIds -> 0..MaxAttempts]
  /\ newest \in [JobIds -> 0..MaxCandle]
  /\ basis \in [Decisions -> 0..MaxCandle]
  /\ tradable \subseteq Decisions
  /\ sgAt \in [Generators -> GenerationSteps]
  /\ sgTries \in [Generators -> 0..MaxAttempts]
  /\ subject \in [Generators -> 0..MaxDecisions]
  /\ latest \in [Generators -> 0..MaxCandle]
  /\ signals \subseteq SignalRows
  /\ announced \subseteq Candles
  /\ sgHit \subseteq Generators
  /\ faults \in 0..MaxFaults

PipelineInit ==
  /\ FeedInit
  /\ request = [p \in Calls |-> "none"]
  /\ taAt = [j \in JobIds |-> "absent"]
  /\ taTries = [j \in JobIds |-> 0]
  /\ newest = [j \in JobIds |-> 0]
  /\ basis = [d \in Decisions |-> 0]
  /\ tradable = {}
  /\ sgAt = [g \in Generators |-> "absent"]
  /\ sgTries = [g \in Generators |-> 0]
  /\ subject = [g \in Generators |-> IF g \in Decisions THEN g ELSE 0]
  /\ latest = [g \in Generators |-> 0]
  /\ signals = {}
  /\ announced = {}
  /\ sgHit = {}
  /\ faults = 0

-----------------------------------------------------------------------------
(* Candles and requests                                                    *)

Fault == faults < MaxFaults /\ faults' = faults + 1

StartCall(p, r) ==
  /\ Fault
  /\ request[p] = "none"
  /\ request' = [request EXCEPT ![p] = r]

NewCandles ==
  /\ \E cs \in SUBSET Candles : StoreCandles(cs)
  /\ UNCHANGED <<request, taAt, analysisVars, sgAt, signalVars, faults>>

\* The queue ignores the add of an id it still holds, also as a failed job.
RequestJob(j) ==
  /\ RequestAnalysis(j)
  /\ IF j \in Calls THEN StartCall(j, "enqueue") ELSE UNCHANGED <<request, faults>>
  /\ taAt' = [taAt EXCEPT ![j] = IF @ = "absent" THEN "waiting" ELSE @]
  /\ UNCHANGED <<analysisVars, sgAt, signalVars>>

-----------------------------------------------------------------------------
(* Technical analysis                                                      *)

\* The analyses that are jobs; the others answer a call.
Queued(j) == j \in Candles \/ request[j] = "enqueue"

AnalysisGoes(j, from, to) ==
  /\ taAt[j] = from
  /\ taAt' = [taAt EXCEPT ![j] = to]

\* Variant: failed jobs are removed.
Removed(j) == "absent"

\* What a call leaves behind is nothing; a failed job stays in the queue.
Ended(j) == IF Queued(j) THEN "failed" ELSE "absent"

\* An error the processor lets the queue retry.
AnalysisFails(j, from) ==
  IF Queued(j) /\ taTries[j] + 1 < MaxAttempts
  THEN AnalysisGoes(j, from, "waiting") /\ taTries' = [taTries EXCEPT ![j] = @ + 1]
  ELSE AnalysisGoes(j, from, Ended(j)) /\ UNCHANGED taTries

\* POST /agents/technical/analyze runs the use case in the request.
analyzeTechnical(p) ==
  /\ StartCall(p, "analyse")
  /\ AnalysisGoes(p, "absent", "waiting")
  /\ UNCHANGED <<feedVars, analysisVars, sgAt, signalVars>>

\* The candles are the newest at this moment, whatever the job is about.  Too few
\* of them or an inactive instrument end it for good.
ReadCandles(j) ==
  /\ \/ /\ Cardinality(history) >= MinCandles
        /\ AnalysisGoes(j, "waiting", "analyse")
        /\ \E n \in history : IsNewest(n, history) /\ newest' = [newest EXCEPT ![j] = n]
        /\ UNCHANGED faults
     \/ /\ Cardinality(history) < MinCandles
        /\ AnalysisGoes(j, "waiting", Ended(j))
        /\ UNCHANGED <<newest, faults>>
     \/ Fault /\ AnalysisGoes(j, "waiting", Ended(j)) /\ UNCHANGED newest
  /\ UNCHANGED <<feedVars, request, taTries, basis, tradable, sgAt, signalVars>>

\* The next decision, in the order they are stored.
NextDecision(d) == basis[d] = 0 /\ \A e \in Decisions : e < d => basis[e] # 0

\* The worker's answer is stored as a TECHNICAL decision, with or without the
\* confidence and the bias a signal needs.
StoreDecision(j, d) ==
  /\ NextDecision(d)
  /\ basis' = [basis EXCEPT ![d] = newest[j]]
  /\ tradable' \in {tradable, tradable \cup {d}}

\* The answer is stored and TECHNICAL_ANALYSIS_COMPLETED emitted, and the queue
\* removes the completed job, so that its id may be added again; or the worker
\* or the database fails, for another attempt; or the answer is no JSON.
Analyse(j) ==
  /\ \/ /\ AnalysisGoes(j, "analyse", "absent")
        /\ \E d \in Decisions :
             StoreDecision(j, d) /\ sgAt' = [sgAt EXCEPT ![d] = "adding"]
        /\ taTries' = [taTries EXCEPT ![j] = 0]
        /\ UNCHANGED faults
     \/ Fault /\ AnalysisFails(j, "analyse") /\ UNCHANGED <<basis, tradable, sgAt>>
     \/ /\ Fault
        /\ AnalysisGoes(j, "analyse", Ended(j))
        /\ UNCHANGED <<taTries, basis, tradable, sgAt>>
  /\ newest' = [newest EXCEPT ![j] = 0]
  /\ UNCHANGED <<feedVars, request, signalVars>>

\* The process dies or loses the lock: before the decision is stored, before its
\* event is emitted, or after.  The queue hands the job out again or gives it up.
AnalysisDies(j) ==
  /\ Fault
  /\ \E next \in {Ended(j), IF Queued(j) THEN "waiting" ELSE "absent"} :
       AnalysisGoes(j, "analyse", next)
  /\ \/ \E d \in Decisions, to \in {"adding", "lost"} :
          StoreDecision(j, d) /\ sgAt' = [sgAt EXCEPT ![d] = to]
     \/ UNCHANGED <<basis, tradable, sgAt>>
  /\ newest' = [newest EXCEPT ![j] = 0]
  /\ UNCHANGED <<feedVars, request, taTries, signalVars>>

-----------------------------------------------------------------------------
(* Signal generation                                                       *)

GenerationGoes(g, from, to) ==
  /\ sgAt[g] = from
  /\ sgAt' = [sgAt EXCEPT ![g] = to]

GenerationFails(g, from) ==
  IF g \notin Calls /\ sgTries[g] + 1 < MaxAttempts
  THEN GenerationGoes(g, from, "waiting") /\ sgTries' = [sgTries EXCEPT ![g] = @ + 1]
  ELSE GenerationGoes(g, from, "failed") /\ UNCHANGED sgTries

\* POST /signals/generate names a decision, or means the newest one.
generate(p) ==
  /\ StartCall(p, "generate")
  /\ GenerationGoes(p, "absent", "waiting")
  /\ \E d \in Decisions : basis[d] # 0 /\ subject' = [subject EXCEPT ![p] = d]
  /\ UNCHANGED <<feedVars, taAt, analysisVars, sgTries, latest, signals, announced, sgHit>>

\* Variant: the job id names the candle instead of the decision.
AddByCandle(d) ==
  /\ d \in Decisions
  /\ LET held == \E e \in Decisions \ {d} :
                   basis[e] = basis[d] /\ sgAt[e] \notin {"absent", "adding", "lost", "done"}
     IN GenerationGoes(d, "adding", IF held THEN "absent" ELSE "waiting")
  /\ UNCHANGED <<feedVars, request, taAt, faults, analysisVars, signalVars>>

\* The producer's listener puts the job in the queue; its id names the decision.
AddGenerationJob(d) ==
  /\ d \in Decisions
  /\ \/ GenerationGoes(d, "adding", "waiting") /\ UNCHANGED faults
     \/ Fault /\ GenerationGoes(d, "adding", "lost")
  /\ UNCHANGED <<feedVars, request, taAt, analysisVars, signalVars>>

\* Variant: the oldest candles are read.
ReadOldest(g) ==
  /\ GenerationGoes(g, "waiting", "find")
  /\ \E n \in history : (\A c \in history : n <= c) /\ latest' = [latest EXCEPT ![g] = n]
  /\ UNCHANGED <<feedVars, request, taAt, faults, analysisVars, sgTries,
                 subject, signals, announced, sgHit>>

\* A decision without confidence or bias makes no signal.  The candles are read
\* now, so that the newest may be another than the decision is about.
ReadLatest(g) ==
  /\ \/ /\ subject[g] \in tradable
        /\ GenerationGoes(g, "waiting", "find")
        /\ \E n \in history : IsNewest(n, history) /\ latest' = [latest EXCEPT ![g] = n]
     \/ /\ subject[g] \notin tradable
        /\ GenerationGoes(g, "waiting", "done")
        /\ UNCHANGED latest
  /\ UNCHANGED <<feedVars, request, taAt, faults, analysisVars, sgTries,
                 subject, signals, announced, sgHit>>

HasSignal(c) == \E x \in signals : x.candle = c

\* A signal of the candle makes this one a duplicate; the strategies may find
\* no reason for one either.
findByCandleKey(g) ==
  /\ \/ ~HasSignal(latest[g]) /\ GenerationGoes(g, "find", "create") /\ UNCHANGED latest
     \/ GenerationGoes(g, "find", "done") /\ latest' = [latest EXCEPT ![g] = 0]
  /\ UNCHANGED <<feedVars, request, taAt, faults, analysisVars, sgTries,
                 subject, signals, announced, sgHit>>

Signal(g) == [candle |-> latest[g], decision |-> subject[g], by |-> g]

\* Variant: the table has no unique key.
CreateWithoutKey(g) ==
  /\ GenerationGoes(g, "create", "done")
  /\ signals' = signals \cup {Signal(g)}
  /\ announced' = announced \cup {latest[g]}
  /\ latest' = [latest EXCEPT ![g] = 0]
  /\ UNCHANGED <<feedVars, request, taAt, faults, analysisVars, sgTries, subject, sgHit>>

\* Instrument, timeframe and candle are unique: the second row is an error that
\* the processor lets the queue retry.  SIGNAL_CREATED follows the insert.
CreateSignal(g) ==
  /\ \/ /\ ~HasSignal(latest[g])
        /\ GenerationGoes(g, "create", "done")
        /\ signals' = signals \cup {Signal(g)}
        /\ announced' = announced \cup {latest[g]}
        /\ UNCHANGED <<faults, sgTries>>
     \/ /\ HasSignal(latest[g])
        /\ GenerationFails(g, "create")
        /\ UNCHANGED <<signals, announced, faults>>
     \/ Fault /\ GenerationFails(g, "create") /\ UNCHANGED <<signals, announced>>
  /\ latest' = [latest EXCEPT ![g] = 0]
  /\ UNCHANGED <<feedVars, request, taAt, analysisVars, subject, sgHit>>

\* The process dies or loses the lock: before the signal is stored, before its
\* event is emitted, or after.
GenerationDies(g) ==
  /\ Fault
  /\ sgAt[g] \in {"find", "create"}
  /\ \E next \in {"failed", IF g \in Calls THEN "failed" ELSE "waiting"} :
       sgAt' = [sgAt EXCEPT ![g] = next]
  /\ \/ UNCHANGED <<signals, announced>>
     \/ /\ sgAt[g] = "create" /\ ~HasSignal(latest[g])
        /\ signals' = signals \cup {Signal(g)}
        /\ announced' \in {announced, announced \cup {latest[g]}}
  /\ latest' = [latest EXCEPT ![g] = 0]
  /\ sgHit' = sgHit \cup {g}
  /\ UNCHANGED <<feedVars, request, taAt, analysisVars, sgTries, subject>>

-----------------------------------------------------------------------------
AnalysisStep(j) == ReadCandles(j) \/ Analyse(j)

GenerationStep(g) ==
  \/ AddGenerationJob(g) \/ ReadLatest(g) \/ findByCandleKey(g) \/ CreateSignal(g)

PipelineNext ==
  \/ NewCandles
  \/ \E p \in Calls : analyzeTechnical(p) \/ generate(p)
  \/ \E j \in JobIds : RequestJob(j) \/ AnalysisStep(j) \/ AnalysisDies(j)
  \/ \E g \in Generators : GenerationStep(g) \/ GenerationDies(g)

PipelineSpec == PipelineInit /\ [][PipelineNext]_pipelineVars

\* Requests and workers go on: nothing they do next waits for ever.  A failure
\* is a step beside the others, and nothing makes one happen.
PipelineFairness ==
  /\ \A j \in JobIds : WF_pipelineVars(AnalysisStep(j))
  /\ \A g \in Generators : WF_pipelineVars(GenerationStep(g))

FairPipelineSpec == PipelineSpec /\ PipelineFairness

-----------------------------------------------------------------------------
(* Properties                                                              *)

\* A candle whose job was added is analysed: its job is in the queue or at work,
\* was given up and shows there as failed, or a decision is about this candle or
\* a newer one.  The job reads the newest candles, and its id may be added again
\* and ignored meanwhile.
AddedIsAnalysed ==
  \A c \in requested \cap Candles :
    \/ taAt[c] # "absent"
    \/ \E d \in Decisions : basis[d] >= c

\* A signal is never for an older candle than its decision is about, though the
\* generation reads the candles anew, later, and maybe more than once.
MovesForward ==
  \A x \in signals : 0 < basis[x.decision] /\ basis[x.decision] <= x.candle

\* A candle has one signal, each is announced, and a generation makes one: unless
\* the generation was interrupted, which may leave a signal that the risk agent
\* never hears of and, when a new candle closed meanwhile, makes a second one.
SignalsExplained ==
  \A x, y \in signals :
    /\ x.candle = y.candle => x = y
    /\ x.candle \in announced \/ x.by \in sgHit
    /\ x.by = y.by => x = y \/ x.by \in sgHit

\* Again and again there is a moment at which no analysis waits (the bound on
\* decisions aside) and every stored decision has been dealt with by signal
\* generation, unless its event was lost on the way.
JobsEnd ==
  []<>(/\ \A j \in JobIds : taAt[j] # "waiting" \/ \A d \in Decisions : basis[d] # 0
       /\ \A d \in Decisions : basis[d] # 0 => sgAt[d] \in {"done", "failed", "lost"})
=============================================================================
