----------------------------- MODULE CandleFeed -----------------------------
(***************************************************************************)
(* What market data promises to the rest of the system: candles are added  *)
(* and never removed, and the analysis of a candle is asked for only when  *)
(* the candle is stored.  An analysis may also be asked for by a call that *)
(* names no candle.                                                        *)
(***************************************************************************)
EXTENDS CandleIds

VARIABLES
  history,   \* the candles that are stored
  requested  \* the ids of the analysis jobs that were added to the queue

feedVars == <<history, requested>>

FeedInit == history = {} /\ requested = {}

StoreCandles(cs) ==
  /\ history' = history \cup cs
  /\ UNCHANGED requested

RequestAnalysis(j) ==
  /\ j \in history \cup Calls
  /\ requested' = requested \cup {j}
  /\ UNCHANGED history

FeedNext ==
  \/ \E cs \in SUBSET Candles : StoreCandles(cs)
  \/ \E j \in JobIds : RequestAnalysis(j)

FeedSpec == FeedInit /\ [][FeedNext]_feedVars
=============================================================================
