----------------------------- MODULE CandleIds ------------------------------
(***************************************************************************)
(* Candles of one instrument and timeframe, numbered in the order of their *)
(* timestamps, and the ids of technical-analysis jobs: a candle's, or one  *)
(* of the queue's own for a call that names no candle.                     *)
(***************************************************************************)
EXTENDS Naturals

CONSTANTS
  Calls,      \* calls of endpoints
  MaxCandle   \* bound on the candles

Candles == 1..MaxCandle
JobIds  == Candles \cup Calls

ASSUME CandleIdsAssumption ==
  /\ MaxCandle \in Nat \ {0}
  /\ Candles \cap Calls = {}

\* The newest of a set of candles; repositories order by timestamp.
IsNewest(n, cs) == n \in cs /\ \A c \in cs : c <= n
=============================================================================
