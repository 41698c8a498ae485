------------------------------ MODULE EmaTrend ------------------------------
(***************************************************************************)
(* EMA_TREND_STRATEGY, the strategy that signal generation and backtests   *)
(* evaluate: a trend that the three EMAs agree on and the RSI confirms, no *)
(* level in the way, and a stop and a target at multiples of the ATR.      *)
(* Prices are integers of some unit; RSI is a percentage.  A reading has   *)
(* the parameters of the strategy's active version in it.                  *)
(***************************************************************************)
EXTENDS Integers, Sequences

CONSTANTS
  Readings,    \* what the strategy may be shown
  StopTenths,  \* signals.atrStopLossMultiplier, in tenths
  TakeTenths   \* signals.atrTakeProfitMultiplier, in tenths

\* trendConsistencyCandles and the other parameters, or what stands in for them.
ParameterRows ==
  [rsiBuyMin : Int, rsiBuyMax : Int, rsiSellMin : Int, rsiSellMax : Int,
   atrStableMax : Int, consistency : Nat]

\* ranging and conflicted are true of a market that is, where that blocks.  A level of
\* 0 is a level the analysis does not know.  entry is the close of the latest candle,
\* closes those of the candles the strategy is given, the oldest first.
ReadingRows ==
  [complete : BOOLEAN, ranging : BOOLEAN, conflicted : BOOLEAN,
   ema20 : Int, ema50 : Int, ema200 : Int, rsi : Int, atr : Int,
   support : Int, resistance : Int, entry : Nat \ {0}, closes : Seq(Int),
   params : ParameterRows]

ASSUME EmaTrendAssumption ==
  /\ Readings \subseteq ReadingRows
  /\ StopTenths \in Nat
  /\ TakeTenths \in Nat

VARIABLES
  reading,  \* the context of the last evaluation
  verdict   \* its result

emaVars == <<reading, verdict>>

-----------------------------------------------------------------------------
Entry(r) == r.entry

Between(x, low, high) == low <= x /\ x <= high

\* An indicator is missing, or the market or the timeframes speak against.
Blocked(r) == ~r.complete \/ r.ranging \/ r.conflicted

\* Within 0.3 per cent above the entry, or below it.
isTooCloseToResistance(r) ==
  /\ r.resistance # 0
  /\ r.resistance > Entry(r)
  /\ (r.resistance - Entry(r)) * 1000 <= 3 * Entry(r)

\* Variant: the comparison of the other side.
SupportAsResistance(r) ==
  /\ r.support # 0
  /\ r.support > Entry(r)
  /\ (r.support - Entry(r)) * 1000 <= 3 * Entry(r)

isTooCloseToSupport(r) ==
  /\ r.support # 0
  /\ r.support < Entry(r)
  /\ (Entry(r) - r.support) * 1000 <= 3 * Entry(r)

Buys(r) ==
  /\ r.ema20 > r.ema50 /\ r.ema50 > r.ema200
  /\ Between(r.rsi, r.params.rsiBuyMin, r.params.rsiBuyMax)

Sells(r) ==
  /\ r.ema20 < r.ema50 /\ r.ema50 < r.ema200
  /\ Between(r.rsi, r.params.rsiSellMin, r.params.rsiSellMax)

\* The neighbours among the last candles, all of them when the parameter is 0.
Neighbours(r) ==
  LET n == Len(r.closes) IN
  (IF r.params.consistency = 0 THEN 1 ELSE n - r.params.consistency + 1)..(n - 1)

\* isConsistentTrend, for each direction; too few candles are no trend.
Rising(r) ==
  /\ Len(r.closes) >= r.params.consistency
  /\ \A k \in Neighbours(r) : r.closes[k] <= r.closes[k + 1]

Falling(r) ==
  /\ Len(r.closes) >= r.params.consistency
  /\ \A k \in Neighbours(r) : r.closes[k] >= r.closes[k + 1]

calculateConfidence(r, steady) ==
  50 + 20 + 15 + (IF r.atr * 100 <= r.params.atrStableMax * Entry(r) THEN 10 ELSE 0)
               + (IF steady THEN 5 ELSE 0)

noSignal(r) ==
  [direction |-> "NONE", entry |-> Entry(r), stop |-> 0, take |-> 0, confidence |-> 0]

Signals(r, direction, stop, take, steady) ==
  [direction |-> direction, entry |-> Entry(r), stop |-> stop, take |-> take,
   confidence |-> calculateConfidence(r, steady)]

AtrTimes(r, tenths) == (r.atr * tenths) \div 10

evaluate(r) ==
  IF ~Blocked(r) /\ Buys(r) /\ ~isTooCloseToResistance(r)
  THEN Signals(r, "BUY", Entry(r) - AtrTimes(r, StopTenths),
               Entry(r) + AtrTimes(r, TakeTenths), Rising(r))
  ELSE IF ~Blocked(r) /\ Sells(r) /\ ~isTooCloseToSupport(r)
  THEN Signals(r, "SELL", Entry(r) + AtrTimes(r, StopTenths),
               Entry(r) - AtrTimes(r, TakeTenths), Falling(r))
  ELSE noSignal(r)

-----------------------------------------------------------------------------
VerdictRows ==
  [direction : {"NONE", "BUY", "SELL"}, entry : Int, stop : Int, take : Int,
   confidence : 0..100]

EmaTypeOK == reading \in ReadingRows /\ verdict \in VerdictRows

EmaInit == reading \in Readings /\ verdict = evaluate(reading)

Evaluate ==
  /\ reading' \in Readings
  /\ verdict' = evaluate(reading')

EmaSpec == EmaInit /\ [][Evaluate]_emaVars

-----------------------------------------------------------------------------
(* Properties                                                              *)

\* The same market seen upside down: prices reflected at the entry, and the RSI ranges
\* of the parameters exchanged.
Flip(r, x) == IF x = 0 THEN 0 ELSE 2 * Entry(r) - x

Reflected(r, x) == 2 * Entry(r) - x

MirrorParams(p) ==
  [rsiBuyMin |-> 100 - p.rsiSellMax, rsiBuyMax |-> 100 - p.rsiSellMin,
   rsiSellMin |-> 100 - p.rsiBuyMax, rsiSellMax |-> 100 - p.rsiBuyMin,
   atrStableMax |-> p.atrStableMax, consistency |-> p.consistency]

Mirror(r) ==
  [complete |-> r.complete, ranging |-> r.ranging, conflicted |-> r.conflicted,
   ema20 |-> Reflected(r, r.ema20), ema50 |-> Reflected(r, r.ema50),
   ema200 |-> Reflected(r, r.ema200), rsi |-> 100 - r.rsi, atr |-> r.atr,
   support |-> Flip(r, r.resistance), resistance |-> Flip(r, r.support),
   entry |-> r.entry, closes |-> [k \in 1..Len(r.closes) |-> Reflected(r, r.closes[k])],
   params |-> MirrorParams(r.params)]

MirrorVerdict(r, v) ==
  IF v.direction = "NONE" THEN v
  ELSE [direction |-> IF v.direction = "BUY" THEN "SELL" ELSE "BUY",
        entry |-> v.entry, stop |-> Reflected(r, v.stop),
        take |-> Reflected(r, v.take), confidence |-> v.confidence]

\* The strategy has two hand-written halves, one for each direction: they say the
\* same of a market and of its mirror image, in their filters, stops, targets and
\* confidence, whatever the parameters, provided that these are mirrored too.  (The
\* stand-ins for absent parameters are their own mirror image.)
EmaMirror == evaluate(Mirror(reading)) = MirrorVerdict(reading, verdict)
=============================================================================
