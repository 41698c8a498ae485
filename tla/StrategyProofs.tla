---------------------------- MODULE StrategyProofs ----------------------------
(***************************************************************************)
(* The strategy and the backtest that replays it, for every market, length *)
(* of the run and money.                                                   *)
(*                                                                         *)
(* The two halves of the strategy mirror each other.  A trade is what a    *)
(* look back at the prices says because an open trade that has been shown  *)
(* a candle was not touched by it: index divides the open trades into      *)
(* those that have seen the newest candle and those that have not.  The    *)
(* row is honest because the loop over the balance keeps a fall that no    *)
(* fall it has passed exceeds, and because a step from a moment below the  *)
(* peak falls no deeper than one from the peak.                            *)
(***************************************************************************)
EXTENDS Backtest, SequenceTheorems, TLAPS

-----------------------------------------------------------------------------
(* The halves of the strategy.                                             *)

\* The mirror image of a market has its entry, its ATR and what blocks it, and every
\* other field reflected.
LEMMA MirrorFields ==
  ASSUME NEW r \in ReadingRows
  PROVE  /\ Entry(r) \in Nat /\ Entry(r) > 0
         /\ Entry(Mirror(r)) = Entry(r)
         /\ Mirror(r).atr = r.atr
         /\ Blocked(Mirror(r)) <=> Blocked(r)
         /\ Mirror(r).rsi = 100 - r.rsi
         /\ Mirror(r).ema20 = 2 * Entry(r) - r.ema20
         /\ Mirror(r).ema50 = 2 * Entry(r) - r.ema50
         /\ Mirror(r).ema200 = 2 * Entry(r) - r.ema200
         /\ Mirror(r).support = Flip(r, r.resistance)
         /\ Mirror(r).resistance = Flip(r, r.support)
         /\ Mirror(r).params = MirrorParams(r.params)
         /\ Len(Mirror(r).closes) = Len(r.closes)
         /\ \A k \in 1..Len(r.closes) : Mirror(r).closes[k] = 2 * Entry(r) - r.closes[k]
<1>1. Entry(r) \in Nat /\ Entry(r) > 0
  BY DEF Entry, ReadingRows
<1>2. /\ r.closes \in Seq(Int)
      /\ Mirror(r).closes = [k \in 1..Len(r.closes) |-> Reflected(r, r.closes[k])]
  BY DEF Mirror, ReadingRows
<1>3. \A k \in 1..Len(r.closes) : Mirror(r).closes[k] = 2 * Entry(r) - r.closes[k]
  BY <1>2 DEF Reflected
<1>4. Len(Mirror(r).closes) = Len(r.closes)
  <2>1. Len(r.closes) \in Nat
    BY <1>2, LenProperties
  <2> QED
    BY <1>2, <2>1
<1>5. Entry(Mirror(r)) = Entry(r)
  BY DEF Entry, Mirror
<1> QED
  BY <1>1, <1>3, <1>4, <1>5 DEF Mirror, ReadingRows, Blocked, Reflected

\* A range seen from 100.
LEMMA MirrorRange ==
  ASSUME NEW x \in Int, NEW low \in Int, NEW high \in Int
  PROVE  Between(100 - x, 100 - high, 100 - low) <=> Between(x, low, high)
BY DEF Between

\* A market is bought when its mirror image is sold, and the other way round.
LEMMA MirrorTrends ==
  ASSUME NEW r \in ReadingRows
  PROVE  /\ Buys(Mirror(r)) <=> Sells(r)
         /\ Sells(Mirror(r)) <=> Buys(r)
         /\ Rising(Mirror(r)) <=> Falling(r)
         /\ Falling(Mirror(r)) <=> Rising(r)
         /\ ~(Buys(r) /\ Sells(r))
<1>1. /\ {r.ema20, r.ema50, r.ema200, r.rsi} \subseteq Int
      /\ r.closes \in Seq(Int) /\ r.params \in ParameterRows
  BY DEF ReadingRows
<1>2. ~(Buys(r) /\ Sells(r))
  BY <1>1 DEF Buys, Sells
<1>3. /\ r.params.rsiBuyMin \in Int /\ r.params.rsiBuyMax \in Int
      /\ r.params.rsiSellMin \in Int /\ r.params.rsiSellMax \in Int
      /\ r.params.consistency \in Nat
  BY <1>1 DEF ParameterRows
<1>4. /\ Mirror(r).params.rsiBuyMin = 100 - r.params.rsiSellMax
      /\ Mirror(r).params.rsiBuyMax = 100 - r.params.rsiSellMin
      /\ Mirror(r).params.rsiSellMin = 100 - r.params.rsiBuyMax
      /\ Mirror(r).params.rsiSellMax = 100 - r.params.rsiBuyMin
      /\ Mirror(r).params.consistency = r.params.consistency
  <2>1. Mirror(r).params = MirrorParams(r.params)
    BY MirrorFields
  <2> QED
    BY <2>1 DEF MirrorParams
<1>5. (Buys(Mirror(r)) <=> Sells(r)) /\ (Sells(Mirror(r)) <=> Buys(r))
  <2>1. /\ Mirror(r).rsi = 100 - r.rsi /\ Entry(r) \in Int
        /\ Mirror(r).ema20 = 2 * Entry(r) - r.ema20
        /\ Mirror(r).ema50 = 2 * Entry(r) - r.ema50
        /\ Mirror(r).ema200 = 2 * Entry(r) - r.ema200
    BY MirrorFields
  <2>2. /\ Mirror(r).ema20 > Mirror(r).ema50 <=> r.ema20 < r.ema50
        /\ Mirror(r).ema20 < Mirror(r).ema50 <=> r.ema20 > r.ema50
        /\ Mirror(r).ema50 > Mirror(r).ema200 <=> r.ema50 < r.ema200
        /\ Mirror(r).ema50 < Mirror(r).ema200 <=> r.ema50 > r.ema200
    BY <1>1, <2>1
  <2>3. /\ Between(Mirror(r).rsi, Mirror(r).params.rsiBuyMin, Mirror(r).params.rsiBuyMax)
             <=> Between(r.rsi, r.params.rsiSellMin, r.params.rsiSellMax)
        /\ Between(Mirror(r).rsi, Mirror(r).params.rsiSellMin, Mirror(r).params.rsiSellMax)
             <=> Between(r.rsi, r.params.rsiBuyMin, r.params.rsiBuyMax)
    <3>1. r.rsi \in Int
      BY <1>1
    <3>2. /\ Between(100 - r.rsi, 100 - r.params.rsiSellMax, 100 - r.params.rsiSellMin)
               <=> Between(r.rsi, r.params.rsiSellMin, r.params.rsiSellMax)
          /\ Between(100 - r.rsi, 100 - r.params.rsiBuyMax, 100 - r.params.rsiBuyMin)
               <=> Between(r.rsi, r.params.rsiBuyMin, r.params.rsiBuyMax)
      BY <1>3, <3>1, MirrorRange
    <3> QED
      BY <1>4, <2>1, <3>2, Zenon
  <2> QED
    BY <2>2, <2>3 DEF Buys, Sells
<1>6. (Rising(Mirror(r)) <=> Falling(r)) /\ (Falling(Mirror(r)) <=> Rising(r))
  <2>1. Len(r.closes) \in Nat /\ \A k \in 1..Len(r.closes) : r.closes[k] \in Int
    BY <1>1, LenProperties, ElementOfSeq
  <2>2. CASE Len(r.closes) >= r.params.consistency
    <3>1. Neighbours(Mirror(r)) = Neighbours(r)
      BY <1>4, MirrorFields DEF Neighbours
    <3>2. \A k \in Neighbours(r) : k \in 1..Len(r.closes) /\ k + 1 \in 1..Len(r.closes)
      BY <1>3, <2>1, <2>2 DEF Neighbours
    <3>3. ASSUME NEW k \in Neighbours(r)
          PROVE  /\ Mirror(r).closes[k] <= Mirror(r).closes[k + 1]
                      <=> r.closes[k] >= r.closes[k + 1]
                 /\ Mirror(r).closes[k] >= Mirror(r).closes[k + 1]
                      <=> r.closes[k] <= r.closes[k + 1]
      <4>1. k \in 1..Len(r.closes) /\ k + 1 \in 1..Len(r.closes)
        BY <3>2
      <4>2. r.closes[k] \in Int /\ r.closes[k + 1] \in Int
        BY <2>1, <4>1
      <4>3. /\ Mirror(r).closes[k] = 2 * Entry(r) - r.closes[k]
            /\ Mirror(r).closes[k + 1] = 2 * Entry(r) - r.closes[k + 1]
            /\ Entry(r) \in Int
        BY <4>1, MirrorFields
      <4> QED
        BY <4>2, <4>3
    <3> QED
      BY <1>4, <3>1, <3>3, MirrorFields DEF Rising, Falling
  <2>3. CASE ~(Len(r.closes) >= r.params.consistency)
    BY <1>4, <2>3, MirrorFields DEF Rising, Falling
  <2> QED
    BY <2>2, <2>3
<1> QED
  BY <1>2, <1>5, <1>6

\* A resistance in the way is a support in the way of the mirror image.
LEMMA MirrorLevels ==
  ASSUME NEW r \in ReadingRows
  PROVE  /\ isTooCloseToResistance(Mirror(r)) <=> isTooCloseToSupport(r)
         /\ isTooCloseToSupport(Mirror(r)) <=> isTooCloseToResistance(r)
<1>1. r.support \in Int /\ r.resistance \in Int
  BY DEF ReadingRows
<1>2. /\ Entry(Mirror(r)) = Entry(r) /\ Entry(r) \in Int
      /\ Mirror(r).support = Flip(r, r.resistance)
      /\ Mirror(r).resistance = Flip(r, r.support)
  BY MirrorFields
<1> QED
  BY <1>1, <1>2 DEF isTooCloseToResistance, isTooCloseToSupport, Flip

\* The verdict on the mirror image is the mirror image of the verdict.
LEMMA Mirrored ==
  ASSUME NEW r \in ReadingRows
  PROVE  evaluate(Mirror(r)) = MirrorVerdict(r, evaluate(r))
<1> DEFINE m == Mirror(r)
           slip(t) == AtrTimes(r, t)
<1>1. Entry(m) = Entry(r) /\ (Blocked(m) <=> Blocked(r)) /\ Entry(r) \in Int
  BY MirrorFields
<1>2. \A t : AtrTimes(m, t) = AtrTimes(r, t)
  BY MirrorFields DEF AtrTimes
<1>3. slip(StopTenths) \in Int /\ slip(TakeTenths) \in Int
  BY EmaTrendAssumption DEF AtrTimes, ReadingRows
<1>4. \A b \in BOOLEAN : calculateConfidence(m, b) = calculateConfidence(r, b)
  <2>1. m.params = MirrorParams(r.params) /\ m.atr = r.atr /\ Entry(m) = Entry(r)
    BY MirrorFields
  <2>2. m.params.atrStableMax = r.params.atrStableMax
    BY <2>1 DEF MirrorParams
  <2> QED
    BY <2>1, <2>2 DEF calculateConfidence
<1>5. noSignal(m) = noSignal(r) /\ MirrorVerdict(r, noSignal(r)) = noSignal(r)
  BY <1>1 DEF noSignal, MirrorVerdict
<1>6. CASE ~Blocked(r) /\ Buys(r) /\ ~isTooCloseToResistance(r)
  <2>1. evaluate(r) = Signals(r, "BUY", Entry(r) - slip(StopTenths),
                              Entry(r) + slip(TakeTenths), Rising(r))
    BY <1>6, MirrorTrends DEF evaluate
  <2>2. evaluate(m) = Signals(m, "SELL", Entry(r) + slip(StopTenths),
                              Entry(r) - slip(TakeTenths), Falling(m))
    BY <1>1, <1>2, <1>6, MirrorTrends, MirrorLevels DEF evaluate
  <2>3. Falling(m) = Rising(r) /\ Rising(r) \in BOOLEAN
    BY MirrorTrends DEF Rising, Falling
  <2> QED
    BY <1>1, <1>3, <1>4, <2>1, <2>2, <2>3 DEF Signals, MirrorVerdict, Reflected
<1>7. CASE ~Blocked(r) /\ Sells(r) /\ ~isTooCloseToSupport(r)
  <2>1. evaluate(r) = Signals(r, "SELL", Entry(r) + slip(StopTenths),
                              Entry(r) - slip(TakeTenths), Falling(r))
    BY <1>7, MirrorTrends DEF evaluate
  <2>2. evaluate(m) = Signals(m, "BUY", Entry(r) - slip(StopTenths),
                              Entry(r) + slip(TakeTenths), Rising(m))
    BY <1>1, <1>2, <1>7, MirrorTrends, MirrorLevels DEF evaluate
  <2>3. Rising(m) = Falling(r) /\ Falling(r) \in BOOLEAN
    BY MirrorTrends DEF Rising, Falling
  <2> QED
    BY <1>1, <1>3, <1>4, <2>1, <2>2, <2>3 DEF Signals, MirrorVerdict, Reflected
<1>8. CASE /\ ~(~Blocked(r) /\ Buys(r) /\ ~isTooCloseToResistance(r))
           /\ ~(~Blocked(r) /\ Sells(r) /\ ~isTooCloseToSupport(r))
  <2>1. evaluate(r) = noSignal(r)
    BY <1>8 DEF evaluate
  <2>2. evaluate(m) = noSignal(m)
    BY <1>1, <1>8, MirrorTrends, MirrorLevels DEF evaluate
  <2> QED
    BY <1>5, <2>1, <2>2
<1> QED
  BY <1>6, <1>7, <1>8

\* Whatever market the strategy is shown, it says of the mirror image the mirror image
\* of what it says.
THEOREM EmaAlwaysMirrors == EmaSpec => []EmaMirror
<1> DEFINE Judged == reading \in Readings /\ verdict = evaluate(reading)
<1>1. EmaInit => Judged
  BY DEF EmaInit
<1>2. Judged /\ [Evaluate]_emaVars => Judged'
  BY DEF Evaluate, emaVars
<1>3. Judged => EmaMirror
  BY Mirrored, EmaTrendAssumption DEF EmaMirror
<1> QED
  BY <1>1, <1>2, <1>3, PTL DEF EmaSpec

\* A verdict is well formed: its confidence is a percentage.
LEMMA VerdictType ==
  ASSUME NEW r \in ReadingRows
  PROVE  evaluate(r) \in VerdictRows
<1>1. Entry(r) \in Int
  BY DEF Entry, ReadingRows
<1>2. \A m \in Nat : AtrTimes(r, m) \in Int
  <2>1. \A n \in Int : n \div 10 \in Int
    OBVIOUS
  <2>2. \A m \in Nat : r.atr * m \in Int
    BY DEF ReadingRows
  <2> QED
    BY <2>1, <2>2 DEF AtrTimes
<1>3. AtrTimes(r, StopTenths) \in Int /\ AtrTimes(r, TakeTenths) \in Int
  BY <1>2, EmaTrendAssumption
<1>4. \A steady : calculateConfidence(r, steady) \in 0..100
  BY DEF calculateConfidence
<1>5. \A direction \in {"BUY", "SELL"}, stop, take \in Int : \A steady :
        Signals(r, direction, stop, take, steady) \in VerdictRows
  BY <1>1, <1>4 DEF Signals, VerdictRows
<1>6. noSignal(r) \in VerdictRows
  BY <1>1 DEF noSignal, VerdictRows
<1> QED
  BY <1>1, <1>3, <1>5, <1>6 DEF evaluate

\* The strategy's verdicts keep their type.
THEOREM StrategyTyped == EmaSpec => []EmaTypeOK
<1>1. EmaInit => EmaTypeOK
  BY VerdictType, EmaTrendAssumption DEF EmaInit, EmaTypeOK
<1>2. EmaTypeOK /\ [Evaluate]_emaVars => EmaTypeOK'
  BY VerdictType, EmaTrendAssumption DEF Evaluate, emaVars, EmaTypeOK
<1> QED
  BY <1>1, <1>2, PTL DEF EmaSpec

-----------------------------------------------------------------------------
(* Sequences.                                                              *)

\* What is left when one element is removed.
LEMMA RemoveAtProperties ==
  ASSUME NEW S, NEW s \in Seq(S), NEW i \in 1..Len(s)
  PROVE  /\ RemoveAt(s, i) \in Seq(S) /\ Len(RemoveAt(s, i)) = Len(s) - 1
         /\ \A k \in 1..(Len(s) - 1) : RemoveAt(s, i)[k] = IF k < i THEN s[k] ELSE s[k + 1]
<1> DEFINE left == SubSeq(s, 1, i - 1)
           right == SubSeq(s, i + 1, Len(s))
<1>1. Len(s) \in Nat /\ i \in Nat /\ 1 <= i /\ i <= Len(s)
  BY LenProperties
<1>2. \A k \in 1..Len(s) : s[k] \in S
  BY ElementOfSeq
<1>3. left \in Seq(S) /\ Len(left) = i - 1 /\ \A k \in 1..(i - 1) : left[k] = s[k]
  <2>1. \A k \in 1..(i - 1) : s[k] \in S
    BY <1>1, <1>2
  <2>2. /\ left \in Seq(S) /\ Len(left) = IF 1 <= i - 1 THEN i - 1 - 1 + 1 ELSE 0
        /\ \A k \in 1..(i - 1 - 1 + 1) : left[k] = s[1 + k - 1]
    BY <1>1, <2>1, SubSeqProperties
  <2> HIDE DEF left
  <2> QED
    BY <1>1, <2>2
<1>4. /\ right \in Seq(S) /\ Len(right) = Len(s) - i
      /\ \A k \in 1..(Len(s) - i) : right[k] = s[k + i]
  <2>1. \A k \in (i + 1)..Len(s) : s[k] \in S
    BY <1>1, <1>2
  <2>2. /\ right \in Seq(S)
        /\ Len(right) = IF i + 1 <= Len(s) THEN Len(s) - (i + 1) + 1 ELSE 0
        /\ \A k \in 1..(Len(s) - (i + 1) + 1) : right[k] = s[i + 1 + k - 1]
    BY <1>1, <2>1, SubSeqProperties
  <2> HIDE DEF right
  <2> QED
    BY <1>1, <2>2
<1>5. RemoveAt(s, i) = left \o right
  BY DEF RemoveAt
<1> HIDE DEF left, right
<1>6. /\ left \o right \in Seq(S) /\ Len(left \o right) = Len(left) + Len(right)
      /\ \A k \in 1..(Len(left) + Len(right)) :
           (left \o right)[k] = IF k <= Len(left) THEN left[k] ELSE right[k - Len(left)]
  BY <1>3, <1>4, ConcatProperties
<1>7. ASSUME NEW k \in 1..(Len(s) - 1)
      PROVE  RemoveAt(s, i)[k] = IF k < i THEN s[k] ELSE s[k + 1]
  <2>1. CASE k < i
    BY <1>1, <1>3, <1>4, <1>5, <1>6, <2>1
  <2>2. CASE k >= i
    <3>1. RemoveAt(s, i)[k] = right[k - (i - 1)]
      BY <1>1, <1>3, <1>4, <1>5, <1>6, <2>2
    <3>2. right[k - (i - 1)] = s[k - (i - 1) + i]
      BY <1>1, <1>4, <2>2
    <3> QED
      BY <1>1, <2>2, <3>1, <3>2
  <2> QED
    BY <1>1, <2>1, <2>2
<1> QED
  BY <1>1, <1>3, <1>4, <1>5, <1>6, <1>7

-----------------------------------------------------------------------------
(* Arithmetic.                                                             *)

LEMMA Division ==
  ASSUME NEW a \in Nat, NEW d \in Nat, d > 0
  PROVE  a \div d \in Nat /\ (a \div d) * d <= a
OBVIOUS

\* Rounding keeps the sign and adds no more than a half.
LEMMA RoundedBounds ==
  ASSUME NEW n \in Int, NEW d \in Nat, d > 0
  PROVE  /\ Rounded(n, d) \in Int
         /\ n >= 0 => Rounded(n, d) >= 0 /\ 2 * (d * Rounded(n, d)) <= 2 * n + d
         /\ n <= 0 => Rounded(n, d) <= 0 /\ -2 * (d * Rounded(n, d)) <= -2 * n + d
<1> DEFINE q == (2 * Abs(n) + d) \div (2 * d)
<1>1. Abs(n) \in Nat /\ (n >= 0 => Abs(n) = n) /\ (n <= 0 => Abs(n) = -n)
  BY DEF Abs
<1>2. q \in Nat /\ q * (2 * d) <= 2 * Abs(n) + d
  BY <1>1, Division
<1>3. Rounded(n, d) = IF n < 0 THEN -q ELSE q
  BY DEF Rounded
<1>4. n = 0 => q = 0
  BY <1>1, <1>2
<1> HIDE DEF q
<1>5. q * (2 * d) = 2 * (d * q) /\ d * (-q) = -(d * q) /\ d * q \in Int
  BY <1>2
<1> QED
  BY <1>1, <1>2, <1>3, <1>4, <1>5

\* Products keep an order.
LEMMA Scaled ==
  ASSUME NEW x \in Int, NEW y \in Int, NEW z \in Nat, x <= y
  PROVE  x * z <= y * z /\ z * x <= z * y
OBVIOUS

LEMMA Unscaled ==
  ASSUME NEW x \in Int, NEW y \in Int, NEW z \in Nat, z > 0, x * z <= y * z
  PROVE  x <= y
OBVIOUS

LEMMA Signs ==
  ASSUME NEW x \in Int, NEW y \in Int
  PROVE  /\ x * y \in Int
         /\ x >= 0 /\ y >= 0 => x * y >= 0
         /\ x <= 0 /\ y >= 0 => x * y <= 0
         /\ x >= 0 /\ y <= 0 => x * y <= 0
         /\ x <= 0 /\ y <= 0 => x * y >= 0
         /\ x > 0 /\ y > 0 => x * y > 0
         /\ x < 0 /\ y > 0 => x * y < 0
         /\ x > 0 /\ y < 0 => x * y < 0
         /\ x < 0 /\ y < 0 => x * y > 0
OBVIOUS

\* Fractions with positive denominators compare transitively.
LEMMA Transit ==
  ASSUME NEW a \in Int, NEW b \in Nat, NEW c \in Int, NEW d \in Nat, NEW e \in Int, NEW f \in Nat,
         b > 0, d > 0, f > 0, c * b <= a * d, e * d <= c * f
  PROVE  e * b <= a * f
<1>1. (e * d) * b <= (c * f) * b /\ (c * b) * f <= (a * d) * f
  BY Scaled
<1>2. (e * d) * b = (e * b) * d /\ (c * f) * b = (c * b) * f /\ (a * d) * f = (a * f) * d
  OBVIOUS
<1>3. (e * b) * d <= (a * f) * d
  BY <1>1, <1>2
<1> QED
  BY <1>3, Unscaled

-----------------------------------------------------------------------------
(* Types.                                                                  *)

TradeRows ==
  [direction : {"BUY", "SELL"}, entry : Int, stop : Int, take : Int, opened : Nat,
   stake : Int, size : Int]

ClosedRows ==
  [trade : TradeRows, closed : Nat, exit : Int, pnl : Int,
   result : {"WIN", "LOSS", "BREAKEVEN"}]

Formed ==
  /\ stage \in {"idle", "candles", "metrics", "trades", "complete", "failing", "done"}
  /\ bars \in Seq(Shapes) /\ Len(bars) <= BarCount
  /\ pending \in VerdictRows
  /\ openTrades \in Seq(TradeRows)
  /\ index \in 0..Len(openTrades)
  /\ trades \in Seq(ClosedRows)
  /\ balanceHistory \in Seq(Int) /\ Len(balanceHistory) = Len(trades) + 1
  /\ drawdown \in [next : Nat \ {0}, peak : Nat \ {0}, worst : Int \X (Nat \ {0})]
  /\ runRow.status \in {"none", "RUNNING", "COMPLETED", "FAILED"}
  /\ runRow = [status |-> runRow.status, metrics |-> runRow.metrics]
  /\ storedTrades \in {<<>>, trades}
  /\ stage \in {"idle", "candles"} => storedTrades = <<>>

LEMMA Limits ==
  /\ SizeUnits \in Nat /\ SizeUnits > 0 /\ RiskPercent \in Nat /\ RiskPercent > 0
  /\ BarCount \in Nat /\ BarCount > 0 /\ InitialBalance \in Nat /\ InitialBalance > 0
  /\ \A b \in Shapes :
       /\ b.low \in Int /\ b.high \in Int /\ b.close \in Nat /\ b.close > 0
       /\ b.low <= b.close /\ b.close <= b.high
BY BacktestAssumption

\* The stop and the target lie on the sides the direction asks for.
Sides(v) ==
  /\ v.direction = "BUY" => v.stop <= v.take
  /\ v.direction = "SELL" => v.take <= v.stop

LEMMA EvaluateSides ==
  ASSUME NEW r \in ReadingRows, r.atr >= 0
  PROVE  evaluate(r) \in VerdictRows /\ Sides(evaluate(r))
<1>1. Entry(r) \in Int
  BY DEF Entry, ReadingRows
<1>2. \A m \in Nat : AtrTimes(r, m) \in Nat
  <2> SUFFICES ASSUME NEW m \in Nat PROVE AtrTimes(r, m) \in Nat
    OBVIOUS
  <2>1. r.atr \in Nat
    BY DEF ReadingRows
  <2>2. r.atr * m \in Nat
    BY <2>1
  <2> QED
    BY <2>2, Division DEF AtrTimes
<1>3. AtrTimes(r, StopTenths) \in Nat /\ AtrTimes(r, TakeTenths) \in Nat
  BY <1>2, EmaTrendAssumption
<1> QED
  BY <1>1, <1>3, VerdictType DEF evaluate, Signals, noSignal, Sides

-----------------------------------------------------------------------------
(* What a trade earns.                                                     *)

Distance(t) == Abs(t.entry - t.stop)

Sized(t) ==
  /\ t.entry # t.stop
  /\ t.size = Rounded(t.stake * RiskPercent * SizeUnits, 100 * Distance(t))

LEMMA SizeBounds ==
  ASSUME NEW t \in TradeRows, Sized(t)
  PROVE  /\ Distance(t) \in Nat /\ Distance(t) > 0
         /\ t.stake >= 0 => /\ t.size >= 0
                            /\ 2 * (100 * (Distance(t) * t.size))
                                 <= 2 * (t.stake * RiskPercent * SizeUnits) + 100 * Distance(t)
         /\ t.stake <= 0 => t.size <= 0
<1> DEFINE n == t.stake * RiskPercent * SizeUnits
           d == 100 * Distance(t)
<1>1. t.entry \in Int /\ t.stop \in Int /\ t.stake \in Int /\ t.size \in Int
  BY DEF TradeRows
<1>2. Distance(t) \in Nat /\ Distance(t) > 0
  BY <1>1 DEF Distance, Abs, Sized
<1>3. n \in Int /\ (t.stake >= 0 => n >= 0) /\ (t.stake <= 0 => n <= 0)
  <2>1. RiskPercent * SizeUnits \in Nat
    BY Limits
  <2>2. n = t.stake * (RiskPercent * SizeUnits)
    BY <1>1, Limits
  <2> QED
    BY <1>1, <2>1, <2>2, Signs
<1>4. d \in Nat /\ d > 0 /\ d * t.size = 100 * (Distance(t) * t.size)
  BY <1>1, <1>2
<1>5. t.size = Rounded(n, d)
  BY DEF Sized
<1> HIDE DEF n, d
<1>6. /\ n >= 0 => t.size >= 0 /\ 2 * (d * t.size) <= 2 * n + d
      /\ n <= 0 => t.size <= 0
  BY <1>3, <1>4, <1>5, RoundedBounds
<1> QED
  BY <1>2, <1>3, <1>4, <1>6 DEF n, d

\* A trade whose price goes against it no further than its stop.
LEMMA Earned ==
  ASSUME NEW t \in TradeRows, Sized(t), NEW forward \in Int, -Distance(t) <= forward,
         NEW pnl, pnl = Rounded(forward * t.size, SizeUnits)
  PROVE  /\ pnl \in Int
         /\ forward * t.stake >= 0 => pnl >= 0
         /\ forward * t.stake <= 0 => pnl <= 0
         /\ t.stake > 0 => 2 * SizeUnits * (-100 * pnl - t.stake * RiskPercent)
                             <= 100 * (SizeUnits + Distance(t))
<1> DEFINE n == forward * t.size
           U == SizeUnits
           D == Distance(t)
           S == t.stake
<1>1. t.size \in Int /\ S \in Int
  BY DEF TradeRows
<1>2. /\ D \in Nat /\ (S >= 0 => t.size >= 0) /\ (S <= 0 => t.size <= 0)
      /\ S >= 0 => 2 * (100 * (D * t.size)) <= 2 * (S * RiskPercent * U) + 100 * D
  BY SizeBounds
<1>3. U \in Nat /\ U > 0 /\ RiskPercent \in Nat
  BY Limits
<1>4. n \in Int
  BY <1>1
<1>5. /\ pnl \in Int
      /\ n >= 0 => pnl >= 0
      /\ n <= 0 => pnl <= 0 /\ -2 * (U * pnl) <= -2 * n + U
  BY <1>3, <1>4, RoundedBounds
<1>6. /\ forward * S >= 0 => n >= 0
      /\ forward * S <= 0 => n <= 0
  <2>1. CASE S > 0
    BY <1>1, <1>2, <2>1, Signs
  <2>2. CASE S < 0
    BY <1>1, <1>2, <2>2, Signs
  <2>3. CASE S = 0
    BY <1>1, <1>2, <2>3
  <2> QED
    BY <1>1, <2>1, <2>2, <2>3
<1>7. ASSUME S > 0
      PROVE  2 * U * (-100 * pnl - S * RiskPercent) <= 100 * (U + D)
  <2>1. t.size \in Nat
    BY <1>1, <1>2, <1>7
  <2>2. -(D * t.size) <= n
    <3>1. (-D) * t.size <= forward * t.size
      BY <1>2, <2>1, Scaled
    <3>2. (-D) * t.size = -(D * t.size)
      BY <1>2, <2>1
    <3> QED
      BY <3>1, <3>2
  <2>3. /\ U * pnl \in Int /\ D * t.size \in Int /\ S * RiskPercent * U \in Int
        /\ 2 * U * (-100 * pnl - S * RiskPercent)
             = -200 * (U * pnl) - 2 * (S * RiskPercent * U)
    BY <1>1, <1>2, <1>3, <1>5
  <2>4. S * RiskPercent * U >= 0
    <3>1. S * RiskPercent >= 0 /\ S * RiskPercent \in Int
      BY <1>1, <1>3, <1>7, Signs
    <3> QED
      BY <1>3, <3>1, Signs
  <2> HIDE DEF n, U, D, S
  <2>5. CASE n >= 0
    <3>1. U * pnl >= 0
      BY <1>3, <1>5, <2>5, Signs
    <3> QED
      BY <1>2, <1>3, <2>3, <2>4, <3>1
  <2>6. CASE n < 0
    <3>1. -2 * (U * pnl) <= -2 * n + U
      BY <1>4, <1>5, <2>6
    <3>2. -2 * (U * pnl) <= 2 * (D * t.size) + U
      BY <1>3, <1>4, <2>2, <2>3, <3>1
    <3>3. 2 * (100 * (D * t.size)) <= 2 * (S * RiskPercent * U) + 100 * D
      BY <1>1, <1>2, <1>7
    <3> QED
      BY <1>2, <1>3, <2>3, <3>2, <3>3
  <2> QED
    BY <1>4, <2>5, <2>6
<1> QED
  BY <1>5, <1>6, <1>7

-----------------------------------------------------------------------------
(* What a look back at the prices says of a trade that closes.             *)

Untouched(t, n, prices) == \A i \in (t.opened + 1)..n : ~Touches(t, prices[i])

Held(t, prices) ==
  Sides(t) /\ Sized(t) /\ t.opened \in 1..Len(prices) /\ t.opened < BarCount

LEMMA ProfitType ==
  ASSUME NEW t \in TradeRows, NEW price \in Int
  PROVE  calculatePnl(t, price) \in Int
<1>1. (IF t.direction = "BUY" THEN price - t.entry ELSE t.entry - price) * t.size \in Int
  BY DEF TradeRows
<1> QED
  BY <1>1, RoundedBounds, Limits DEF calculatePnl

\* A candle that has been reached.
LEMMA Reached ==
  ASSUME Formed, NEW i \in 1..Len(bars)
  PROVE  /\ bars[i].low \in Int /\ bars[i].high \in Int /\ bars[i].close \in Int
         /\ bars[i].low <= bars[i].close /\ bars[i].close <= bars[i].high
<1>1. bars[i] \in Shapes
  BY ElementOfSeq DEF Formed
<1> QED
  BY <1>1, Limits

LEMMA CandleReplays ==
  ASSUME Formed, Len(bars) > 0, NEW t \in TradeRows, Held(t, bars),
         Untouched(t, Len(bars) - 1, bars),
         Triggered(t, bars[Len(bars)], Len(bars)),
         NEW c, c = exitForCandle(t, bars[Len(bars)], Len(bars))
  PROVE  c \in ClosedRows /\ c.closed = Len(bars) /\ Replays(c)
<1> DEFINE now == Len(bars)
           b == bars[now]
           price == IF HitsStop(t, b) THEN t.stop ELSE t.take
           forward == IF t.direction = "BUY" THEN price - t.entry ELSE t.entry - price
<1>1. now \in Nat /\ now > 0
  BY LenProperties DEF Formed
<1>2. /\ t.direction \in {"BUY", "SELL"} /\ t.entry \in Int /\ t.stop \in Int /\ t.take \in Int
      /\ t.size \in Int
  BY DEF TradeRows
<1>3. price \in Int /\ forward \in Int
  BY <1>2
<1>4. /\ c.trade = t /\ c.closed = now /\ c.exit = price /\ c.pnl = calculatePnl(t, price)
      /\ c \in ClosedRows
  <2>1. calculatePnl(t, t.stop) \in Int /\ calculatePnl(t, t.take) \in Int
    BY <1>2, ProfitType
  <2> QED
    BY <1>1, <1>2, <2>1 DEF exitForCandle, Closed, ClosedRows
<1>5. -Distance(t) <= forward
  BY <1>2 DEF Held, Sides, Distance, Abs
<1>6. c.pnl = Rounded(forward * t.size, SizeUnits)
  BY <1>4 DEF calculatePnl
<1>7. /\ t.opened < now
      /\ Touches(t, b)
      /\ \A i \in (t.opened + 1)..(now - 1) : ~Touches(t, bars[i])
  BY DEF Triggered, Touches, Untouched
<1>8. forward = IF t.direction = "BUY" THEN c.exit - t.entry ELSE t.entry - c.exit
  BY <1>4
<1>9. /\ forward * t.stake >= 0 => c.pnl >= 0
      /\ forward * t.stake <= 0 => c.pnl <= 0
      /\ t.stake > 0 => 2 * SizeUnits * (-100 * c.pnl - t.stake * RiskPercent)
                          <= 100 * (SizeUnits + Distance(t))
  <2>1. Sized(t)
    BY DEF Held
  <2> HIDE DEF forward, price
  <2> QED
    BY <1>3, <1>5, <1>6, <2>1, Earned
<1>10. c.exit = IF HitsStop(t, b) THEN t.stop ELSE t.take
  BY <1>4
<1> HIDE DEF forward, price
<1> QED
  BY <1>4, <1>7, <1>8, <1>9, <1>10 DEF Replays, Distance

LEMMA EndReplays ==
  ASSUME Formed, Len(bars) = BarCount, NEW t \in TradeRows, Held(t, bars),
         Untouched(t, Len(bars), bars),
         NEW c, c = exitAtEnd(t)
  PROVE  c \in ClosedRows /\ c.closed = Len(bars) /\ Replays(c)
<1> DEFINE b == bars[BarCount]
           price == b.close
           forward == IF t.direction = "BUY" THEN price - t.entry ELSE t.entry - price
<1>1. BarCount \in Nat /\ BarCount > 0
  BY Limits
<1>2. /\ t.direction \in {"BUY", "SELL"} /\ t.entry \in Int /\ t.stop \in Int /\ t.take \in Int
      /\ t.size \in Int /\ t.opened \in Nat
  BY DEF TradeRows
<1>3. /\ b.low \in Int /\ b.high \in Int /\ price \in Int
      /\ b.low <= price /\ price <= b.high
  BY <1>1, Reached
<1>4. t.opened < BarCount /\ ~Touches(t, b)
      /\ \A i \in (t.opened + 1)..(BarCount - 1) : ~Touches(t, bars[i])
  BY <1>1, <1>2 DEF Held, Untouched
<1>5. /\ c.trade = t /\ c.closed = BarCount /\ c.exit = price /\ c.pnl = calculatePnl(t, price)
      /\ c \in ClosedRows
  <2>1. calculatePnl(t, price) \in Int
    BY <1>3, ProfitType
  <2>2. Last(bars).close = price
    BY DEF Last
  <2>3. c = Closed(t, BarCount, price,
                   IF calculatePnl(t, price) > 0 THEN "WIN"
                   ELSE IF calculatePnl(t, price) < 0 THEN "LOSS" ELSE "BREAKEVEN")
    BY <2>2 DEF exitAtEnd
  <2> HIDE DEF price
  <2> QED
    BY <1>1, <1>3, <2>1, <2>3 DEF Closed, ClosedRows
<1>6. forward \in Int /\ -Distance(t) <= forward
  <2>1. ~HitsStop(t, b)
    BY <1>4 DEF Touches
  <2>2. CASE t.direction = "BUY"
    <3>1. ~(b.low <= t.stop)
      BY <2>1, <2>2 DEF HitsStop
    <3>2. forward = price - t.entry
      BY <2>2
    <3> HIDE DEF b, price, forward
    <3> QED
      BY <1>2, <1>3, <3>1, <3>2 DEF Distance, Abs, price
  <2>3. CASE t.direction = "SELL"
    <3>1. ~(b.high >= t.stop)
      BY <2>1, <2>3 DEF HitsStop
    <3>2. forward = t.entry - price
      BY <2>3
    <3> HIDE DEF b, price, forward
    <3> QED
      BY <1>2, <1>3, <3>1, <3>2 DEF Distance, Abs, price
  <2> QED
    BY <1>2, <2>2, <2>3
<1>7. c.pnl = Rounded(forward * t.size, SizeUnits)
  BY <1>5 DEF calculatePnl
<1>8. forward = IF t.direction = "BUY" THEN c.exit - t.entry ELSE t.entry - c.exit
  BY <1>5
<1>9. /\ forward * t.stake >= 0 => c.pnl >= 0
      /\ forward * t.stake <= 0 => c.pnl <= 0
      /\ t.stake > 0 => 2 * SizeUnits * (-100 * c.pnl - t.stake * RiskPercent)
                          <= 100 * (SizeUnits + Distance(t))
  <2>1. Sized(t)
    BY DEF Held
  <2> HIDE DEF forward, price
  <2> QED
    BY <1>6, <1>7, <2>1, Earned
<1>10. c.exit = bars[c.closed].close
  BY <1>5
<1> HIDE DEF forward, price
<1> QED
  BY <1>4, <1>5, <1>8, <1>9, <1>10 DEF Replays, Distance

-----------------------------------------------------------------------------
(* The invariant of the loop.                                              *)

\* The open trades up to index have still to be shown the newest candle.
Shown(k) == IF k <= index THEN Len(bars) - 1 ELSE Len(bars)

TradesHeld ==
  \A k \in 1..Len(openTrades) :
    Held(openTrades[k], bars) /\ Untouched(openTrades[k], Shown(k), bars)

\* A signal that waits has a candle to open on, and one after it.
SignalInTime == pending.direction # "NONE" => Sides(pending) /\ Len(bars) + 1 < BarCount

LookedBack == \A k \in 1..Len(trades) : trades[k].closed <= Len(bars) /\ Replays(trades[k])

\* The balance is the running sum of the closed trades.
Summed ==
  /\ balanceHistory[1] = InitialBalance
  /\ \A k \in 1..Len(trades) : balanceHistory[k + 1] = balanceHistory[k] + trades[k].pnl

LoopInv == TradesHeld /\ SignalInTime /\ LookedBack /\ Summed

-----------------------------------------------------------------------------
(* The steps of the loop.                                                  *)

LEMMA Lengths ==
  ASSUME Formed
  PROVE  /\ Len(bars) \in Nat /\ Len(openTrades) \in Nat /\ Len(trades) \in Nat
         /\ Len(balanceHistory) \in Nat /\ Len(balanceHistory) = Len(trades) + 1
         /\ index \in Nat /\ index <= Len(openTrades)
         /\ \A k \in 1..Len(openTrades) : openTrades[k] \in TradeRows
         /\ \A k \in 1..Len(trades) : trades[k] \in ClosedRows /\ trades[k].pnl \in Int
         /\ \A k \in 1..Len(balanceHistory) : balanceHistory[k] \in Int
<1>1. Len(bars) \in Nat
  BY LenProperties DEF Formed
<1>2. Len(openTrades) \in Nat /\ \A k \in 1..Len(openTrades) : openTrades[k] \in TradeRows
  BY LenProperties, ElementOfSeq DEF Formed
<1>3. Len(trades) \in Nat /\ \A k \in 1..Len(trades) : trades[k] \in ClosedRows
  BY LenProperties, ElementOfSeq DEF Formed
<1>4. /\ Len(balanceHistory) \in Nat
      /\ \A k \in 1..Len(balanceHistory) : balanceHistory[k] \in Int
  BY LenProperties, ElementOfSeq DEF Formed
<1>5. \A c \in ClosedRows : c.pnl \in Int
  BY DEF ClosedRows
<1> QED
  BY <1>1, <1>2, <1>3, <1>4, <1>5 DEF Formed

LEMMA BookedAdds ==
  ASSUME Formed, NEW c \in ClosedRows, Booked(c)
  PROVE  /\ trades' \in Seq(ClosedRows) /\ Len(trades') = Len(trades) + 1
         /\ \A k \in 1..Len(trades) : trades'[k] = trades[k]
         /\ trades'[Len(trades) + 1] = c
         /\ balanceHistory' \in Seq(Int)
         /\ Len(balanceHistory') = Len(balanceHistory) + 1
         /\ \A k \in 1..Len(balanceHistory) : balanceHistory'[k] = balanceHistory[k]
         /\ balanceHistory'[Len(balanceHistory) + 1] = balanceHistory[Len(balanceHistory)] + c.pnl
<1> DEFINE balance == Last(balanceHistory) + c.pnl
<1>1. trades' = Append(trades, c) /\ balanceHistory' = Append(balanceHistory, balance)
  BY DEF Booked
<1>2. balance \in Int /\ balance = balanceHistory[Len(balanceHistory)] + c.pnl
  <2>1. balanceHistory[Len(balanceHistory)] \in Int
    BY Lengths
  <2> QED
    BY <2>1 DEF Last, ClosedRows
<1>3. /\ trades' \in Seq(ClosedRows) /\ Len(trades') = Len(trades) + 1
      /\ \A k \in 1..Len(trades) : trades'[k] = trades[k]
      /\ trades'[Len(trades) + 1] = c
  BY <1>1, AppendProperties DEF Formed
<1> HIDE DEF balance
<1>4. /\ balanceHistory' \in Seq(Int)
      /\ Len(balanceHistory') = Len(balanceHistory) + 1
      /\ \A k \in 1..Len(balanceHistory) : balanceHistory'[k] = balanceHistory[k]
      /\ balanceHistory'[Len(balanceHistory) + 1] = balance
  BY <1>1, <1>2, AppendProperties DEF Formed
<1> QED
  BY <1>2, <1>3, <1>4

\* Closed trades stay what a look back says, and the balance stays their sum.
LEMMA BookedKeeps ==
  ASSUME Formed, LookedBack, Summed, NEW c \in ClosedRows, c.closed = Len(bars), Replays(c),
         Booked(c), bars' = bars
  PROVE  LookedBack' /\ Summed'
<1>1. LookedBack'
  <2> SUFFICES ASSUME NEW k \in 1..Len(trades')
               PROVE  (trades[k].closed <= Len(bars) /\ Replays(trades[k]))'
    BY DEF LookedBack
  <2>1. trades'[k].closed <= Len(bars) /\ Replays(trades'[k])
    <3>1. k \in 1..Len(trades) \/ k = Len(trades) + 1
      BY BookedAdds, Lengths
    <3>2. CASE k \in 1..Len(trades)
      BY <3>2, BookedAdds DEF LookedBack
    <3>3. CASE k = Len(trades) + 1
      BY <3>3, BookedAdds, Lengths
    <3> QED
      BY <3>1, <3>2, <3>3
  <2> QED
    BY <2>1 DEF Replays
<1>2. Summed'
  <2>1. balanceHistory'[1] = InitialBalance
    BY BookedAdds, Lengths DEF Summed
  <2>2. ASSUME NEW k \in 1..Len(trades')
        PROVE  balanceHistory'[k + 1] = balanceHistory'[k] + trades'[k].pnl
    <3>1. k \in 1..Len(trades) \/ k = Len(trades) + 1
      BY BookedAdds, Lengths
    <3>2. CASE k \in 1..Len(trades)
      <4>1. k \in 1..Len(balanceHistory) /\ k + 1 \in 1..Len(balanceHistory)
        BY <3>2, Lengths
      <4> QED
        BY <3>2, <4>1, BookedAdds DEF Summed
    <3>3. CASE k = Len(trades) + 1
      <4>1. k = Len(balanceHistory) /\ k \in 1..Len(balanceHistory)
        BY <3>3, Lengths
      <4> QED
        BY <3>3, <4>1, BookedAdds
    <3> QED
      BY <3>1, <3>2, <3>3
  <2> QED
    BY <2>1, <2>2 DEF Summed
<1> QED
  BY <1>1, <1>2

\* The candle that the loop reaches next is the last of bars', and the others stay.
LEMMA BarsGrow ==
  ASSUME Formed, NEW b \in Shapes, bars' = Append(bars, b)
  PROVE  /\ bars' \in Seq(Shapes) /\ Len(bars') = Len(bars) + 1
         /\ \A i \in 1..Len(bars) : bars'[i] = bars[i]
         /\ bars'[Len(bars) + 1] = b
BY AppendProperties DEF Formed

\* The trade of the signal that waits.
LEMMA OpenedHeld ==
  ASSUME Formed, SignalInTime, pending.direction # "NONE", NEW b \in Shapes,
         b.close # pending.stop, bars' = Append(bars, b),
         NEW t, t = Opened(pending, b, Len(bars) + 1, Last(balanceHistory))
  PROVE  t \in TradeRows /\ Held(t, bars') /\ t.opened = Len(bars) + 1
<1>1. b.close \in Int
  BY Limits
<1>2. /\ pending.direction \in {"BUY", "SELL"} /\ pending.stop \in Int /\ pending.take \in Int
      /\ Sides(pending) /\ Len(bars) + 1 < BarCount
  BY DEF Formed, VerdictRows, SignalInTime
<1>3. Last(balanceHistory) \in Int
  <2>1. balanceHistory[Len(balanceHistory)] \in Int
    BY Lengths
  <2> QED
    BY <2>1 DEF Last
<1>4. /\ t.direction = pending.direction /\ t.entry = b.close /\ t.stop = pending.stop
      /\ t.take = pending.take /\ t.opened = Len(bars) + 1 /\ t.stake = Last(balanceHistory)
      /\ t.size = Rounded(t.stake * RiskPercent * SizeUnits, 100 * Distance(t))
  BY DEF Opened, Distance
<1>5. t.size \in Int
  <2>1. t.stake * RiskPercent * SizeUnits \in Int
    BY <1>3, <1>4, Limits
  <2>2. 100 * Distance(t) \in Nat /\ 100 * Distance(t) > 0
    BY <1>1, <1>2, <1>4 DEF Distance, Abs
  <2> QED
    BY <1>4, <2>1, <2>2, RoundedBounds
<1>6. t \in TradeRows
  <2>1. t = [direction |-> t.direction, entry |-> t.entry, stop |-> t.stop, take |-> t.take,
             opened |-> t.opened, stake |-> t.stake, size |-> t.size]
    BY DEF Opened
  <2> QED
    BY <1>1, <1>2, <1>3, <1>4, <1>5, <2>1, Lengths DEF TradeRows
<1>7. t.opened \in 1..Len(bars')
  BY <1>4, BarsGrow, Lengths
<1> QED
  BY <1>2, <1>4, <1>6, <1>7 DEF Held, Sides, Sized

LEMMA NextBarTyped ==
  ASSUME Formed, LoopInv, NEW b \in Shapes, NEW r \in BarReadings, NextBar(b, r)
  PROVE  pending' \in VerdictRows /\ SignalInTime'
<1> DEFINE judged == [r EXCEPT !.entry = b.close, !.closes = Closes(Append(bars, b))]
<1>1. judged \in ReadingRows /\ judged.atr >= 0
  <2>1. r \in ReadingRows /\ r.atr >= 0
    BY BacktestAssumption
  <2>2. Closes(Append(bars, b)) \in Seq(Int)
    <3>1. Append(bars, b) \in Seq(Shapes) /\ Len(Append(bars, b)) \in Nat
      BY AppendProperties, LenProperties DEF Formed
    <3>2. \A k \in 1..Len(Append(bars, b)) : Append(bars, b)[k].close \in Int
      BY <3>1, ElementOfSeq, Limits
    <3>3. /\ Closes(Append(bars, b)) \in [1..Len(Append(bars, b)) -> Int]
          /\ Len(Append(bars, b)) \in Nat
      BY <3>1, <3>2 DEF Closes
    <3> QED
      BY <3>3, SeqDef
  <2>3. b.close \in Nat \ {0}
    BY Limits
  <2> HIDE DEF Closes
  <2> DEFINE dated == [r EXCEPT !.entry = b.close]
  <2>4. dated \in ReadingRows /\ dated.atr = r.atr
    BY <2>1, <2>3 DEF ReadingRows
  <2>5. judged = [dated EXCEPT !.closes = Closes(Append(bars, b))]
    OBVIOUS
  <2> HIDE DEF dated, judged
  <2>6. judged \in ReadingRows /\ judged.atr = dated.atr
    BY <2>2, <2>4, <2>5 DEF ReadingRows
  <2> QED
    BY <2>1, <2>4, <2>6
<1>2. pending' = IF Len(bars) + 1 + 1 < BarCount THEN evaluate(judged) ELSE NoVerdict
  BY DEF NextBar
<1>3. NoVerdict \in VerdictRows /\ NoVerdict.direction = "NONE"
  BY DEF NoVerdict, VerdictRows
<1>4. Len(bars') = Len(bars) + 1
  BY BarsGrow DEF NextBar
<1> HIDE DEF judged
<1>5. evaluate(judged) \in VerdictRows /\ Sides(evaluate(judged))
  BY <1>1, EvaluateSides
<1> QED
  BY <1>2, <1>3, <1>4, <1>5, Lengths DEF SignalInTime

LEMMA NextBarHolds ==
  ASSUME Formed, LoopInv, NEW b \in Shapes, NEW r \in BarReadings, NextBar(b, r)
  PROVE  openTrades' \in Seq(TradeRows) /\ index' = Len(openTrades') /\ TradesHeld'
<1> DEFINE t == Opened(pending, b, Len(bars) + 1, Last(balanceHistory))
<1>1. /\ bars' = Append(bars, b) /\ index = 0 /\ index' = Len(openTrades')
      /\ openTrades' = IF pending.direction # "NONE" /\ b.close # pending.stop
                       THEN Append(openTrades, t) ELSE openTrades
  BY DEF NextBar
<1>2. /\ Len(bars') = Len(bars) + 1 /\ \A i \in 1..Len(bars) : bars'[i] = bars[i]
  BY <1>1, BarsGrow
<1>3. ASSUME NEW k \in 1..Len(openTrades)
      PROVE  Held(openTrades[k], bars') /\ Untouched(openTrades[k], Len(bars), bars')
  <2>1. Held(openTrades[k], bars) /\ Untouched(openTrades[k], Len(bars), bars)
    BY <1>1, Lengths DEF LoopInv, TradesHeld, Shown
  <2>2. openTrades[k].opened \in 1..Len(bars)
    BY <2>1 DEF Held
  <2>3. \A i \in (openTrades[k].opened + 1)..Len(bars) : bars'[i] = bars[i]
    BY <1>2, <2>2, Lengths
  <2> QED
    BY <1>2, <2>1, <2>2, <2>3, Lengths DEF Held, Untouched
<1> HIDE DEF t
<1>4. CASE pending.direction # "NONE" /\ b.close # pending.stop
  <2>1. t \in TradeRows /\ Held(t, bars') /\ t.opened = Len(bars) + 1
    BY <1>1, <1>4, OpenedHeld DEF LoopInv, t
  <2>2. /\ openTrades' \in Seq(TradeRows) /\ Len(openTrades') = Len(openTrades) + 1
        /\ \A k \in 1..Len(openTrades) : openTrades'[k] = openTrades[k]
        /\ openTrades'[Len(openTrades) + 1] = t
    BY <1>1, <1>4, <2>1, AppendProperties DEF Formed
  <2>3. Untouched(t, Len(bars), bars')
    BY <1>2, <2>1, Lengths DEF Untouched
  <2>4. ASSUME NEW k \in 1..Len(openTrades')
        PROVE  Held(openTrades'[k], bars') /\ Untouched(openTrades'[k], Len(bars), bars')
    <3>1. k \in 1..Len(openTrades) \/ k = Len(openTrades) + 1
      BY <2>2, Lengths
    <3> QED
      BY <1>3, <2>1, <2>2, <2>3, <3>1
  <2>5. \A k \in 1..Len(openTrades') : Shown(k)' = Len(bars)
    BY <1>1, <1>2, Lengths DEF Shown
  <2>6. TradesHeld'
    BY <2>4, <2>5 DEF TradesHeld
  <2> QED
    BY <1>1, <2>2, <2>6
<1>5. CASE ~(pending.direction # "NONE" /\ b.close # pending.stop)
  BY <1>1, <1>2, <1>3, <1>5, Lengths DEF TradesHeld, Shown, Formed
<1> QED
  BY <1>4, <1>5

LEMMA NextBarKeeps ==
  ASSUME Formed, LoopInv, NEW b \in Shapes, NEW r \in BarReadings, NextBar(b, r)
  PROVE  Formed' /\ LoopInv'
<1>1. /\ bars' = Append(bars, b) /\ stage = "candles" /\ Len(bars) < BarCount
      /\ UNCHANGED <<stage, trades, balanceHistory, drawdown, runRow, storedTrades>>
  BY DEF NextBar
<1>2. /\ bars' \in Seq(Shapes) /\ Len(bars') = Len(bars) + 1
      /\ \A i \in 1..Len(bars) : bars'[i] = bars[i]
  BY <1>1, BarsGrow
<1>3. pending' \in VerdictRows /\ SignalInTime'
  BY NextBarTyped
<1>4. openTrades' \in Seq(TradeRows) /\ index' = Len(openTrades') /\ TradesHeld'
  BY NextBarHolds
<1>5. Len(openTrades') \in Nat
  BY <1>4, LenProperties
<1>6. Formed'
  BY <1>1, <1>2, <1>3, <1>4, <1>5, Lengths, Limits DEF Formed
<1>7. LookedBack'
  <2> SUFFICES ASSUME NEW k \in 1..Len(trades)
               PROVE  (trades[k].closed <= Len(bars) /\ Replays(trades[k]))'
    BY <1>1 DEF LookedBack
  <2> DEFINE c == trades[k]
  <2>1. c.closed <= Len(bars) /\ Replays(c) /\ c \in ClosedRows
    BY Lengths DEF LoopInv, LookedBack
  <2>2. c.closed \in Nat /\ c.trade.opened \in Nat
    BY <2>1 DEF ClosedRows, TradeRows
  <2>3. c.trade.opened < c.closed
    BY <2>1 DEF Replays
  <2>7. trades'[k] = c
    BY <1>1
  <2> HIDE DEF c
  <2>4. bars'[c.closed] = bars[c.closed]
    BY <1>2, <2>1, <2>2, <2>3, Lengths
  <2>5. ASSUME NEW i \in (c.trade.opened + 1)..(c.closed - 1) PROVE bars'[i] = bars[i]
    <3>1. Len(bars) \in Nat
      BY Lengths
    <3>2. i \in 1..Len(bars)
      BY <2>1, <2>2, <3>1
    <3> QED
      BY <1>2, <3>2
  <2>6. c.closed <= Len(bars')
    BY <1>2, <2>1, <2>2, Lengths
  <2>8. Replays(trades[k])' = Replays(c)
    BY <2>4, <2>5, <2>7 DEF Replays
  <2> QED
    BY <2>1, <2>6, <2>7, <2>8
<1> QED
  BY <1>1, <1>3, <1>4, <1>6, <1>7 DEF LoopInv, Summed

LEMMA TriggeredKeeps ==
  ASSUME Formed, LoopInv, closeTriggeredTrades
  PROVE  Formed' /\ LoopInv'
<1> DEFINE now == Len(bars)
           t == openTrades[index]
           c == exitForCandle(t, bars[now], now)
<1>1. /\ stage = "candles" /\ index > 0 /\ index' = index - 1
      /\ UNCHANGED <<stage, bars, pending, drawdown, runRow, storedTrades>>
      /\ IF Triggered(t, bars[now], now)
         THEN Booked(c) /\ openTrades' = RemoveAt(openTrades, index)
         ELSE UNCHANGED tradeVars
  BY DEF closeTriggeredTrades
<1>2. index \in 1..Len(openTrades) /\ t \in TradeRows
  BY <1>1, Lengths
<1>3. Held(t, bars) /\ Untouched(t, now - 1, bars)
  BY <1>2, Lengths DEF LoopInv, TradesHeld, Shown
<1>4. now \in Nat /\ now > 0 /\ t.opened \in Nat
  BY <1>2, <1>3, Lengths DEF Held, TradeRows
<1> HIDE DEF c, t
<1>5. CASE Triggered(t, bars[now], now)
  <2>1. c \in ClosedRows /\ c.closed = now /\ Replays(c)
    BY <1>2, <1>3, <1>4, <1>5, CandleReplays DEF c
  <2>2. Booked(c) /\ openTrades' = RemoveAt(openTrades, index)
    BY <1>1, <1>5
  <2>3. LookedBack' /\ Summed'
    BY <1>1, <2>1, <2>2, BookedKeeps DEF LoopInv
  <2>4. /\ openTrades' \in Seq(TradeRows) /\ Len(openTrades') = Len(openTrades) - 1
        /\ \A k \in 1..(Len(openTrades) - 1) :
             openTrades'[k] = IF k < index THEN openTrades[k] ELSE openTrades[k + 1]
    <3>1. openTrades \in Seq(TradeRows)
      BY DEF Formed
    <3>2. /\ RemoveAt(openTrades, index) \in Seq(TradeRows)
          /\ Len(RemoveAt(openTrades, index)) = Len(openTrades) - 1
          /\ \A k \in 1..(Len(openTrades) - 1) :
               RemoveAt(openTrades, index)[k]
                 = IF k < index THEN openTrades[k] ELSE openTrades[k + 1]
      BY <1>2, <3>1, RemoveAtProperties
    <3> QED
      BY <2>2, <3>2
  <2>5. TradesHeld'
    <3> SUFFICES ASSUME NEW k \in 1..(Len(openTrades) - 1)
                 PROVE  Held(openTrades'[k], bars) /\ Untouched(openTrades'[k], Shown(k)', bars)
      BY <1>1, <2>4 DEF TradesHeld
    <3>1. CASE k < index
      <4>1. openTrades'[k] = openTrades[k] /\ k \in 1..Len(openTrades)
        BY <2>4, <3>1, Lengths
      <4>2. Shown(k)' = Shown(k)
        BY <1>1, <3>1, Lengths DEF Shown
      <4> QED
        BY <4>1, <4>2 DEF LoopInv, TradesHeld
    <3>2. CASE k >= index
      <4>1. /\ openTrades'[k] = openTrades[k + 1] /\ Shown(k)' = Shown(k + 1)
            /\ k + 1 \in 1..Len(openTrades)
        BY <1>1, <2>4, <3>2, Lengths DEF Shown
      <4> QED
        BY <4>1 DEF LoopInv, TradesHeld
    <3> QED
      BY <3>1, <3>2, Lengths
  <2>6. Formed'
    <3>1. index' \in 0..Len(openTrades')
      BY <1>1, <2>4, Lengths
    <3>2. /\ trades' \in Seq(ClosedRows) /\ balanceHistory' \in Seq(Int)
          /\ Len(balanceHistory') = Len(trades') + 1
      BY <2>1, <2>2, BookedAdds, Lengths
    <3> QED
      BY <1>1, <2>4, <3>1, <3>2 DEF Formed
  <2> QED
    BY <1>1, <2>3, <2>5, <2>6 DEF LoopInv, SignalInTime
<1>6. CASE ~Triggered(t, bars[now], now)
  <2>1. UNCHANGED <<openTrades, trades, balanceHistory>>
    BY <1>1, <1>6 DEF tradeVars
  <2>2. Untouched(t, now, bars)
    <3>1. \A i \in (t.opened + 1)..now : i = now \/ i \in (t.opened + 1)..(now - 1)
      BY <1>4
    <3>2. t.opened < now => ~Touches(t, bars[now])
      BY <1>6 DEF Triggered, Touches
    <3> QED
      BY <1>3, <1>4, <3>1, <3>2 DEF Untouched
  <2>3. TradesHeld'
    <3> SUFFICES ASSUME NEW k \in 1..Len(openTrades)
                 PROVE  Held(openTrades[k], bars) /\ Untouched(openTrades[k], Shown(k)', bars)
      BY <1>1, <2>1 DEF TradesHeld
    <3>1. CASE k = index
      <4>1. Shown(k)' = now
        BY <1>1, <3>1, Lengths DEF Shown
      <4> QED
        BY <1>3, <2>2, <3>1, <4>1 DEF t
    <3>2. CASE k # index
      <4>1. Shown(k)' = Shown(k)
        BY <1>1, <3>2, Lengths DEF Shown
      <4> QED
        BY <4>1 DEF LoopInv, TradesHeld
    <3> QED
      BY <3>1, <3>2
  <2>4. LookedBack'
    BY <1>1, <2>1 DEF LoopInv, LookedBack, Replays
  <2>5. Formed'
    BY <1>1, <1>2, <2>1, Lengths DEF Formed
  <2> QED
    BY <1>1, <2>1, <2>3, <2>4, <2>5 DEF LoopInv, SignalInTime, Summed
<1> QED
  BY <1>5, <1>6

LEMMA RemainingKeeps ==
  ASSUME Formed, LoopInv, closeRemainingTrades
  PROVE  Formed' /\ LoopInv'
<1>1. /\ stage = "candles" /\ index = 0 /\ Len(bars) = BarCount
      /\ UNCHANGED <<bars, pending, index, drawdown, runRow, storedTrades>>
  BY DEF closeRemainingTrades
<1>2. CASE /\ openTrades # <<>> /\ UNCHANGED stage
           /\ Booked(exitAtEnd(Head(openTrades))) /\ openTrades' = Tail(openTrades)
  <2> DEFINE t == Head(openTrades)
             c == exitAtEnd(t)
  <2>1. /\ openTrades' \in Seq(TradeRows) /\ Len(openTrades') = Len(openTrades) - 1
        /\ \A k \in 1..(Len(openTrades) - 1) : openTrades'[k] = openTrades[k + 1]
    BY <1>2, HeadTailProperties DEF Formed
  <2>2. Len(openTrades) > 0
    BY <1>2, EmptySeq, Lengths DEF Formed
  <2>3. t \in TradeRows /\ Held(t, bars) /\ Untouched(t, Len(bars), bars)
    <3>1. t = openTrades[1]
      BY <1>2 DEF Formed
    <3>2. Shown(1) = Len(bars) /\ 1 \in 1..Len(openTrades)
      BY <1>1, <2>2, Lengths DEF Shown
    <3> QED
      BY <3>1, <3>2, Lengths DEF LoopInv, TradesHeld
  <2> HIDE DEF t
  <2>4. c \in ClosedRows /\ c.closed = Len(bars) /\ Replays(c)
    BY <1>1, <2>3, EndReplays
  <2>5. Booked(c)
    BY <1>2 DEF t
  <2> HIDE DEF c
  <2>6. LookedBack' /\ Summed'
    BY <1>1, <2>4, <2>5, BookedKeeps DEF LoopInv
  <2>7. TradesHeld'
    <3> SUFFICES ASSUME NEW k \in 1..(Len(openTrades) - 1)
                 PROVE  Held(openTrades'[k], bars) /\ Untouched(openTrades'[k], Shown(k)', bars)
      BY <1>1, <2>1 DEF TradesHeld
    <3>1. /\ openTrades'[k] = openTrades[k + 1] /\ Shown(k)' = Shown(k + 1)
          /\ k + 1 \in 1..Len(openTrades)
      BY <1>1, <2>1, Lengths DEF Shown
    <3> QED
      BY <3>1 DEF LoopInv, TradesHeld
  <2>8. Formed'
    BY <1>1, <1>2, <2>1, <2>2, <2>4, <2>5, BookedAdds, Lengths DEF Formed
  <2> QED
    BY <1>1, <2>6, <2>7, <2>8 DEF LoopInv, SignalInTime
<1>3. CASE openTrades = <<>> /\ stage' = "metrics" /\ UNCHANGED tradeVars
  <2>1. Formed'
    BY <1>1, <1>3 DEF Formed, tradeVars
  <2>2. LookedBack'
    BY <1>1, <1>3 DEF LoopInv, LookedBack, Replays, tradeVars
  <2> QED
    BY <1>1, <1>3, <2>1, <2>2 DEF LoopInv, TradesHeld, Shown, SignalInTime, Summed, tradeVars
<1> QED
  BY <1>2, <1>3 DEF closeRemainingTrades

-----------------------------------------------------------------------------
(* The loop over the balance.                                              *)

DrawdownRows == [next : Nat \ {0}, peak : Nat \ {0}, worst : Int \X (Nat \ {0})]

Fall(h, i, j) == <<h[i] - h[j], h[i]>>

\* What the loop has found of history h where it is: the peak is the highest balance
\* it has passed, and the deepest fall is one that no fall it has passed exceeds.
Measured(h, d) ==
  /\ d.next <= Len(h) + 1
  /\ \A i \in 1..(d.next - 1) : h[i] <= d.peak
  /\ \E m \in 1..Len(h) : (m < d.next \/ m = 1) /\ h[m] = d.peak
  /\ \A i, j \in 1..(d.next - 1) :
       i <= j /\ h[i] > 0 /\ h[j] >= 0 => ~Less(d.worst, Fall(h, i, j))
  /\ \E i, j \in 1..Len(h) :
       i <= j /\ h[i] > 0 /\ ~Less(d.worst, Fall(h, i, j)) /\ ~Less(Fall(h, i, j), d.worst)

LEMMA MeasuredAtStart ==
  ASSUME NEW h \in Seq(Int), Len(h) > 0, h[1] = InitialBalance,
         NEW d \in DrawdownRows, d.next = 1, d.peak = InitialBalance, d.worst = <<0, 1>>
  PROVE  Measured(h, d)
<1>1. Len(h) \in Nat /\ 1 \in 1..Len(h)
  BY LenProperties
<1>2. h[1] > 0 /\ h[1] \in Int
  BY Limits
<1>3. ~Less(d.worst, Fall(h, 1, 1)) /\ ~Less(Fall(h, 1, 1), d.worst)
  BY <1>2 DEF Less, Fall
<1>4. 1..(d.next - 1) = {}
  OBVIOUS
<1> QED
  BY <1>1, <1>2, <1>3, <1>4 DEF Measured

\* A fall that does not exceed a second one, which does not exceed a third, does not
\* exceed the third.
LEMMA NotLess ==
  ASSUME NEW f \in Int \X (Nat \ {0}), NEW g \in Int \X (Nat \ {0}), NEW k \in Int \X (Nat \ {0}),
         ~Less(f, g), ~Less(g, k)
  PROVE  ~Less(f, k)
<1>1. /\ f[1] \in Int /\ f[2] \in Nat /\ f[2] > 0 /\ g[1] \in Int /\ g[2] \in Nat /\ g[2] > 0
      /\ k[1] \in Int /\ k[2] \in Nat /\ k[2] > 0
  OBVIOUS
<1>2. g[1] * f[2] <= f[1] * g[2] /\ k[1] * g[2] <= g[1] * k[2]
  BY <1>1 DEF Less
<1>3. k[1] * f[2] <= f[1] * k[2]
  BY <1>1, <1>2, Transit
<1> QED
  BY <1>1, <1>3 DEF Less

\* From the peak to a balance of zero or more is the deepest fall to it.
LEMMA PeakFallsDeepest ==
  ASSUME NEW p \in Nat, NEW x \in Int, NEW b \in Int, 0 < x, x <= p, 0 <= b
  PROVE  ~Less(<<p - b, p>>, <<x - b, x>>)
<1>1. x * b <= p * b
  BY Scaled
<1>2. (p - b) * x = p * x - x * b /\ (x - b) * p = p * x - p * b
  OBVIOUS
<1>3. /\ x * b \in Int /\ p * b \in Int /\ p * x \in Int
  OBVIOUS
<1> QED
  BY <1>1, <1>2, <1>3 DEF Less

LEMMA MeasuredStep ==
  ASSUME NEW h \in Seq(Int), NEW d \in DrawdownRows, Measured(h, d), d.next <= Len(h),
         NEW e, NEW peak, peak = IF h[d.next] > d.peak THEN h[d.next] ELSE d.peak,
         e = [next |-> d.next + 1, peak |-> peak,
              worst |-> IF peak > 0 /\ Less(d.worst, <<peak - h[d.next], peak>>)
                        THEN <<peak - h[d.next], peak>> ELSE d.worst]
  PROVE  e \in DrawdownRows /\ Measured(h, e)
<1> DEFINE k == d.next
           fall == <<peak - h[k], peak>>
<1>1. /\ Len(h) \in Nat /\ k \in 1..Len(h) /\ d.peak \in Nat /\ d.peak > 0
      /\ d.worst \in Int \X (Nat \ {0})
  BY LenProperties DEF DrawdownRows
<1>2. \A i \in 1..Len(h) : h[i] \in Int
  BY ElementOfSeq
<1>3. /\ peak \in Nat /\ peak > 0 /\ d.peak <= peak /\ h[k] <= peak
      /\ peak = h[k] \/ peak = d.peak
  BY <1>1, <1>2
<1>4. /\ e.next = k + 1 /\ e.peak = peak
      /\ e.worst = IF Less(d.worst, fall) THEN fall ELSE d.worst
  BY <1>3
<1>5. fall \in Int \X (Nat \ {0})
  BY <1>1, <1>2, <1>3
<1>6. e \in DrawdownRows
  BY <1>1, <1>3, <1>5 DEF DrawdownRows
<1> HIDE DEF k, fall
<1>7. e.worst \in Int \X (Nat \ {0}) /\ ~Less(e.worst, fall) /\ ~Less(e.worst, d.worst)
  <2>1. \A f \in Int \X (Nat \ {0}) : f[1] \in Int /\ f[2] \in Nat /\ ~Less(f, f)
    BY DEF Less
  <2>2. Less(d.worst, fall) => ~Less(fall, d.worst)
    <3>1. /\ d.worst[1] \in Int /\ d.worst[2] \in Int /\ fall[1] \in Int /\ fall[2] \in Int
      BY <1>1, <1>5
    <3>2. d.worst[1] * fall[2] \in Int /\ fall[1] * d.worst[2] \in Int
      BY <3>1
    <3> QED
      BY <3>2 DEF Less
  <2> QED
    BY <1>1, <1>4, <1>5, <2>1, <2>2
<1>8. /\ e.next <= Len(h) + 1 /\ e.next - 1 = k
      /\ \A i \in 1..k : i = k \/ i \in 1..(k - 1)
  BY <1>1, <1>4
<1>9. ASSUME NEW i \in 1..k PROVE h[i] <= peak
  <2>1. CASE i = k
    BY <1>3, <2>1
  <2>2. CASE i \in 1..(k - 1)
    <3>1. h[i] <= d.peak /\ h[i] \in Int
      BY <1>1, <1>2, <2>2 DEF Measured, k
    <3>2. \A x, y, z \in Int : x <= y /\ y <= z => x <= z
      OBVIOUS
    <3>3. d.peak \in Int /\ peak \in Int /\ d.peak <= peak
      BY <1>1, <1>3
    <3> QED
      BY <3>1, <3>2, <3>3, Zenon
  <2> QED
    BY <1>8, <2>1, <2>2
<1>10. \E m \in 1..Len(h) : (m < e.next \/ m = 1) /\ h[m] = e.peak
  <2>1. CASE peak = h[k]
    BY <1>1, <1>4, <2>1
  <2>2. CASE peak = d.peak
    <3>1. PICK m \in 1..Len(h) : (m < k \/ m = 1) /\ h[m] = d.peak
      BY DEF Measured, k
    <3> QED
      BY <1>1, <1>4, <2>2, <3>1
  <2> QED
    BY <1>3, <2>1, <2>2
<1>11. ASSUME NEW i \in 1..k, NEW j \in 1..k, i <= j, h[i] > 0, h[j] >= 0
       PROVE  ~Less(e.worst, Fall(h, i, j))
  <2>1. i \in 1..Len(h) /\ j \in 1..Len(h) /\ h[i] \in Int /\ h[j] \in Int
    <3>1. i \in 1..Len(h) /\ j \in 1..Len(h)
      BY <1>1
    <3> QED
      BY <1>2, <3>1, Zenon
  <2>2. Fall(h, i, j) \in Int \X (Nat \ {0})
    BY <1>11, <2>1 DEF Fall
  <2>3. CASE j = k
    <3>1. h[i] <= peak
      BY <1>9
    <3>2. ~Less(<<peak - h[k], peak>>, <<h[i] - h[k], h[i]>>)
      BY <1>3, <1>11, <2>1, <2>3, <3>1, PeakFallsDeepest
    <3>3. ~Less(fall, Fall(h, i, j))
      BY <2>3, <3>2 DEF Fall, fall
    <3> QED
      BY <1>5, <1>7, <2>2, <3>3, NotLess
  <2>4. CASE j # k
    <3>1. i \in 1..(k - 1) /\ j \in 1..(k - 1)
      BY <1>1, <1>11, <2>4
    <3>2. ~Less(d.worst, Fall(h, i, j))
      BY <1>11, <3>1 DEF Measured, k
    <3> QED
      BY <1>1, <1>7, <2>2, <3>2, NotLess
  <2> QED
    BY <2>3, <2>4
<1>12. \E i, j \in 1..Len(h) :
         i <= j /\ h[i] > 0 /\ ~Less(e.worst, Fall(h, i, j)) /\ ~Less(Fall(h, i, j), e.worst)
  <2>1. CASE Less(d.worst, fall)
    <3>1. PICK m \in 1..Len(h) : (m < e.next \/ m = 1) /\ h[m] = peak
      BY <1>4, <1>10
    <3>2. m <= k
      BY <1>1, <1>4, <3>1
    <3>3. Fall(h, m, k) = fall
      BY <3>1 DEF Fall, fall
    <3>4. e.worst = fall
      BY <1>4, <2>1
    <3>5. h[m] > 0 /\ ~Less(fall, fall)
      BY <1>3, <1>5, <3>1 DEF Less
    <3> QED
      BY <1>1, <3>1, <3>2, <3>3, <3>4, <3>5
  <2>2. CASE ~Less(d.worst, fall)
    BY <1>4, <2>2 DEF Measured
  <2> QED
    BY <2>1, <2>2
<1> QED
  BY <1>4, <1>6, <1>8, <1>9, <1>10, <1>11, <1>12 DEF Measured

-----------------------------------------------------------------------------
(* The row.                                                                *)

\* How far the loop over the balance and the two statements are.
RowKept ==
  /\ stage \in {"idle", "candles"} =>
       drawdown.next = 1 /\ drawdown.peak = InitialBalance /\ drawdown.worst = <<0, 1>>
  /\ stage \in {"trades", "complete"} => drawdown.next = Len(balanceHistory) + 1
  /\ stage = "complete" => storedTrades = trades
  /\ runRow.status = "COMPLETED" =>
       /\ stage = "done" /\ storedTrades = trades
       /\ drawdown.next = Len(balanceHistory) + 1
       /\ runRow.metrics.netPnL = balanceHistory[Len(balanceHistory)] - InitialBalance
       /\ runRow.metrics.maxDrawdown = drawdown.worst

BacktestInv == Formed /\ LoopInv /\ Measured(balanceHistory, drawdown) /\ RowKept

\* A step of the loop over the candles.
LEMMA CandlesKeep ==
  ASSUME BacktestInv, Formed', LoopInv', stage = "candles", stage' \in {"candles", "metrics"},
         UNCHANGED <<drawdown, runRow, storedTrades>>
  PROVE  BacktestInv'
<1>1. RowKept'
  BY DEF BacktestInv, RowKept
<1>2. Measured(balanceHistory, drawdown)'
  <2>1. /\ balanceHistory' \in Seq(Int) /\ Len(balanceHistory') > 0
        /\ balanceHistory'[1] = InitialBalance
    <3>1. /\ trades' \in Seq(ClosedRows) /\ balanceHistory' \in Seq(Int)
          /\ Len(balanceHistory') = Len(trades') + 1
      BY DEF Formed
    <3>2. Len(trades') \in Nat
      BY <3>1, LenProperties
    <3> QED
      BY <3>1, <3>2 DEF LoopInv, Summed
  <2>2. /\ drawdown' \in DrawdownRows
        /\ drawdown'.next = 1 /\ drawdown'.peak = InitialBalance /\ drawdown'.worst = <<0, 1>>
    BY DEF BacktestInv, RowKept, Formed, DrawdownRows
  <2> QED
    BY <2>1, <2>2, MeasuredAtStart
<1> QED
  BY <1>1, <1>2 DEF BacktestInv

\* A step after the loop over the candles.
LEMMA LoopEnded ==
  ASSUME BacktestInv, UNCHANGED loopVars
  PROVE  LoopInv'
<1>1. UNCHANGED <<bars, pending, index, openTrades, trades, balanceHistory>>
  BY DEF loopVars, tradeVars
<1>2. LookedBack'
  BY <1>1 DEF BacktestInv, LoopInv, LookedBack, Replays
<1> QED
  BY <1>1, <1>2 DEF BacktestInv, LoopInv, TradesHeld, Shown, SignalInTime, Summed

LEMMA MetricsKeep ==
  ASSUME BacktestInv, maxDrawdown
  PROVE  BacktestInv'
<1> DEFINE k == drawdown.next
           h == balanceHistory
           peak == IF h[k] > drawdown.peak THEN h[k] ELSE drawdown.peak
<1>1. /\ stage = "metrics" /\ UNCHANGED <<loopVars, runRow, storedTrades>>
      /\ \/ /\ k <= Len(h) /\ UNCHANGED stage
            /\ drawdown' = [next |-> k + 1, peak |-> peak,
                            worst |-> IF peak > 0 /\ Less(drawdown.worst, <<peak - h[k], peak>>)
                                      THEN <<peak - h[k], peak>> ELSE drawdown.worst]
         \/ k > Len(h) /\ stage' = "trades" /\ UNCHANGED drawdown
  BY DEF maxDrawdown, Measures
<1>2. LoopInv'
  BY <1>1, LoopEnded
<1>3. /\ UNCHANGED <<bars, pending, index, openTrades, trades, balanceHistory>>
      /\ UNCHANGED <<runRow, storedTrades>>
  BY <1>1 DEF loopVars, tradeVars
<1>4. /\ h \in Seq(Int) /\ drawdown \in DrawdownRows /\ Measured(h, drawdown) /\ Len(h) \in Nat
      /\ k \in Nat /\ k <= Len(h) + 1
  BY Lengths DEF BacktestInv, Formed, DrawdownRows, Measured
<1>5. runRow.status # "COMPLETED"
  BY <1>1 DEF BacktestInv, RowKept
<1>6. CASE k <= Len(h) /\ stage' = stage
  <2>1. drawdown' \in DrawdownRows /\ Measured(h, drawdown')
    BY <1>1, <1>4, <1>6, MeasuredStep
  <2>2. Formed'
    BY <1>1, <1>3, <1>6, <2>1 DEF BacktestInv, Formed, DrawdownRows
  <2>3. RowKept'
    BY <1>1, <1>3, <1>5, <1>6 DEF RowKept
  <2> QED
    BY <1>2, <1>3, <2>1, <2>2, <2>3 DEF BacktestInv
<1>7. CASE k > Len(h) /\ stage' = "trades" /\ drawdown' = drawdown
  <2>1. Formed'
    BY <1>1, <1>3, <1>7 DEF BacktestInv, Formed
  <2>2. RowKept'
    BY <1>3, <1>4, <1>5, <1>7 DEF RowKept
  <2> QED
    BY <1>2, <1>3, <1>4, <1>7, <2>1, <2>2 DEF BacktestInv
<1> QED
  BY <1>1, <1>4, <1>6, <1>7

\* The statements that write the row and the trades.
LEMMA WritesKeep ==
  ASSUME BacktestInv,
         \/ createRun \/ createTrades \/ completeRun \/ failRun \/ BacktestDies
         \/ UNCHANGED backtestVars
  PROVE  BacktestInv'
<1> USE DEF BacktestInv
<1>1. UNCHANGED loopVars /\ UNCHANGED drawdown
  BY DEF createRun, createTrades, completeRun, failRun, BacktestDies, backtestVars
<1>2. LoopInv' /\ UNCHANGED <<bars, pending, index, openTrades, trades, balanceHistory>>
  BY <1>1, LoopEnded DEF loopVars, tradeVars
<1>3. Measured(balanceHistory, drawdown)'
  BY <1>1, <1>2
<1>4. CASE createRun
  <2>1. /\ stage = "idle" /\ stage' = "candles" /\ storedTrades' = storedTrades
        /\ runRow' = [runRow EXCEPT !.status = "RUNNING"]
    BY <1>4 DEF createRun
  <2>2. runRow' = [status |-> "RUNNING", metrics |-> runRow.metrics]
    BY <2>1 DEF Formed
  <2>3. Formed'
    BY <1>1, <1>2, <2>1, <2>2 DEF Formed
  <2>4. RowKept'
    BY <1>1, <1>2, <2>1, <2>2 DEF RowKept
  <2> QED
    BY <1>2, <1>3, <2>3, <2>4
<1>5. CASE createTrades
  <2>1. /\ stage = "trades" /\ runRow' = runRow
        /\ \/ stage' = "complete" /\ storedTrades' = trades
           \/ stage' = "failing" /\ storedTrades' = storedTrades
    BY <1>5 DEF createTrades, BacktestThrows
  <2>2. Formed'
    BY <1>1, <1>2, <2>1 DEF Formed
  <2>3. RowKept'
    BY <1>1, <1>2, <2>1 DEF RowKept
  <2> QED
    BY <1>2, <1>3, <2>2, <2>3
<1>6. CASE completeRun
  <2>1. /\ stage = "complete" /\ storedTrades' = storedTrades
        /\ \/ stage' = "done" /\ runRow' = [status |-> "COMPLETED", metrics |-> calculate]
           \/ stage' = "failing" /\ runRow' = runRow
    BY <1>6 DEF completeRun, BacktestThrows
  <2>2. /\ calculate.netPnL = balanceHistory[Len(balanceHistory)] - InitialBalance
        /\ calculate.maxDrawdown = drawdown.worst
    BY DEF calculate, Last
  <2> HIDE DEF calculate
  <2>3. Formed'
    BY <1>1, <1>2, <2>1 DEF Formed
  <2>4. RowKept'
    BY <1>1, <1>2, <2>1, <2>2 DEF RowKept
  <2> QED
    BY <1>2, <1>3, <2>3, <2>4
<1>7. CASE failRun
  <2>1. /\ stage = "failing" /\ stage' = "done" /\ storedTrades' = storedTrades
        /\ runRow' = [runRow EXCEPT !.status = "FAILED"]
    BY <1>7 DEF failRun
  <2>2. runRow' = [status |-> "FAILED", metrics |-> runRow.metrics]
    BY <2>1 DEF Formed
  <2>3. Formed'
    BY <1>1, <1>2, <2>1, <2>2 DEF Formed
  <2>4. RowKept'
    BY <1>1, <1>2, <2>1, <2>2 DEF RowKept
  <2> QED
    BY <1>2, <1>3, <2>3, <2>4
<1>8. CASE BacktestDies
  <2>1. /\ stage \in {"candles", "metrics", "trades", "complete", "failing"} /\ stage' = "done"
        /\ UNCHANGED <<runRow, storedTrades>>
    BY <1>8 DEF BacktestDies
  <2>2. Formed'
    BY <1>1, <1>2, <2>1 DEF Formed
  <2>3. RowKept'
    BY <1>1, <1>2, <2>1 DEF RowKept
  <2> QED
    BY <1>2, <1>3, <2>2, <2>3
<1>9. CASE UNCHANGED backtestVars
  BY <1>2, <1>3, <1>9 DEF backtestVars, Formed, RowKept
<1> QED
  BY <1>4, <1>5, <1>6, <1>7, <1>8, <1>9

LEMMA BacktestStep == BacktestInv /\ [BacktestNext]_backtestVars => BacktestInv'
<1> SUFFICES ASSUME BacktestInv, [BacktestNext]_backtestVars PROVE BacktestInv'
  OBVIOUS
<1>1. Formed /\ LoopInv
  BY DEF BacktestInv
<1>2. ASSUME NEW b \in Shapes, NEW r \in BarReadings, NextBar(b, r) PROVE BacktestInv'
  <2>1. Formed' /\ LoopInv'
    BY <1>1, <1>2, NextBarKeeps
  <2> QED
    BY <1>2, <2>1, CandlesKeep DEF NextBar
<1>3. CASE closeTriggeredTrades
  <2>1. Formed' /\ LoopInv'
    BY <1>1, <1>3, TriggeredKeeps
  <2> QED
    BY <1>3, <2>1, CandlesKeep DEF closeTriggeredTrades
<1>4. CASE closeRemainingTrades
  <2>1. Formed' /\ LoopInv'
    BY <1>1, <1>4, RemainingKeeps
  <2> QED
    BY <1>4, <2>1, CandlesKeep DEF closeRemainingTrades
<1>5. CASE maxDrawdown
  BY <1>5, MetricsKeep
<1> QED
  BY <1>2, <1>3, <1>4, <1>5, WritesKeep DEF BacktestNext

LEMMA BacktestStart == BacktestInit => BacktestInv
<1> SUFFICES ASSUME BacktestInit PROVE BacktestInv
  OBVIOUS
<1>1. /\ stage = "idle" /\ bars = <<>> /\ pending = NoVerdict /\ openTrades = <<>>
      /\ index = 0 /\ trades = <<>> /\ balanceHistory = <<InitialBalance>>
      /\ drawdown = [next |-> 1, peak |-> InitialBalance, worst |-> <<0, 1>>]
      /\ runRow = [status |-> "none", metrics |-> NoMetrics] /\ storedTrades = <<>>
  BY DEF BacktestInit
<1>2. NoVerdict \in VerdictRows /\ NoVerdict.direction = "NONE"
  BY DEF NoVerdict, VerdictRows
<1>3. /\ balanceHistory \in Seq(Int) /\ Len(balanceHistory) = 1
      /\ balanceHistory[1] = InitialBalance
  BY <1>1, Limits
<1>4. /\ drawdown \in DrawdownRows
      /\ drawdown.next = 1 /\ drawdown.peak = InitialBalance /\ drawdown.worst = <<0, 1>>
  BY <1>1, Limits DEF DrawdownRows
<1>5. Formed
  <2>1. /\ bars \in Seq(Shapes) /\ openTrades \in Seq(TradeRows) /\ trades \in Seq(ClosedRows)
        /\ Len(bars) = 0 /\ Len(openTrades) = 0 /\ Len(trades) = 0
    BY <1>1, EmptySeq
  <2> QED
    BY <1>1, <1>2, <1>3, <1>4, <2>1, Limits DEF Formed, DrawdownRows
<1>6. LoopInv
  <2>1. 1..Len(openTrades) = {} /\ 1..Len(trades) = {}
    BY <1>1
  <2>2. TradesHeld /\ LookedBack
    BY <2>1 DEF TradesHeld, LookedBack
  <2>3. SignalInTime
    BY <1>1, <1>2 DEF SignalInTime
  <2>4. Summed
    BY <1>3, <2>1 DEF Summed
  <2> QED
    BY <2>2, <2>3, <2>4 DEF LoopInv
<1>7. Measured(balanceHistory, drawdown)
  <2>1. Len(balanceHistory) > 0
    BY <1>3
  <2> QED
    BY <1>3, <1>4, <2>1, MeasuredAtStart
<1>8. RowKept
  BY <1>1 DEF RowKept
<1> QED
  BY <1>5, <1>6, <1>7, <1>8 DEF BacktestInv

\* The state of a backtest keeps its type.
THEOREM BacktestTyped == BacktestSpec => []BacktestTypeOK
<1>1. BacktestInv => BacktestTypeOK
  <2> SUFFICES ASSUME BacktestInv PROVE BacktestTypeOK
    OBVIOUS
  <2>1. Formed /\ TradesHeld
    BY DEF BacktestInv, LoopInv
  <2>2. ASSUME NEW k \in DOMAIN openTrades PROVE openTrades[k].opened <= Len(bars)
    <3>1. k \in 1..Len(openTrades)
      BY <2>1, LenProperties DEF Formed
    <3>2. openTrades[k].opened \in 1..Len(bars) /\ Len(bars) \in Nat
      BY <2>1, <3>1, Lengths DEF TradesHeld, Held
    <3> QED
      BY <3>2
  <2>3. ASSUME NEW k \in DOMAIN trades PROVE trades[k].result \in {"WIN", "LOSS", "BREAKEVEN"}
    <3>1. k \in 1..Len(trades)
      BY <2>1, LenProperties DEF Formed
    <3> QED
      BY <2>1, <3>1, Lengths DEF ClosedRows
  <2>4. ASSUME NEW k \in DOMAIN balanceHistory PROVE balanceHistory[k] \in Int
    BY <2>1, <2>4, LenProperties, Lengths DEF Formed
  <2> QED
    BY <2>1, <2>2, <2>3, <2>4 DEF BacktestTypeOK, Formed
<1> QED
  BY <1>1, BacktestStart, BacktestStep, PTL DEF BacktestSpec

\* Whatever the candles, the readings, the length of the run and the money: a trade
\* ends where a look back at the whole price series says, with a profit of the right
\* sign and a loss within its share.
THEOREM TradesAlwaysReplay == BacktestSpec => []TradesReplay
<1>1. BacktestInv => TradesReplay
  <2> SUFFICES ASSUME BacktestInv, NEW k \in DOMAIN trades PROVE Replays(trades[k])
    BY DEF TradesReplay
  <2>1. k \in 1..Len(trades)
    BY LenProperties DEF BacktestInv, Formed
  <2> QED
    BY <2>1 DEF BacktestInv, LoopInv, LookedBack
<1> QED
  BY <1>1, BacktestStart, BacktestStep, PTL DEF BacktestSpec

\* A completed row is what its stored trades add up to, and its drawdown is the deepest
\* fall of the balance, for any number of trades.
THEOREM RowsAreHonest == BacktestSpec => []RowHonest
<1>1. BacktestInv => RowHonest
  <2> SUFFICES ASSUME BacktestInv, runRow.status = "COMPLETED" PROVE RowHonest
    BY DEF RowHonest
  <2> DEFINE h == balanceHistory
             n == Len(storedTrades)
             worst == runRow.metrics.maxDrawdown
             Pairs == {p \in (DOMAIN h) \X (DOMAIN h) : p[1] <= p[2] /\ h[p[1]] > 0}
             Falls(p) == <<h[p[1]] - h[p[2]], h[p[1]]>>
  <2>1. /\ storedTrades = trades /\ drawdown.next = Len(h) + 1 /\ worst = drawdown.worst
        /\ runRow.metrics.netPnL = h[Len(h)] - InitialBalance
    BY DEF BacktestInv, RowKept
  <2>2. /\ Len(h) = n + 1 /\ DOMAIN h = 1..Len(h) /\ Len(h) \in Nat
    BY <2>1, Lengths, LenProperties DEF BacktestInv, Formed
  <2>3. h[1] = InitialBalance /\ \A k \in 1..n : h[k + 1] = h[k] + storedTrades[k].pnl
    BY <2>1 DEF BacktestInv, LoopInv, Summed
  <2>4. Measured(h, drawdown) /\ drawdown.next - 1 = Len(h)
    BY <2>1, <2>2 DEF BacktestInv
  <2> HIDE DEF h, n, worst
  <2>5. ASSUME NEW p \in Pairs, h[p[2]] >= 0 PROVE ~Less(worst, Falls(p))
    <3>1. p[1] \in 1..Len(h) /\ p[2] \in 1..Len(h) /\ p[1] <= p[2] /\ h[p[1]] > 0
      BY <2>2
    <3>2. ~Less(drawdown.worst, Fall(h, p[1], p[2]))
      BY <2>4, <2>5, <3>1 DEF Measured
    <3> QED
      BY <2>1, <3>2 DEF Fall
  <2>6. \E p \in Pairs : ~Less(worst, Falls(p)) /\ ~Less(Falls(p), worst)
    <3>1. PICK i \in 1..Len(h), j \in 1..Len(h) :
            /\ i <= j /\ h[i] > 0
            /\ ~Less(drawdown.worst, Fall(h, i, j)) /\ ~Less(Fall(h, i, j), drawdown.worst)
      BY <2>4 DEF Measured
    <3>2. <<i, j>> \in Pairs /\ Falls(<<i, j>>) = Fall(h, i, j)
      BY <2>2, <3>1 DEF Fall
    <3> QED
      BY <2>1, <3>1, <3>2
  <2> QED
    BY <2>1, <2>2, <2>3, <2>5, <2>6 DEF RowHonest, h, n, worst
<1> QED
  BY <1>1, BacktestStart, BacktestStep, PTL DEF BacktestSpec
=============================================================================
