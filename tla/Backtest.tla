------------------------------ MODULE Backtest ------------------------------
(***************************************************************************)
(* One backtest: its candles are replayed through the strategy, its trades *)
(* opened and closed, its metrics computed, and its row and trades stored. *)
(*                                                                         *)
(* A candle is chosen when the loop reaches it.  Trades are opened at the  *)
(* close of the candle after their signal; that candle is not known to the *)
(* model before, so the signal waits in pending until it is.  The loops    *)
(* over open trades and over the balance take a step per element.  Amounts *)
(* are integers: money of one unit, sizes of 1/SizeUnits, both rounded.    *)
(***************************************************************************)
EXTENDS EmaTrend, SequencesExt

CONSTANTS
  Shapes,         \* candles of the market
  BarReadings,    \* what the indicators may say of a candle
  BarCount,       \* number of candles of the run
  MinBars,        \* MIN_BACKTEST_CANDLES
  InitialBalance,
  RiskPercent,    \* riskPercent, in per cent
  SizeUnits

ASSUME BacktestAssumption ==
  /\ Shapes \subseteq [low : Int, close : Nat \ {0}, high : Int]
  /\ \A b \in Shapes : b.low <= b.close /\ b.close <= b.high
  /\ BarReadings \subseteq ReadingRows /\ \A r \in BarReadings : r.atr >= 0
  /\ {BarCount, MinBars, InitialBalance, RiskPercent, SizeUnits} \subseteq Nat \ {0}

VARIABLES
  stage,           \* how far execute is
  bars,            \* the candles the loop has reached
  pending,         \* the signal of the last one, or none
  openTrades,
  index,           \* the open trade the candle is shown to next, 0 after the last
  trades,          \* closed trades, in the order they were closed
  balanceHistory,
  drawdown,        \* the loop over balanceHistory: where it is, peak and deepest fall
  runRow,          \* the BacktestRun row: its status and metrics
  storedTrades     \* the BacktestTrade rows

tradeVars == <<openTrades, trades, balanceHistory>>
loopVars == <<bars, pending, index, tradeVars>>
backtestVars == <<stage, loopVars, drawdown, runRow, storedTrades>>

NoMetrics == [netPnL |-> 0, grossProfit |-> 0, grossLoss |-> 0, maxDrawdown |-> <<0, 1>>]

BacktestTypeOK ==
  /\ stage \in {"idle", "candles", "metrics", "trades", "complete", "failing", "done"}
  /\ bars \in Seq(Shapes) /\ Len(bars) <= BarCount
  /\ pending \in VerdictRows
  /\ \A k \in DOMAIN openTrades : openTrades[k].opened <= Len(bars)
  /\ index \in 0..Len(openTrades)
  /\ \A k \in DOMAIN trades : trades[k].result \in {"WIN", "LOSS", "BREAKEVEN"}
  /\ \A k \in DOMAIN balanceHistory : balanceHistory[k] \in Int
  /\ runRow.status \in {"none", "RUNNING", "COMPLETED", "FAILED"}
  /\ storedTrades \in {<<>>, trades}

NoVerdict == [direction |-> "NONE", entry |-> 0, stop |-> 0, take |-> 0, confidence |-> 0]

BacktestInit ==
  /\ stage = "idle"
  /\ bars = <<>>
  /\ pending = NoVerdict
  /\ openTrades = <<>>
  /\ index = 0
  /\ trades = <<>>
  /\ balanceHistory = <<InitialBalance>>
  /\ drawdown = [next |-> 1, peak |-> InitialBalance, worst |-> <<0, 1>>]
  /\ runRow = [status |-> "none", metrics |-> NoMetrics]
  /\ storedTrades = <<>>

-----------------------------------------------------------------------------
(* Arithmetic of trades                                                    *)

Abs(x) == IF x < 0 THEN -x ELSE x

\* toFixed: the nearest multiple, halves away from zero.
Rounded(n, d) ==
  LET q == (2 * Abs(n) + d) \div (2 * d) IN IF n < 0 THEN -q ELSE q

calculatePnl(t, price) ==
  Rounded((IF t.direction = "BUY" THEN price - t.entry ELSE t.entry - price) * t.size,
          SizeUnits)

\* The stop comes first when a candle reaches both levels.
HitsStop(t, b) == IF t.direction = "BUY" THEN b.low <= t.stop ELSE b.high >= t.stop
HitsTake(t, b) == IF t.direction = "BUY" THEN b.high >= t.take ELSE b.low <= t.take

Triggered(t, b, at) == t.opened < at /\ (HitsStop(t, b) \/ HitsTake(t, b))

Closed(t, at, price, result) ==
  [trade |-> t, closed |-> at, exit |-> price, pnl |-> calculatePnl(t, price),
   result |-> result]

exitForCandle(t, b, at) ==
  IF HitsStop(t, b) THEN Closed(t, at, t.stop, "LOSS") ELSE Closed(t, at, t.take, "WIN")

\* What is still open ends at the last close, and its profit says how.
exitAtEnd(t) ==
  LET price == Last(bars).close
      pnl == calculatePnl(t, price)
  IN  Closed(t, Len(bars), price,
             IF pnl > 0 THEN "WIN" ELSE IF pnl < 0 THEN "LOSS" ELSE "BREAKEVEN")

\* Variant: the distance to the stop is taken from the signal's own candle.
SizedAtSignal(v, b, at, balance) ==
  [direction |-> v.direction, entry |-> b.close, stop |-> v.stop, take |-> v.take,
   opened |-> at, stake |-> balance,
   size |-> Rounded(balance * RiskPercent * SizeUnits, 100 * Abs(v.entry - v.stop))]

\* Variant: the trade is dated at the candle after.
DatedLater(v, b, at, balance) == [SizedAtSignal(v, b, at, balance) EXCEPT !.opened = at + 1]

\* The trade of a waiting signal: the share of the balance that is at risk,
\* divided by the distance from its entry to the stop.
Opened(v, b, at, balance) ==
  [direction |-> v.direction, entry |-> b.close, stop |-> v.stop, take |-> v.take,
   opened |-> at, stake |-> balance,
   size |-> Rounded(balance * RiskPercent * SizeUnits, 100 * Abs(b.close - v.stop))]

\* A closed trade is listed and its profit added to the balance.
Booked(c) ==
  /\ trades' = Append(trades, c)
  /\ balanceHistory' = Append(balanceHistory, Last(balanceHistory) + c.pnl)

-----------------------------------------------------------------------------
(* The run                                                                 *)

\* The checks passed: the row is created, with the schema's status.
createRun ==
  /\ stage = "idle"
  /\ BarCount >= MinBars
  /\ stage' = "candles"
  /\ runRow' = [runRow EXCEPT !.status = "RUNNING"]
  /\ UNCHANGED <<loopVars, drawdown, storedTrades>>

\* historicalWindow: the candles so far.
Closes(window) == [k \in 1..Len(window) |-> window[k].close]

\* One turn of the loop over candle b: the signal that waits opens its trade, unless
\* the candle closes on the stop, the open trades are to be shown the candle, and the
\* strategy, which does not look at trades, judges it.  A signal of the last two
\* candles opens nothing.
NextBar(b, r) ==
  LET now == Len(bars) + 1
      held == IF pending.direction # "NONE" /\ b.close # pending.stop
              THEN Append(openTrades, Opened(pending, b, now, Last(balanceHistory)))
              ELSE openTrades
  IN
  /\ stage = "candles" /\ index = 0
  /\ Len(bars) < BarCount
  /\ bars' = Append(bars, b)
  /\ openTrades' = held
  /\ index' = Len(held)
  /\ pending' = IF now + 1 < BarCount
                THEN evaluate([r EXCEPT !.entry = b.close, !.closes = Closes(Append(bars, b))])
                ELSE NoVerdict
  /\ UNCHANGED <<stage, trades, balanceHistory, drawdown, runRow, storedTrades>>

\* Open trades that the candle triggers are closed, the latest first, but none on the
\* candle it was opened on.
closeTriggeredTrades ==
  LET now == Len(bars)
      t == openTrades[index]
  IN
  /\ stage = "candles" /\ index > 0
  /\ index' = index - 1
  /\ IF Triggered(t, bars[now], now)
     THEN Booked(exitForCandle(t, bars[now], now)) /\ openTrades' = RemoveAt(openTrades, index)
     ELSE UNCHANGED tradeVars
  /\ UNCHANGED <<stage, bars, pending, drawdown, runRow, storedTrades>>

closeRemainingTrades ==
  /\ stage = "candles" /\ index = 0
  /\ Len(bars) = BarCount
  /\ \/ /\ openTrades # <<>> /\ UNCHANGED stage
        /\ Booked(exitAtEnd(Head(openTrades))) /\ openTrades' = Tail(openTrades)
     \/ openTrades = <<>> /\ stage' = "metrics" /\ UNCHANGED tradeVars
  /\ UNCHANGED <<bars, pending, index, drawdown, runRow, storedTrades>>

-----------------------------------------------------------------------------
(* Metrics                                                                 *)

Total(result) ==
  FoldLeft(LAMBDA sum, t : IF t.result = result THEN sum + t.pnl ELSE sum, 0, trades)

\* Fractions a/b and c/d with b and d positive.
Less(f, g) == f[1] * g[2] < g[1] * f[2]

\* A step of the loop over the balance, with the peak it falls from, or its end.
Measures(peak) ==
  LET k == drawdown.next
      fall == <<peak - balanceHistory[k], peak>>
  IN
  /\ stage = "metrics"
  /\ \/ /\ k <= Len(balanceHistory) /\ UNCHANGED stage
        /\ drawdown' = [next |-> k + 1, peak |-> peak,
                        worst |-> IF peak > 0 /\ Less(drawdown.worst, fall)
                                  THEN fall ELSE drawdown.worst]
     \/ k > Len(balanceHistory) /\ stage' = "trades" /\ UNCHANGED drawdown
  /\ UNCHANGED <<loopVars, runRow, storedTrades>>

\* Variant: falls are measured from the initial balance.
DrawdownFromStart == Measures(InitialBalance)

\* The deepest fall below the running peak, as a share of the peak.
maxDrawdown ==
  LET balance == balanceHistory[drawdown.next]
  IN  Measures(IF balance > drawdown.peak THEN balance ELSE drawdown.peak)

calculate ==
  [netPnL |-> Last(balanceHistory) - InitialBalance,
   grossProfit |-> Total("WIN"), grossLoss |-> Abs(Total("LOSS")),
   maxDrawdown |-> drawdown.worst]

-----------------------------------------------------------------------------
(* Storing                                                                 *)

\* Any statement of the try may throw.
BacktestThrows(from) == stage = from /\ stage' = "failing"

createTrades ==
  /\ \/ stage = "trades" /\ stage' = "complete" /\ storedTrades' = trades
     \/ BacktestThrows("trades") /\ UNCHANGED storedTrades
  /\ UNCHANGED <<loopVars, drawdown, runRow>>

completeRun ==
  /\ \/ /\ stage = "complete" /\ stage' = "done"
        /\ runRow' = [status |-> "COMPLETED", metrics |-> calculate]
     \/ BacktestThrows("complete") /\ UNCHANGED runRow
  /\ UNCHANGED <<loopVars, drawdown, storedTrades>>

\* The trades that are stored already stay.
failRun ==
  /\ stage = "failing" /\ stage' = "done"
  /\ runRow' = [runRow EXCEPT !.status = "FAILED"]
  /\ UNCHANGED <<loopVars, drawdown, storedTrades>>

\* The process dies, or the last write fails: the row stays as it is.
BacktestDies ==
  /\ stage \in {"candles", "metrics", "trades", "complete", "failing"}
  /\ stage' = "done"
  /\ UNCHANGED <<loopVars, drawdown, runRow, storedTrades>>

BacktestNext ==
  \/ createRun
  \/ \E b \in Shapes, r \in BarReadings : NextBar(b, r)
  \/ closeTriggeredTrades \/ closeRemainingTrades \/ maxDrawdown
  \/ createTrades \/ completeRun \/ failRun \/ BacktestDies

BacktestSpec == BacktestInit /\ [][BacktestNext]_backtestVars

-----------------------------------------------------------------------------
(* Properties                                                              *)

Touches(t, b) == HitsStop(t, b) \/ HitsTake(t, b)

\* Every trade ends where a look at the whole price series says: at the stop or the
\* target on the first candle after its own that reaches one, at the stop when that
\* candle reaches both, and otherwise at the last close; what it earned has the sign
\* of the way the price went, turned round by a negative balance; and where there was
\* money behind it, it loses no more than its share of the balance it was opened with,
\* but for half a unit of its size and of money, wherever the candle after its signal
\* closed.
Replays(c) ==
  LET t == c.trade
      last == bars[c.closed]
      forward == IF t.direction = "BUY" THEN c.exit - t.entry ELSE t.entry - c.exit
  IN
  /\ t.opened < c.closed
  /\ \A i \in (t.opened + 1)..(c.closed - 1) : ~Touches(t, bars[i])
  /\ IF Touches(t, last)
     THEN c.exit = IF HitsStop(t, last) THEN t.stop ELSE t.take
     ELSE c.closed = BarCount /\ c.exit = last.close
  /\ forward * t.stake >= 0 => c.pnl >= 0
  /\ forward * t.stake <= 0 => c.pnl <= 0
  /\ t.stake > 0 => 2 * SizeUnits * (-100 * c.pnl - t.stake * RiskPercent)
                      <= 100 * (SizeUnits + Abs(t.entry - t.stop))

TradesReplay == \A k \in DOMAIN trades : Replays(trades[k])

\* The row of a completed run agrees with the trades that are stored for it: its net
\* result is what they add up to one after the other, and its drawdown is a fall
\* between two moments of the balance that no fall to a balance of zero or more exceeds.
RowHonest ==
  runRow.status = "COMPLETED" =>
    LET h == balanceHistory
        n == Len(storedTrades)
        worst == runRow.metrics.maxDrawdown
        Pairs == {p \in (DOMAIN h) \X (DOMAIN h) : p[1] <= p[2] /\ h[p[1]] > 0}
        Fall(p) == <<h[p[1]] - h[p[2]], h[p[1]]>>
    IN
    /\ storedTrades = trades
    /\ h[1] = InitialBalance /\ \A k \in 1..n : h[k + 1] = h[k] + storedTrades[k].pnl
    /\ runRow.metrics.netPnL = h[n + 1] - InitialBalance
    /\ \A p \in Pairs : h[p[2]] >= 0 => ~Less(worst, Fall(p))
    /\ \E p \in Pairs : ~Less(worst, Fall(p)) /\ ~Less(Fall(p), worst)
=============================================================================
