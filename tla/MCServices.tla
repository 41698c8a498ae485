----------------------------- MODULE MCServices -----------------------------
(***************************************************************************)
(* Instances of the services that share no state with each other, checked  *)
(* in one run: a behaviour is one of one part, and the others stay as they *)
(* began.                                                                  *)
(***************************************************************************)
EXTENDS MarketData, SignalPipeline, Backtest, AuthSessions, EconomicCalendar

CONSTANTS s1, s2, p1, t1, t2, t3, q1, q2, q3, c1, c2, k1, k2, e1, e2

VARIABLE part

-----------------------------------------------------------------------------
(* Values of the constants                                                 *)

Ask(queued) ==
  [from |-> 1, to |-> MaxCandle, limit |-> 2, trigger |-> TRUE, queued |-> queued]

\* A queued sync of a range, and a direct one of all there is.
MCAsks == {Ask(TRUE), [Ask(FALSE) EXCEPT !.to = 0]}

\* One unit of price is 1/20 of the first close; a narrow candle, a rise and a swing.
Shape(low, close, high) == [low |-> low, close |-> close, high |-> high]

MCShapes == {Shape(16, 17, 20), Shape(20, 23, 24), Shape(14, 26, 27)}

Params(buyMin, buyMax, sellMin, sellMax, stable, consistency) ==
  [rsiBuyMin |-> buyMin, rsiBuyMax |-> buyMax, rsiSellMin |-> sellMin,
   rsiSellMax |-> sellMax, atrStableMax |-> stable, consistency |-> consistency]

\* The defaults, and a version that treats the directions differently.
Defaults == Params(45, 70, 30, 55, 5, 3)
Lopsided == Params(50, 71, 20, 45, 4, 2)

Reading(ema20, ema50, ema200, rsi, atr, support, resistance, closes) ==
  [complete |-> TRUE, ranging |-> FALSE, conflicted |-> FALSE,
   ema20 |-> ema20, ema50 |-> ema50, ema200 |-> ema200, rsi |-> rsi, atr |-> atr,
   support |-> support, resistance |-> resistance, entry |-> 1000, closes |-> closes,
   params |-> Defaults]

Unknown == [Reading(1, 2, 3, 50, 2, 0, 0, <<>>) EXCEPT !.complete = FALSE]

\* A rising market, a falling one, and one without indicators.
MCBarReadings ==
  {Reading(3, 2, 1, 50, 2, 0, 0, <<>>), Reading(1, 2, 3, 50, 2, 0, 0, <<>>), Unknown}

\* EMAs that agree or do not, the edges of the RSI ranges, levels inside, at and
\* outside 0.3 per cent, steady, unsteady and too few closes, a calm and a wild market,
\* and two versions of the parameters.
MCReadings ==
  {[Reading(e[1], e[2], e[3], rsi, atr, 1000 - below, 1000 + above, closes) EXCEPT !.params = p] :
     e \in {<<1003, 1002, 1001>>, <<1001, 1002, 1003>>, <<1002, 1001, 1003>>},
     p \in {Defaults, Lopsided}, rsi \in {29, 30, 45, 55, 56, 70, 71}, atr \in {50, 52},
     below \in {0, 3, 4}, above \in {0, 3, 1000},
     closes \in {<<998, 999, 1000>>, <<1000, 999, 1000>>, <<999, 1000>>}}
  \cup {[Reading(1003, 1002, 1001, 50, 50, 0, 0, <<998, 999, 1000>>)
         EXCEPT !.ranging = x, !.conflicted = ~x] : x \in BOOLEAN}
  \cup {Unknown}

\* Events the query of 45 finds, at the edge of the window, and does not find.
DtoRow(code, time) ==
  [currency |-> [code |-> code, plain |-> FALSE], impact |-> "HIGH", time |-> time]

MCDtoRows == {DtoRow("USD", 30), DtoRow("EUR", 45)}

MCQueries == {[currency |-> [code |-> "USD", plain |-> TRUE], now |-> 45]}

MCOtherEvents == {"SIGNAL_STATUS_UPDATED"}

-----------------------------------------------------------------------------
Parts == {"market", "pipeline", "strategy", "backtest", "auth", "calendar"}

Init ==
  /\ part \in Parts
  /\ MarketInit /\ PipelineInit /\ BacktestInit /\ AuthInit /\ CalendarInit
  /\ reading = Unknown /\ verdict = evaluate(reading)
  /\ part # "market" => ask = [s \in Syncs |-> Ask(TRUE)]
  /\ calendar[e2] = NoEvent
  /\ part # "calendar" <=> calendar[e1] = NoEvent

Only(p) ==
  /\ part = p
  /\ UNCHANGED part
  /\ p # "market" => UNCHANGED marketVars
  /\ p # "pipeline" => UNCHANGED pipelineVars
  /\ p # "strategy" => UNCHANGED emaVars
  /\ p # "backtest" => UNCHANGED backtestVars
  /\ p # "auth" => UNCHANGED authVars
  /\ p # "calendar" => UNCHANGED calendarVars

Next ==
  \/ Only("market") /\ MarketNext
  \/ Only("pipeline") /\ PipelineNext
  \/ Only("strategy") /\ reading = Unknown /\ Evaluate
  \/ Only("backtest") /\ BacktestNext
  \/ Only("auth") /\ AuthNext
  \/ Only("calendar") /\ CalendarNext

vars == <<part, marketVars, pipelineVars, emaVars, backtestVars, authVars, calendarVars>>

Spec == Init /\ [][Next]_vars /\ MarketFairness /\ PipelineFairness

\* Every variable of every part has its type.
TypesOK ==
  /\ MarketTypeOK /\ PipelineTypeOK /\ EmaTypeOK /\ BacktestTypeOK /\ AuthTypeOK
  /\ CalendarTypeOK
=============================================================================
