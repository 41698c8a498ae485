--------------------------- MODULE MCPaperTrading ---------------------------
(* Instances of PaperTrading for TLC.                                      *)
EXTENDS PaperTrading, TLC

CONSTANTS s1, s2, main, side, gold, open1, open2, shut1, bar, bar2

\* s1 is a long and s2 a short trade of one instrument.
Terms(instrument, direction, entry, stop, take) ==
  [instrument |-> instrument, direction |-> direction,
   entry |-> entry, stop |-> stop, take |-> take, size |-> 1]
MCTermsOf == [s \in Signals |->
  IF s = s1 THEN Terms(gold, "BUY", 3, 2, 5) ELSE Terms(gold, "SELL", 4, 6, 1)]

AnySignal == [c \in Openers |-> Signals]
TwoSignals == [c \in Openers |-> IF c = open1 THEN {s1} ELSE {s2}]
OneAccount == [c \in Openers |-> main]
TwoAccounts == [c \in Openers |-> IF c = open1 THEN main ELSE side]

\* A candle that takes the profit of s1 and stops the loss of s2.
MCCandleOf == [e \in Evaluators |-> [instrument |-> gold, low |-> 3, high |-> 7]]

Twins == Permutations({open1, open2})
=============================================================================
