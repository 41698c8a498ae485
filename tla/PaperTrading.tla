---------------------------- MODULE PaperTrading ----------------------------
(***************************************************************************)
(* The paper-trading engine: simulated trades opened from signals, closed  *)
(* by hand or by a candle that touches their stop loss or take profit, and *)
(* the balance of their accounts.                                          *)
(*                                                                         *)
(* A call is one run of openTradeFromSignal, of closeTrade or of the       *)
(* evaluation of a candle.  The engine uses no transaction: every read and *)
(* write of a call is a step of its own.  Calls of the queue (Jobs) are    *)
(* retried after a failed statement, and once after a worker that died;    *)
(* calls of the HTTP endpoints are not.  MaxRunning bounds the calls in    *)
(* progress at once: the queue runs five by default in each instance, with *)
(* requests to the endpoints beside them.                                  *)
(*                                                                         *)
(* Three rules of the engine are a check and a later act that nothing      *)
(* keeps together: that an instrument has no open trade and the create,    *)
(* that a trade is open and the close, a balance that is read and the      *)
(* balance written back.  Where two calls are between the two at once they *)
(* cross, and crossed records on what.                                     *)
(***************************************************************************)
EXTENDS Integers, FiniteSets

CONSTANTS
  Signals,        \* trading signals; a signal has at most one paper trade
  TermsOf,        \* signal -> instrument, direction, entry, stop, take and size
  Accounts,       \* active paper-trading accounts
  Initial,        \* the initial balance of an account
  Openers,        \* calls that open a trade ...
  SignalsOf,      \* ... of one of which signals ...
  AccountOf,      \* ... on which account: the given one or the default
  Closers,        \* calls of the close endpoint
  Prices,         \* close prices sent to it
  Evaluators,     \* evaluations of a candle ...
  CandleOf,       \* ... which one: its instrument, low and high
  Approvals,      \* agents whose approval is asked for: risk and supervisor
  Jobs,           \* the openers and evaluators that are jobs of the queue
  MaxAttempts,    \* attempts of a job that throws
  MaxStalls,      \* how often a job is put back after its worker died
  MaxRunning      \* bound on the calls in progress at once

Calls == Openers \cup Closers \cup Evaluators

ASSUME PaperTradingAssumption ==
  /\ Signals # {} /\ Accounts # {}
  /\ \A s \in Signals :
       /\ TermsOf[s].direction \in {"BUY", "SELL", "HOLD"}
       /\ \A f \in {"entry", "stop", "take", "size"} : TermsOf[s][f] \in Int
  /\ Initial \in Int
  /\ SignalsOf \in [Openers -> SUBSET Signals]
  /\ AccountOf \in [Openers -> Accounts]
  /\ Prices \subseteq Nat
  /\ \A e \in Evaluators : CandleOf[e].low \in Int /\ CandleOf[e].high \in Int
  /\ Jobs \subseteq Openers \cup Evaluators
  /\ MaxAttempts \in Nat \ {0} /\ MaxStalls \in Nat
  /\ MaxRunning \in Nat \ {0}
  /\ Openers \cap (Closers \cup Evaluators) = {}
  /\ Closers \cap Evaluators = {}

VARIABLES
  pc,         \* where each call is
  failures,   \* how often each call threw an error that may be retried
  stalls,     \* how often the process of each job died
  target,     \* the trade each call is working on, named by its signal
  price,      \* the price at which each closing call closes it
  seen,       \* the balance each call read last
  todo,       \* the trades an evaluation still has to close
  ready,      \* signals with a status that may be opened
  granted,    \* signal -> AgentDecision approvals on record
  trade,      \* signal -> status of its trade
  account,    \* signal -> account of its trade
  pnl,        \* signal -> profit and loss stored when its trade was closed
  balance,    \* account -> balance
  booked,     \* history: the profits and losses added to a balance
  unbooked,   \* history: trades of a closing call that ended before it booked
  due,        \* history: account -> the initial balance and all that was booked on it
  explained,  \* history: account -> the initial balance with some of these amounts
  crossed     \* history: the instruments, trades and accounts on which calls crossed

callVars == <<failures, stalls, target, price, seen, todo>>
signalVars == <<ready, granted>>
tradeVars == <<trade, account, pnl>>
historyVars == <<booked, unbooked, due, explained>>
vars == <<pc, callVars, signalVars, tradeVars, balance, historyVars, crossed>>

PCs == {"idle", "retry", "signal", "existing", "instrument", "approvals", "create",
        "candle", "next", "trade", "account", "close", "book",
        "recount", "restate", "mark", "done"}

Instruments == {TermsOf[s].instrument : s \in Signals}

Running == {c \in Calls : pc[c] \notin {"idle", "retry", "done"}}

TypeOK ==
  /\ pc \in [Calls -> PCs]
  /\ failures \in [Calls -> 0..MaxAttempts]
  /\ stalls \in [Calls -> 0..MaxStalls + 1]
  /\ target \in [Calls -> Signals]
  /\ price \in [Calls -> Int]
  /\ seen \in [Calls -> Int]
  /\ todo \in [Calls -> SUBSET Signals]
  /\ ready \subseteq Signals
  /\ granted \in [Signals -> SUBSET Approvals]
  /\ trade \in [Signals -> {"none", "OPEN", "CLOSED"}]
  /\ account \in [Signals -> Accounts]
  /\ pnl \in [Signals -> Int]
  /\ balance \in [Accounts -> Int]
  /\ booked \subseteq Calls \X Signals \X Int
  /\ unbooked \subseteq Signals
  /\ due \in [Accounts -> Int]
  /\ explained \in [Accounts -> SUBSET Int]
  /\ crossed \in [instruments : SUBSET Instruments, trades : SUBSET Signals,
                   accounts : SUBSET Accounts]

\* Values of variables that have none yet.
SomeSignal == CHOOSE s \in Signals : TRUE
SomeAccount == CHOOSE a \in Accounts : TRUE

Init ==
  /\ pc = [c \in Calls |-> "idle"]
  /\ failures = [c \in Calls |-> 0]
  /\ stalls = [c \in Calls |-> 0]
  /\ target \in [Calls -> Signals]
  /\ \A c \in Calls : target[c] \in IF c \in Openers THEN SignalsOf[c] ELSE {SomeSignal}
  /\ price = [c \in Calls |-> 0]
  /\ seen = [c \in Calls |-> 0]
  /\ todo = [c \in Calls |-> {}]
  /\ ready = {}
  /\ granted = [s \in Signals |-> {}]
  /\ trade = [s \in Signals |-> "none"]
  /\ account = [s \in Signals |-> SomeAccount]
  /\ pnl = [s \in Signals |-> 0]
  /\ balance = [a \in Accounts |-> Initial]
  /\ booked = {}
  /\ unbooked = {}
  /\ due = [a \in Accounts |-> Initial]
  /\ explained = [a \in Accounts |-> {Initial}]
  /\ crossed = [instruments |-> {}, trades |-> {}, accounts |-> {}]

-----------------------------------------------------------------------------
(* Helpers                                                                 *)

Instrument(s) == TermsOf[s].instrument

Step(c, from, to) ==
  /\ pc[c] = from
  /\ pc' = [pc EXCEPT ![c] = to]

\* The guard of a step: the call goes on, or ends with an error that is never
\* retried (BadRequest and NotFound are unrecoverable for the queue).
Check(c, from, ok, to) == Step(c, from, IF ok THEN to ELSE "done")

\* Terms from which a trade can be opened.
Tradable(s) ==
  /\ TermsOf[s].direction # "HOLD"
  /\ \A f \in {"entry", "stop", "take"} : TermsOf[s][f] > 0

PnL(s, p) ==
  (IF TermsOf[s].direction = "BUY" THEN p - TermsOf[s].entry ELSE TermsOf[s].entry - p)
    * TermsOf[s].size

\* The price at which candle k closes the trade of s, as a set: empty when it
\* touches neither level; the stop loss when it touches both.
ClosePrices(s, k) ==
  LET t    == TermsOf[s]
      stop == IF t.direction = "BUY" THEN k.low <= t.stop ELSE k.high >= t.stop
      take == IF t.direction = "BUY" THEN k.high >= t.take ELSE k.low <= t.take
  IN  IF stop THEN {t.stop} ELSE IF take THEN {t.take} ELSE {}

Open == {s \in Signals : trade[s] = "OPEN"}

\* The open trades of the candle's instrument that it closes.  The query returns the
\* latest 200 open trades of an instrument; all of them are fewer, since a call that
\* finds one open opens none: there are as many as calls that crossed on it.
Touched(k) == {s \in Open : Instrument(s) = k.instrument /\ ClosePrices(s, k) # {}}

\* Variant: the first run of a job is not counted as an attempt.
AttemptsAfterFirst(c) == IF c \in Jobs THEN MaxAttempts + 1 ELSE 1

Attempts(c) == IF c \in Jobs THEN MaxAttempts ELSE 1

FirstStep(c) ==
  IF c \in Openers THEN "signal" ELSE IF c \in Closers THEN "trade" ELSE "candle"

\* The account whose balance a call works on.
Book(c) == IF c \in Openers THEN AccountOf[c] ELSE account[target[c]]

\* The balance a call read is gone with the statement that used it.
Forget(c) == seen' = [seen EXCEPT ![c] = 0]

-----------------------------------------------------------------------------
(* Calls                                                                   *)

\* A request arrives or a worker takes a job.
Start(c) ==
  /\ Cardinality(Running) < MaxRunning
  /\ Step(c, "idle", FirstStep(c))
  /\ IF c \in Closers
     THEN /\ \E s \in Signals : trade[s] # "none" /\ target' = [target EXCEPT ![c] = s]
          /\ \E p \in Prices : price' = [price EXCEPT ![c] = p]
     ELSE UNCHANGED <<target, price>>
  /\ UNCHANGED <<failures, stalls, seen, todo, signalVars, tradeVars, balance, historyVars>>

\* A worker takes an interrupted job again.
Resume(c) ==
  /\ Cardinality(Running) < MaxRunning
  /\ Step(c, "retry", FirstStep(c))
  /\ UNCHANGED <<callVars, signalVars, tradeVars, balance, historyVars>>

\* Variant: a job that failed once is not put back.
ThrowsForGood(c) ==
  /\ failures' = [failures EXCEPT ![c] = @ + 1]
  /\ pc' = [pc EXCEPT ![c] = "done"]
  /\ UNCHANGED stalls

\* A call ends with an error that is not an exception of the program's own: a job
\* is put back while it has attempts left.
Throws(c) ==
  /\ failures' = [failures EXCEPT ![c] = @ + 1]
  /\ pc' = [pc EXCEPT ![c] = IF failures[c] + 1 < Attempts(c) THEN "retry" ELSE "done"]
  /\ UNCHANGED stalls

\* The process of a job dies: the queue finds it stalled and puts it back, which uses
\* no attempt, but fails it when that happens too often.  (A call of an endpoint ends
\* with its process as it does with an error.)
Dies(c) ==
  /\ c \in Jobs
  /\ stalls' = [stalls EXCEPT ![c] = @ + 1]
  /\ pc' = [pc EXCEPT ![c] = IF stalls[c] < MaxStalls THEN "retry" ELSE "done"]
  /\ UNCHANGED failures

\* The call has no attempt left, or its process died once too often.
GaveUp(c) == failures[c] = Attempts(c) \/ stalls[c] > MaxStalls

\* The statement the call is at throws, or the process dies before or after it.
Interrupt(c) ==
  /\ c \in Running
  /\ Throws(c) \/ Dies(c)
  /\ unbooked' = IF pc[c] = "book" THEN unbooked \cup {target[c]} ELSE unbooked
  /\ Forget(c)
  /\ UNCHANGED <<target, price, todo, signalVars, tradeVars, balance, booked, due, explained>>

-----------------------------------------------------------------------------
(* openTradeFromSignal                                                     *)

\* Status and terms of the signal are read; an account is there.
ReadSignal(c) ==
  /\ Check(c, "signal", target[c] \in ready /\ Tradable(target[c]), "existing")
  /\ UNCHANGED <<callVars, signalVars, tradeVars, balance, historyVars>>

CheckExisting(c) ==
  /\ Check(c, "existing", trade[target[c]] = "none", "instrument")
  /\ UNCHANGED <<callVars, signalVars, tradeVars, balance, historyVars>>

\* Variant: only the trades of the account are looked at.
CheckAccountInstrument(c) ==
  /\ Check(c, "instrument",
           \A s \in Open : Instrument(s) # Instrument(target[c]) \/ account[s] # AccountOf[c],
           "approvals")
  /\ UNCHANGED <<callVars, signalVars, tradeVars, balance, historyVars>>

CheckInstrument(c) ==
  /\ Check(c, "instrument",
           \A s \in Open : Instrument(s) # Instrument(target[c]), "approvals")
  /\ UNCHANGED <<callVars, signalVars, tradeVars, balance, historyVars>>

\* Variant: an approval of either agent will do.
CheckAnyApproval(c) ==
  /\ Check(c, "approvals",
           granted[target[c]] # {} /\ TermsOf[target[c]].size > 0, "create")
  /\ UNCHANGED <<callVars, signalVars, tradeVars, balance, historyVars>>

\* Three reads of records that are only ever added: the approvals of the risk
\* and the supervisor agent and the position size.
CheckApprovals(c) ==
  /\ Check(c, "approvals",
           granted[target[c]] = Approvals /\ TermsOf[target[c]].size > 0,
           "create")
  /\ UNCHANGED <<callVars, signalVars, tradeVars, balance, historyVars>>

\* signalId is unique: a second row for the signal is an error of the database.
CreateTrade(c) ==
  \/ /\ trade[target[c]] = "none"
     /\ Step(c, "create", "recount")
     /\ trade' = [trade EXCEPT ![target[c]] = "OPEN"]
     /\ account' = [account EXCEPT ![target[c]] = AccountOf[c]]
     /\ UNCHANGED <<callVars, pnl, signalVars, balance, historyVars>>
  \/ /\ trade[target[c]] # "none"
     /\ pc[c] = "create"
     /\ Throws(c)
     /\ UNCHANGED <<target, price, seen, todo, signalVars, tradeVars, balance, historyVars>>

\* The status becomes EXECUTED_PAPER, which may not be opened again.
MarkSignal(c) ==
  /\ Step(c, "mark", "done")
  /\ ready' = ready \ {target[c]}
  /\ UNCHANGED <<callVars, granted, tradeVars, balance, historyVars>>

-----------------------------------------------------------------------------
(* closeTrade                                                              *)

\* Variant: the status of the trade is not checked.
FindAnyTrade(c) ==
  /\ Check(c, "trade", price[c] > 0, "account")
  /\ UNCHANGED <<callVars, signalVars, tradeVars, balance, historyVars>>

FindTrade(c) ==
  /\ Check(c, "trade", price[c] > 0 /\ trade[target[c]] = "OPEN", "account")
  /\ UNCHANGED <<callVars, signalVars, tradeVars, balance, historyVars>>

ReadAccount(c) ==
  /\ Step(c, "account", "close")
  /\ seen' = [seen EXCEPT ![c] = balance[Book(c)]]
  /\ UNCHANGED <<failures, stalls, target, price, todo, signalVars, tradeVars, balance, historyVars>>

\* Variant: the trade is closed and its profit or loss forgotten.
CloseUnbooked(c) ==
  /\ Step(c, "close", "recount")
  /\ trade' = [trade EXCEPT ![target[c]] = "CLOSED"]
  /\ pnl' = [pnl EXCEPT ![target[c]] = PnL(target[c], price[c])]
  /\ UNCHANGED <<callVars, account, signalVars, balance, historyVars>>

\* The row is updated by its id, whatever its status is by now.
CloseTrade(c) ==
  /\ Step(c, "close", "book")
  /\ trade' = [trade EXCEPT ![target[c]] = "CLOSED"]
  /\ pnl' = [pnl EXCEPT ![target[c]] = PnL(target[c], price[c])]
  /\ UNCHANGED <<callVars, account, signalVars, balance, historyVars>>

\* What a booked amount adds to the history.
Explain(a, gain) ==
  /\ due' = [due EXCEPT ![a] = @ + gain]
  /\ explained' = [explained EXCEPT ![a] = @ \cup {b + gain : b \in @}]

\* Variant: the amount is added twice.
UpdateBalanceTwice(c) ==
  LET gain == PnL(target[c], price[c]) IN
  /\ Step(c, "book", "recount")
  /\ balance' = [balance EXCEPT ![Book(c)] = seen[c] + 2 * gain]
  /\ booked' = booked \cup {<<c, target[c], gain>>}
  /\ Explain(Book(c), gain)
  /\ Forget(c)
  /\ UNCHANGED <<failures, stalls, target, price, todo, signalVars, tradeVars, unbooked>>

\* The balance read before the trade was closed, plus the profit or loss.
UpdateBalance(c) ==
  LET gain == PnL(target[c], price[c]) IN
  /\ Step(c, "book", "recount")
  /\ balance' = [balance EXCEPT ![Book(c)] = seen[c] + gain]
  /\ booked' = booked \cup {<<c, target[c], gain>>}
  /\ Explain(Book(c), gain)
  /\ Forget(c)
  /\ UNCHANGED <<failures, stalls, target, price, todo, signalVars, tradeVars, unbooked>>

\* recalculateAccountEquity reads the account and the open trades, whose pnl is
\* still null, so that the equity it computes is the balance it read ...
Recount(c) ==
  /\ Step(c, "recount", "restate")
  /\ seen' = [seen EXCEPT ![c] = balance[Book(c)]]
  /\ UNCHANGED <<failures, stalls, target, price, todo, signalVars, tradeVars, balance, historyVars>>

\* Variant: an evaluation ends with the first trade it closed.
RestateOnce(c) ==
  /\ Step(c, "restate", IF c \in Openers THEN "mark" ELSE "done")
  /\ balance' = [balance EXCEPT ![Book(c)] = seen[c]]
  /\ Forget(c)
  /\ UNCHANGED <<failures, stalls, target, price, todo, signalVars, tradeVars, historyVars>>

\* ... and writes both back.  An opener goes on with its signal, an evaluation
\* with the next trade.
Restate(c) ==
  /\ Step(c, "restate", IF c \in Openers THEN "mark"
                        ELSE IF c \in Evaluators THEN "next" ELSE "done")
  /\ balance' = [balance EXCEPT ![Book(c)] = seen[c]]
  /\ Forget(c)
  /\ UNCHANGED <<failures, stalls, target, price, todo, signalVars, tradeVars, historyVars>>

-----------------------------------------------------------------------------
(* evaluateOpenTradesOnCandle                                              *)

FindTouched(c) ==
  /\ Step(c, "candle", "next")
  /\ todo' = [todo EXCEPT ![c] = Touched(CandleOf[c])]
  /\ UNCHANGED <<failures, stalls, target, price, seen, signalVars, tradeVars, balance, historyVars>>

NextTouched(c) ==
  /\ \/ /\ todo[c] = {}
        /\ Step(c, "next", "done")
        /\ UNCHANGED <<target, price, todo>>
     \/ \E s \in todo[c] :
          /\ Step(c, "next", "trade")
          /\ target' = [target EXCEPT ![c] = s]
          /\ price' = [price EXCEPT ![c] = CHOOSE p \in ClosePrices(s, CandleOf[c]) : TRUE]
          /\ todo' = [todo EXCEPT ![c] = @ \ {s}]
  /\ UNCHANGED <<failures, stalls, seen, signalVars, tradeVars, balance, historyVars>>

-----------------------------------------------------------------------------
(* Other modules                                                           *)

\* The signals endpoint and the agents write any status over any other.
updateStatus(s) ==
  /\ ready' = IF s \in ready THEN ready \ {s} ELSE ready \cup {s}
  /\ UNCHANGED <<pc, callVars, granted, tradeVars, balance, historyVars>>

\* An agent stores its approval.
Grant(s, agent) ==
  /\ agent \notin granted[s]
  /\ granted' = [granted EXCEPT ![s] = @ \cup {agent}]
  /\ UNCHANGED <<pc, callVars, ready, tradeVars, balance, historyVars>>

-----------------------------------------------------------------------------
Opening(c) ==
  \/ ReadSignal(c) \/ CheckExisting(c) \/ CheckInstrument(c) \/ CheckApprovals(c)
  \/ CreateTrade(c) \/ MarkSignal(c)

Closing(c) ==
  FindTrade(c) \/ ReadAccount(c) \/ CloseTrade(c) \/ UpdateBalance(c)

Evaluating(c) == FindTouched(c) \/ NextTouched(c)

\* What a running call does next.
Advance(c) ==
  Opening(c) \/ Closing(c) \/ Evaluating(c) \/ Recount(c) \/ Restate(c)

\* Calls between the look at an instrument and the create, between the look at a
\* trade and its close, between the reading of a balance and its writing.
Entering == {c \in Openers : pc[c] \in {"approvals", "create"}}
Shutting == {c \in Calls : pc[c] \in {"account", "close"}}
Holding == {c \in Calls : pc[c] \in {"close", "book", "restate"}}

InstrumentsCrossed ==
  {i \in Instruments : \E c, d \in Entering :
     c # d /\ Instrument(target[c]) = i /\ Instrument(target[d]) = i}
TradesCrossed ==
  {s \in Signals : \E c, d \in Shutting : c # d /\ target[c] = s /\ target[d] = s}
AccountsCrossed ==
  {a \in Accounts : \E c, d \in Holding : c # d /\ Book(c) = a /\ Book(d) = a}

\* History: what a step leaves two calls crossing on is remembered.
Cross ==
  crossed' = [instruments |-> crossed.instruments \cup InstrumentsCrossed',
              trades |-> crossed.trades \cup TradesCrossed',
              accounts |-> crossed.accounts \cup AccountsCrossed']

Move ==
  \/ \E c \in Calls : Start(c) \/ Resume(c) \/ Advance(c) \/ Interrupt(c)
  \/ \E s \in Signals : updateStatus(s)
  \/ \E s \in Signals, agent \in Approvals : Grant(s, agent)

Next == Move /\ Cross

Spec == Init /\ [][Next]_vars

\* Every await of a running call settles, and a worker takes a job that waits
\* for its retry.  Nothing is assumed of callers or agents.
Fairness ==
  \A c \in Calls : WF_vars(Advance(c) /\ Cross) /\ WF_vars(Resume(c) /\ Cross)

FairSpec == Spec /\ Fairness

-----------------------------------------------------------------------------
(* Safety, with any number of calls at once                                *)

\* A trade exists only for a signal that both agents approved, however statuses
\* change while the call runs and however often it is interrupted.
TradesApproved == \A s \in Signals : trade[s] # "none" => granted[s] = Approvals

\* Interleaved calls lose profits and losses but never invent any: each balance
\* is the initial one plus some of the amounts closed on the account.
BalanceExplained == \A a \in Accounts : balance[a] \in explained[a]

\* The profit or loss of a closed trade was added to the balance, or is about
\* to be, or the call that closed the trade was interrupted in between.
ClosedIsBooked ==
  \A s \in Signals :
    trade[s] = "CLOSED" =>
      \/ \E c \in Calls : <<c, s, pnl[s]>> \in booked
      \/ \E c \in Calls : pc[c] = "book" /\ target[c] = s
      \/ s \in unbooked

\* Another call than e closed the trade of s: it added the amount to the balance,
\* is about to, or was interrupted before.
ClosedByOther(e, s) ==
  \/ \E b \in booked : b[1] # e /\ b[2] = s
  \/ \E c \in Calls \ {e} : pc[c] = "book" /\ target[c] = s
  \/ s \in unbooked

\* An evaluation leaves trades on its list only when every attempt of it was
\* interrupted, or when it came to a trade that another call had closed since they
\* were listed: closing that one throws, and nobody looks at the rest.
ListsAreClosed ==
  \A e \in Evaluators :
    pc[e] = "done" /\ todo[e] # {} =>
      GaveUp(e) \/ ClosedByOther(e, target[e])

\* The rules of the engine that concurrent calls break (OneOpenPerInstrument
\* and BookedOnce are found violated), on everything that no two calls crossed on.

\* "Instrument already has an open paper trade": at most one open trade for
\* an instrument.
OneOpenPerInstrument ==
  \A s, t \in Open : Instrument(s) = Instrument(t) => s = t

\* "Only open paper trades can be closed": the profit or loss of a trade is
\* booked once.
BookedOnce == \A b1, b2 \in booked : b1[2] = b2[2] => b1 = b2

\* Two signals of an instrument have open trades only if two calls crossed between
\* the look at the instrument and the create.
OneOpenUnlessCrossed ==
  \A s, t \in Open :
    Instrument(s) = Instrument(t) => s = t \/ Instrument(s) \in crossed.instruments

\* A trade's amount is booked twice only if two calls crossed between the look at
\* its status and the close, whatever was interrupted and retried.
BookedOnceUnlessCrossed ==
  \A b1, b2 \in booked : b1[2] = b2[2] => b1 = b2 \/ b1[2] \in crossed.trades

\* A balance is the initial one and everything booked on the account, at every moment,
\* unless two calls crossed between a reading and a writing of it.
BalanceUnlessCrossed ==
  \A a \in Accounts : balance[a] = due[a] \/ a \in crossed.accounts

\* Where calls do not cross the engine keeps its rules, with any number of calls at
\* once, interruptions and retries.
RulesUnlessCrossed == OneOpenUnlessCrossed /\ BookedOnceUnlessCrossed /\ BalanceUnlessCrossed

\* The books of the engine, seen from outside, are those of PaperLedger.
Ledger == INSTANCE PaperLedger WITH
  InstrumentOf <- [s \in Signals |-> Instrument(s)],
  owed <- {target[c] : c \in {d \in Calls : pc[d] = "book"}}

\* Concurrent calls keep the books of PaperLedger, interruptions and retries included:
\* what calls did not cross on is opened once, closed once, and booked once with the
\* amount that is stored; nothing but the crossing of calls excuses anything else.
LedgerSpec == Ledger!Spec

(* Liveness                                                                *)

\* A trade that is open when an evaluation of a candle that touches it starts is
\* closed, unless the evaluation gave up, or ended before it came to the trade because
\* another call had closed one of its list.
TouchedTradesClose ==
  \A e \in Evaluators, s \in Signals :
    pc[e] = "candle" /\ s \in Touched(CandleOf[e])
      ~> \/ trade[s] = "CLOSED" \/ GaveUp(e)
         \/ pc[e] = "done" /\ s \in todo[e] /\ ClosedByOther(e, target[e])
=============================================================================
