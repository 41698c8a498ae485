---------------------------- MODULE PaperLedger ----------------------------
(***************************************************************************)
(* What the paper-trading engine promises of its books while any number of *)
(* calls use it: a trade is opened where its instrument has none open,     *)
(* closed once, and its profit or loss is added to the balance of its      *)
(* account once, or is lost with the call that owed it.  Nothing else      *)
(* moves a balance.  The engine holds no lock, so each promise has one     *)
(* exception, and only one: the instruments, trades and accounts on which  *)
(* two calls crossed, each between a check and the act that relies on it.  *)
(***************************************************************************)
EXTENDS Integers

CONSTANTS
  Signals,        \* trading signals; a signal has at most one paper trade
  InstrumentOf,   \* signal -> instrument
  Accounts,       \* paper-trading accounts
  Initial         \* the initial balance of an account

VARIABLES
  trade,          \* signal -> status of its trade
  account,        \* signal -> account of its trade
  pnl,            \* signal -> profit and loss stored with the closed trade
  balance,        \* account -> balance
  owed,           \* closed trades that are about to be added to a balance
  crossed         \* the instruments, trades and accounts on which calls crossed

books == <<trade, account, pnl, balance, owed>>
ledgerVars == <<books, crossed>>

Init ==
  /\ trade = [s \in Signals |-> "none"]
  /\ account \in [Signals -> Accounts]
  /\ pnl = [s \in Signals |-> 0]
  /\ balance = [a \in Accounts |-> Initial]
  /\ owed = {}
  /\ crossed = [instruments |-> {}, trades |-> {}, accounts |-> {}]

Open(s, a) ==
  /\ trade[s] = "none"
  /\ \/ \A t \in Signals : trade[t] = "OPEN" => InstrumentOf[t] # InstrumentOf[s]
     \/ InstrumentOf[s] \in crossed.instruments
  /\ trade' = [trade EXCEPT ![s] = "OPEN"]
  /\ account' = [account EXCEPT ![s] = a]
  /\ UNCHANGED <<pnl, balance, owed>>

\* Whatever the profit or loss is.
Close(s) ==
  /\ trade[s] = "OPEN" \/ (trade[s] = "CLOSED" /\ s \in crossed.trades)
  /\ trade' = [trade EXCEPT ![s] = "CLOSED"]
  /\ pnl' = [pnl EXCEPT ![s] = pnl'[s]]
  /\ owed' = owed \cup {s}
  /\ UNCHANGED <<account, balance>>

\* What is owed for s is owed no more, unless it was closed twice.
Discharge(s) ==
  /\ s \in owed
  /\ owed' = owed \ {s} \/ (owed' = owed /\ s \in crossed.trades)

Settle(s) ==
  /\ Discharge(s)
  /\ balance' = [balance EXCEPT ![account[s]] = balance'[account[s]]]
  /\ \/ balance'[account[s]] = balance[account[s]] + pnl[s]
     \/ s \in crossed.trades
     \/ account[s] \in crossed.accounts
  /\ UNCHANGED <<trade, account, pnl>>

Lose(s) ==
  /\ Discharge(s)
  /\ UNCHANGED <<trade, account, pnl, balance>>

\* A balance that was read before another call moved it is written back.
Overwrite(a) ==
  /\ a \in crossed.accounts
  /\ balance' = [balance EXCEPT ![a] = balance'[a]]
  /\ UNCHANGED <<trade, account, pnl, owed>>

\* What calls crossed on stays crossed.
Remember ==
  /\ crossed.instruments \subseteq crossed'.instruments
  /\ crossed.trades \subseteq crossed'.trades
  /\ crossed.accounts \subseteq crossed'.accounts

Next ==
  /\ \/ \E s \in Signals, a \in Accounts : Open(s, a)
     \/ \E s \in Signals : Close(s) \/ Settle(s) \/ Lose(s)
     \/ \E a \in Accounts : Overwrite(a)
     \/ UNCHANGED books
  /\ Remember

Spec == Init /\ [][Next]_ledgerVars
=============================================================================
