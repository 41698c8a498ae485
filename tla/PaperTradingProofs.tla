------------------------- MODULE PaperTradingProofs -------------------------
(***************************************************************************)
(* Proofs about PaperTrading for any number of calls, signals, accounts,   *)
(* attempts and stalls, and of calls at once: the types, that every trade  *)
(* was approved, that no profit or loss disappears unless the call that    *)
(* owed it was interrupted, that balances are made of booked amounts, why  *)
(* an evaluation may leave a trade of its list open, and that only calls   *)
(* that cross break the rules of the engine and the books of PaperLedger.  *)
(***************************************************************************)
EXTENDS PaperTrading, TLAPS

USE DEF historyVars

\* The two ways a call is interrupted.
Interrupted(c) == Throws(c) \/ Dies(c)

\* Each kind of call has its own places.
Places ==
  /\ \A c \in Openers :
       pc[c] \in {"idle", "retry", "done", "signal", "existing", "instrument", "approvals",
                  "create", "recount", "restate", "mark"}
  /\ \A c \in Closers :
       pc[c] \in {"idle", "retry", "done", "trade", "account", "close", "book", "recount",
                  "restate"}
  /\ \A c \in Evaluators :
       pc[c] \in {"idle", "retry", "done", "candle", "next", "trade", "account", "close",
                  "book", "recount", "restate"}

\* A call that has not ended has an attempt left.
AttemptLeft ==
  \A c \in Calls : pc[c] # "done" => failures[c] < Attempts(c) /\ stalls[c] <= MaxStalls

\* An evaluation has a price for every trade it still has to close.
Priced ==
  \A e \in Evaluators : \A s \in todo[e] : ClosePrices(s, CandleOf[e]) # {}

\* Between the check of the approvals and the create they do not go away.
ApprovedToCreate == \A c \in Openers : pc[c] = "create" => granted[target[c]] = Approvals

\* A call works on a trade that it found or created, and trades are never deleted.
FoundToClose ==
  \A c \in Calls :
    pc[c] \in {"account", "close", "book", "recount", "restate"} => trade[target[c]] # "none"

\* The amount stored with a closed trade was added to a balance, or a call is
\* about to add just this amount, or was interrupted before.
Accounted ==
  \A s \in Signals :
    trade[s] = "CLOSED" =>
      \/ \E c \in Calls : <<c, s, pnl[s]>> \in booked
      \/ \E c \in Calls : pc[c] = "book" /\ target[c] = s /\ PnL(s, price[c]) = pnl[s]
      \/ s \in unbooked

\* What a call read of a balance, and will write back, can be explained too.
ReadingsExplained ==
  \A c \in Calls : pc[c] \in {"close", "book", "restate"} => seen[c] \in explained[Book(c)]

IInv ==
  /\ TypeOK /\ Places /\ AttemptLeft /\ Priced
  /\ ApprovedToCreate /\ FoundToClose /\ TradesApproved /\ Accounted
  /\ BalanceExplained /\ ReadingsExplained

-----------------------------------------------------------------------------
(* Types of what the actions compute.                                      *)

LEMMA TermTypes ==
  ASSUME NEW s \in Signals
  PROVE  /\ TermsOf[s].entry \in Int /\ TermsOf[s].stop \in Int
         /\ TermsOf[s].take \in Int /\ TermsOf[s].size \in Int
BY PaperTradingAssumption

LEMMA PnLType ==
  ASSUME NEW s \in Signals, NEW p \in Int
  PROVE  PnL(s, p) \in Int
BY TermTypes DEF PnL

LEMMA CloseType ==
  ASSUME NEW s \in Signals, NEW k
  PROVE  ClosePrices(s, k) \subseteq Int
BY TermTypes DEF ClosePrices

LEMMA BookType ==
  ASSUME TypeOK, NEW c \in Calls
  PROVE  Book(c) \in Accounts
BY PaperTradingAssumption DEF TypeOK, Book

LEMMA ExplainType ==
  ASSUME TypeOK, NEW a \in Accounts, NEW gain \in Int, Explain(a, gain)
  PROVE  due' \in [Accounts -> Int] /\ explained' \in [Accounts -> SUBSET Int]
<1>1. explained[a] \subseteq Int /\ due[a] \in Int
  BY DEF TypeOK
<1>2. {b + gain : b \in explained[a]} \subseteq Int
  BY <1>1
<1> QED
  BY <1>1, <1>2 DEF TypeOK, Explain

LEMMA AttemptType ==
  ASSUME NEW c \in Calls
  PROVE  Attempts(c) \in 1..MaxAttempts
BY PaperTradingAssumption DEF Attempts

LEMMA Kinds ==
  /\ Openers \subseteq Calls /\ Closers \subseteq Calls /\ Evaluators \subseteq Calls
  /\ Openers \cap Closers = {} /\ Openers \cap Evaluators = {}
  /\ Closers \cap Evaluators = {}
BY PaperTradingAssumption DEF Calls

LEMMA InitIInv == Init => IInv
<1> SUFFICES ASSUME Init PROVE IInv
  OBVIOUS
<1>1. SomeSignal \in Signals /\ SomeAccount \in Accounts
  BY PaperTradingAssumption DEF SomeSignal, SomeAccount
<1>2. target \in [Calls -> Signals]
  BY <1>1, PaperTradingAssumption DEF Init
<1>3. TypeOK
  BY <1>1, <1>2, PaperTradingAssumption DEF Init, TypeOK, PCs
<1>4. Places /\ Priced /\ ApprovedToCreate /\ FoundToClose
  BY Kinds DEF Init, Places, Priced, ApprovedToCreate, FoundToClose
<1>5. AttemptLeft
  BY AttemptType, PaperTradingAssumption DEF Init, AttemptLeft
<1>6. TradesApproved /\ Accounted
  BY DEF Init, TradesApproved, Accounted
<1>7. BalanceExplained /\ ReadingsExplained
  BY DEF Init, BalanceExplained, ReadingsExplained
<1> QED
  BY <1>3, <1>4, <1>5, <1>6, <1>7 DEF IInv

-----------------------------------------------------------------------------
\* Where the steps of a call take it.
LEMMA AdvanceShape ==
  ASSUME NEW c \in Calls, Advance(c)
  PROVE  /\ c \in Running
         /\ \/ Interrupted(c)
            \/ /\ \E x \in PCs \ {"idle", "retry"} : pc' = [pc EXCEPT ![c] = x]
               /\ UNCHANGED <<failures, stalls>>
<1> USE DEF Step, Check, Running, PCs, callVars
<1>1. CASE Opening(c)
  BY <1>1 DEF Opening, ReadSignal, CheckExisting, CheckInstrument, CheckApprovals, CreateTrade,
              MarkSignal, Interrupted
<1>2. CASE Closing(c)
  BY <1>2 DEF Closing, FindTrade, ReadAccount, CloseTrade, UpdateBalance, Forget
<1>3. CASE Evaluating(c)
  BY <1>3 DEF Evaluating, FindTouched, NextTouched
<1>4. CASE Recount(c) \/ Restate(c)
  BY <1>4 DEF Recount, Restate, Forget
<1> QED
  BY <1>1, <1>2, <1>3, <1>4 DEF Advance

LEMMA PlacesStep == IInv /\ [Next]_vars => Places'
<1> SUFFICES ASSUME TypeOK, Places, [Next]_vars PROVE Places'
  BY DEF IInv
<1> USE Kinds DEF Places
<1>0. pc \in [Calls -> PCs]
  BY DEF TypeOK
<1>1. ASSUME NEW c \in Calls, NEW x \in {"retry", "done"}, pc' = [pc EXCEPT ![c] = x]
      PROVE  Places'
  BY <1>0, <1>1
<1>2. ASSUME NEW c \in Calls, Interrupted(c) PROVE Places'
  BY <1>1, <1>2 DEF Interrupted, Throws, Dies
<1>3. ASSUME NEW c \in Calls, Start(c) \/ Resume(c) PROVE Places'
  BY <1>0, <1>3 DEF Start, Resume, Step, FirstStep, Calls
<1>4. ASSUME NEW c \in Calls, Opening(c), ~Interrupted(c) PROVE Places'
  <2>1. c \in Openers
    BY <1>4 DEF Opening, ReadSignal, CheckExisting, CheckInstrument, CheckApprovals,
                CreateTrade, MarkSignal, Check, Step, Calls
  <2>2. PICK x \in {"done", "existing", "instrument", "approvals", "create", "recount"} :
          pc' = [pc EXCEPT ![c] = x]
    BY <1>4 DEF Opening, ReadSignal, CheckExisting, CheckInstrument, CheckApprovals,
                CreateTrade, MarkSignal, Check, Step, Interrupted
  <2> QED
    BY <1>0, <2>1, <2>2
<1>5. ASSUME NEW c \in Calls, Closing(c) PROVE Places'
  <2>1. c \notin Openers
    BY <1>5 DEF Closing, FindTrade, ReadAccount, CloseTrade, UpdateBalance, Forget, Check, Step
  <2>2. PICK x \in {"done", "account", "close", "book", "recount"} : pc' = [pc EXCEPT ![c] = x]
    BY <1>5 DEF Closing, FindTrade, ReadAccount, CloseTrade, UpdateBalance, Forget, Check, Step
  <2> QED
    BY <1>0, <2>1, <2>2
<1>6. ASSUME NEW c \in Calls, Evaluating(c) PROVE Places'
  <2>1. c \in Evaluators
    BY <1>6 DEF Evaluating, FindTouched, NextTouched, Step, Calls
  <2>2. PICK x \in {"done", "next", "trade"} : pc' = [pc EXCEPT ![c] = x]
    BY <1>6 DEF Evaluating, FindTouched, NextTouched, Step
  <2> QED
    BY <1>0, <2>1, <2>2
<1>7. ASSUME NEW c \in Calls, Recount(c) PROVE Places'
  BY <1>0, <1>7 DEF Recount, Step
<1>8. ASSUME NEW c \in Calls, Restate(c) PROVE Places'
  BY <1>0, <1>8 DEF Restate, Forget, Step, Calls
<1>9. CASE UNCHANGED pc
  BY <1>9
<1> QED
  BY <1>2, <1>3, <1>4, <1>5, <1>6, <1>7, <1>8, <1>9
  DEF Next, Move, Advance, Interrupt, Interrupted, updateStatus, Grant, vars

LEMMA AttemptStep == IInv /\ [Next]_vars => AttemptLeft'
<1> SUFFICES ASSUME TypeOK, AttemptLeft, [Next]_vars PROVE AttemptLeft'
  BY DEF IInv
<1> USE AttemptType DEF AttemptLeft
<1>0. /\ pc \in [Calls -> PCs] /\ failures \in [Calls -> 0..MaxAttempts] /\ MaxAttempts \in Nat
      /\ stalls \in [Calls -> 0..MaxStalls + 1] /\ MaxStalls \in Nat
  BY PaperTradingAssumption DEF TypeOK
<1>1. ASSUME NEW c \in Calls, c \in Running, Interrupted(c) PROVE AttemptLeft'
  BY <1>0, <1>1 DEF Running, Interrupted, Throws, Dies
<1>2. ASSUME NEW c \in Calls, Start(c) \/ Resume(c) PROVE AttemptLeft'
  BY <1>0, <1>2 DEF Start, Resume, Step, callVars
<1>3. ASSUME NEW c \in Calls, Advance(c) PROVE AttemptLeft'
  <2>1. CASE \E x \in PCs \ {"idle", "retry"} : pc' = [pc EXCEPT ![c] = x]
               /\ pc[c] # "done" /\ UNCHANGED <<failures, stalls>>
    BY <1>0, <2>1
  <2> QED
    BY <1>1, <1>3, <2>1, AdvanceShape DEF Running
<1>4. CASE UNCHANGED <<pc, failures, stalls>>
  BY <1>4
<1> QED
  BY <1>1, <1>2, <1>3, <1>4 DEF Next, Move, Interrupt, Interrupted, updateStatus, Grant, vars, callVars

\* The prices an evaluation closes at are prices.
LEMMA ChosenPrice ==
  ASSUME NEW s \in Signals, NEW k, ClosePrices(s, k) # {}
  PROVE  (CHOOSE p \in ClosePrices(s, k) : TRUE) \in Int
BY CloseType

\* The state is well typed in every reachable state.
LEMMA TypeStep == IInv /\ [Next]_vars => TypeOK'
<1> SUFFICES ASSUME TypeOK, Places, AttemptLeft, Priced, [Next]_vars PROVE TypeOK'
  BY DEF IInv
<1>0. crossed' \in [instruments : SUBSET Instruments, trades : SUBSET Signals,
                    accounts : SUBSET Accounts]
  BY DEF TypeOK, vars, Next, Cross, InstrumentsCrossed, TradesCrossed, AccountsCrossed
<1> USE <1>0
<1>1. ASSUME NEW c \in Calls, c \in Running, Interrupted(c)
      PROVE  /\ pc' \in [Calls -> PCs] /\ failures' \in [Calls -> 0..MaxAttempts]
             /\ stalls' \in [Calls -> 0..MaxStalls + 1]
  <2>1. failures[c] + 1 \in 0..MaxAttempts /\ stalls[c] + 1 \in 0..MaxStalls + 1
    BY <1>1, AttemptType, PaperTradingAssumption DEF AttemptLeft, Running, TypeOK
  <2>2. CASE Throws(c)
    BY <2>1, <2>2 DEF Throws, TypeOK, PCs
  <2>3. CASE Dies(c)
    BY <2>1, <2>3 DEF Dies, TypeOK, PCs
  <2> QED
    BY <1>1, <2>2, <2>3 DEF Interrupted
<1>2. ASSUME NEW c \in Calls, Start(c) PROVE TypeOK'
  <2>1. CASE c \in Closers
    <3>1. /\ target' \in [Calls -> Signals]
          /\ price' \in [Calls -> Int]
      BY <1>2, <2>1, PaperTradingAssumption DEF Start, TypeOK
    <3> QED
      BY <1>2, <3>1 DEF Start, Step, FirstStep, TypeOK, PCs, signalVars, tradeVars
  <2>2. CASE c \notin Closers
    BY <1>2, <2>2 DEF Start, Step, FirstStep, TypeOK, PCs, signalVars, tradeVars
  <2> QED
    BY <2>1, <2>2
<1>3. ASSUME NEW c \in Calls, Resume(c) PROVE TypeOK'
  BY <1>3 DEF Resume, Step, FirstStep, TypeOK, PCs, callVars, signalVars, tradeVars
<1>4. ASSUME NEW c \in Calls, Interrupt(c) PROVE TypeOK'
  BY <1>1, <1>4 DEF Interrupt, Interrupted, Forget, TypeOK, signalVars, tradeVars
<1>5. ASSUME NEW c \in Calls, Opening(c) PROVE TypeOK'
  <2>1. CASE ReadSignal(c) \/ CheckExisting(c) \/ CheckInstrument(c) \/ CheckApprovals(c)
    BY <2>1 DEF ReadSignal, CheckExisting, CheckInstrument, CheckApprovals, Check, Step, TypeOK,
                PCs, callVars, signalVars, tradeVars
  <2>2. CASE CreateTrade(c)
    <3>1. CASE pc[c] = "create" /\ Interrupted(c)
               /\ UNCHANGED <<target, price, seen, todo, signalVars, tradeVars, balance,
                              historyVars>>
      BY <1>1, <3>1 DEF Running, TypeOK, signalVars, tradeVars
    <3>2. CASE /\ Step(c, "create", "recount")
               /\ trade' = [trade EXCEPT ![target[c]] = "OPEN"]
               /\ account' = [account EXCEPT ![target[c]] = AccountOf[c]]
               /\ UNCHANGED <<callVars, pnl, signalVars, balance, historyVars>>
      <4>1. c \in Openers
        BY <3>2 DEF Step, Places, Calls
      <4>2. AccountOf[c] \in Accounts
        BY <4>1, PaperTradingAssumption
      <4> QED
        BY <3>2, <4>2 DEF Step, TypeOK, PCs, callVars, signalVars
    <3> QED
      BY <2>2, <3>1, <3>2 DEF CreateTrade, Interrupted
  <2>3. CASE MarkSignal(c)
    BY <2>3 DEF MarkSignal, Step, TypeOK, PCs, callVars, tradeVars
  <2> QED
    BY <1>5, <2>1, <2>2, <2>3 DEF Opening
<1>6. ASSUME NEW c \in Calls, Closing(c) PROVE TypeOK'
  <2>1. /\ PnL(target[c], price[c]) \in Int
        /\ Book(c) \in Accounts
        /\ seen[c] \in Int /\ balance[Book(c)] \in Int
        /\ target[c] \in Signals
    BY PnLType, BookType DEF TypeOK
  <2>2. CASE FindTrade(c)
    BY <2>2 DEF FindTrade, Check, Step, TypeOK, PCs, callVars, signalVars, tradeVars
  <2>3. CASE ReadAccount(c)
    BY <2>1, <2>3 DEF ReadAccount, Step, TypeOK, PCs, signalVars, tradeVars
  <2>4. CASE CloseTrade(c)
    BY <2>1, <2>4 DEF CloseTrade, Step, TypeOK, PCs, callVars, signalVars
  <2>5. CASE UpdateBalance(c)
    <3>1. due' \in [Accounts -> Int] /\ explained' \in [Accounts -> SUBSET Int]
      BY <2>1, <2>5, ExplainType DEF UpdateBalance, Forget
    <3>2. balance' \in [Accounts -> Int] /\ booked' \subseteq Calls \X Signals \X Int
      BY <2>1, <2>5 DEF UpdateBalance, Forget, TypeOK
    <3>3. /\ pc' \in [Calls -> PCs] /\ seen' \in [Calls -> Int]
          /\ UNCHANGED <<failures, stalls, target, price, todo, signalVars, tradeVars, unbooked>>
      BY <2>5 DEF UpdateBalance, Forget, Step, TypeOK, PCs
    <3> QED
      BY <3>1, <3>2, <3>3 DEF TypeOK, callVars, signalVars, tradeVars
  <2> QED
    BY <1>6, <2>2, <2>3, <2>4, <2>5 DEF Closing
<1>7. ASSUME NEW c \in Calls, Evaluating(c) PROVE TypeOK'
  <2>1. CASE FindTouched(c)
    BY <2>1 DEF FindTouched, Touched, Open, Step, TypeOK, PCs, signalVars, tradeVars
  <2>2. CASE NextTouched(c)
    <3>1. CASE todo[c] = {} /\ Step(c, "next", "done") /\ UNCHANGED <<target, price, todo>>
      BY <2>2, <3>1 DEF NextTouched, Step, TypeOK, PCs, signalVars, tradeVars
    <3>2. ASSUME NEW s \in todo[c],
                 Step(c, "next", "trade"),
                 target' = [target EXCEPT ![c] = s],
                 price' = [price EXCEPT ![c] =
                             CHOOSE p \in ClosePrices(s, CandleOf[c]) : TRUE],
                 todo' = [todo EXCEPT ![c] = @ \ {s}]
          PROVE  TypeOK'
      <4>1. c \in Evaluators
        BY <3>2 DEF Step, Places, Calls
      <4>2. s \in Signals
        BY DEF TypeOK
      <4>3. (CHOOSE p \in ClosePrices(s, CandleOf[c]) : TRUE) \in Int
        BY <4>1, <4>2, ChosenPrice DEF Priced
      <4> QED
        BY <2>2, <3>2, <4>2, <4>3 DEF NextTouched, Step, TypeOK, PCs, signalVars, tradeVars
    <3> QED
      BY <2>2, <3>1, <3>2 DEF NextTouched
  <2> QED
    BY <1>7, <2>1, <2>2 DEF Evaluating
<1>8. ASSUME NEW c \in Calls, Recount(c) \/ Restate(c) PROVE TypeOK'
  <2>1. Book(c) \in Accounts
    BY BookType
  <2> QED
    BY <1>8, <2>1 DEF Recount, Restate, Forget, Step, TypeOK, PCs, callVars, signalVars, tradeVars
<1>9. ASSUME NEW s \in Signals, updateStatus(s) PROVE TypeOK'
  BY <1>9 DEF updateStatus, TypeOK, callVars, tradeVars
<1>10. ASSUME NEW s \in Signals, NEW agent \in Approvals, Grant(s, agent) PROVE TypeOK'
  BY <1>10 DEF Grant, TypeOK, callVars, tradeVars
<1>11. CASE UNCHANGED vars
  BY <1>11 DEF vars, TypeOK, callVars, signalVars, tradeVars
<1> QED
  BY <1>2, <1>3, <1>4, <1>5, <1>6, <1>7, <1>8, <1>9, <1>10, <1>11 DEF Next, Move, Advance

LEMMA PricedStep == IInv /\ [Next]_vars => Priced'
<1> SUFFICES ASSUME TypeOK, Priced, [Next]_vars PROVE Priced'
  BY DEF IInv
<1> USE Kinds DEF Priced
<1>0. todo \in [Calls -> SUBSET Signals]
  BY DEF TypeOK
<1>1. ASSUME NEW c \in Calls, FindTouched(c) PROVE Priced'
  BY <1>0, <1>1 DEF FindTouched, Touched
<1>2. ASSUME NEW c \in Calls, NextTouched(c) PROVE Priced'
  <2>1. \A e \in Evaluators : todo'[e] \subseteq todo[e]
    BY <1>0, <1>2 DEF NextTouched
  <2> QED
    BY <2>1
<1>3. CASE UNCHANGED todo
  BY <1>3
<1>4. ASSUME NEW c \in Calls, Opening(c) \/ Closing(c) \/ Recount(c) \/ Restate(c)
      PROVE  UNCHANGED todo
  BY <1>4 DEF Opening, ReadSignal, CheckExisting, CheckInstrument, CheckApprovals, CreateTrade,
              MarkSignal, Closing, FindTrade, ReadAccount, CloseTrade, UpdateBalance, Forget, Recount,
              Restate, callVars
<1>5. ASSUME NEW c \in Calls, Start(c) \/ Resume(c) \/ Interrupt(c) PROVE UNCHANGED todo
  BY <1>5 DEF Start, Resume, Interrupt, Forget, callVars
<1> QED
  BY <1>1, <1>2, <1>3, <1>4, <1>5
  DEF Next, Move, Advance, Evaluating, updateStatus, Grant, vars, callVars

\* The three parts that keep trades approved.
Approved == ApprovedToCreate /\ FoundToClose /\ TradesApproved

LEMMA ApprovedStep == IInv /\ [Next]_vars => Approved'
<1> SUFFICES ASSUME TypeOK, Places, Approved, [Next]_vars
             PROVE  Approved'
  BY DEF IInv, Approved
<1> USE Kinds DEF Approved, ApprovedToCreate, FoundToClose, TradesApproved
<1>0. /\ pc \in [Calls -> PCs]
      /\ target \in [Calls -> Signals]
      /\ granted \in [Signals -> SUBSET Approvals]
      /\ trade \in [Signals -> {"none", "OPEN", "CLOSED"}]
  BY DEF TypeOK
<1>1. ASSUME NEW c \in Calls, Start(c) \/ Resume(c) PROVE Approved'
  BY <1>0, <1>1 DEF Start, Resume, Step, FirstStep, callVars, signalVars, tradeVars
<1>2. ASSUME NEW c \in Calls, Interrupted(c),
             UNCHANGED <<target, signalVars, tradeVars>>
      PROVE  Approved'
  BY <1>0, <1>2 DEF Interrupted, Throws, Dies, signalVars, tradeVars
<1>3. ASSUME NEW c \in Calls, Opening(c) PROVE Approved'
  <2>1. CASE ReadSignal(c) \/ CheckExisting(c) \/ CheckInstrument(c)
    BY <1>0, <2>1 DEF ReadSignal, CheckExisting, CheckInstrument, Check, Step, callVars,
                      signalVars, tradeVars
  <2>2. CASE CheckApprovals(c)
    BY <1>0, <2>2 DEF CheckApprovals, Check, Step, callVars, signalVars, tradeVars
  <2>3. CASE CreateTrade(c) /\ ~Interrupted(c)
    <3>1. c \in Openers /\ pc[c] = "create"
      BY <2>3 DEF CreateTrade, Step, Places, Calls
    <3>2. granted[target[c]] = Approvals
      BY <3>1
    <3>3. Step(c, "create", "recount")
      BY <2>3 DEF CreateTrade, Interrupted
    <3> QED
      BY <1>0, <2>3, <3>2, <3>3 DEF CreateTrade, Throws, Step, callVars, signalVars
  <2>4. CASE CreateTrade(c) /\ Interrupted(c)
    <3>1. ~Step(c, "create", "recount")
      BY <1>0, <2>4 DEF Step, Interrupted, Throws, Dies
    <3> QED
      BY <1>2, <2>4, <3>1 DEF CreateTrade
  <2>5. CASE MarkSignal(c)
    BY <1>0, <2>5 DEF MarkSignal, Step, callVars, tradeVars
  <2> QED
    BY <1>3, <2>1, <2>2, <2>3, <2>4, <2>5 DEF Opening
<1>4. ASSUME NEW c \in Calls, Closing(c) PROVE Approved'
  <2>1. CASE CloseTrade(c)
    <3>1. trade[target[c]] # "none"
      BY <2>1 DEF CloseTrade, Step
    <3> QED
      BY <1>0, <2>1, <3>1 DEF CloseTrade, Step, callVars, signalVars
  <2>2. CASE FindTrade(c) \/ ReadAccount(c) \/ UpdateBalance(c)
    BY <1>0, <2>2 DEF FindTrade, ReadAccount, UpdateBalance, Forget, Check, Step, callVars, signalVars,
                      tradeVars
  <2> QED
    BY <1>4, <2>1, <2>2 DEF Closing
<1>5. ASSUME NEW c \in Calls, Evaluating(c) PROVE Approved'
  BY <1>0, <1>5 DEF Evaluating, FindTouched, NextTouched, Step, Places, Calls, signalVars,
                    tradeVars
<1>6. ASSUME NEW c \in Calls, Recount(c) \/ Restate(c)
      PROVE  Approved'
  BY <1>0, <1>6 DEF Recount, Restate, Forget, Step, callVars, signalVars, tradeVars
<1>7. ASSUME NEW s \in Signals, NEW agent \in Approvals, Grant(s, agent)
      PROVE  Approved'
  BY <1>0, <1>7 DEF Grant, callVars, tradeVars
<1>8. CASE UNCHANGED <<pc, target, granted, trade>>
  BY <1>8
<1> QED
  BY <1>1, <1>2, <1>3, <1>4, <1>5, <1>6, <1>7, <1>8
  DEF Next, Move, Advance, Interrupt, Interrupted, Forget, updateStatus, vars, callVars, signalVars, tradeVars

LEMMA AccountedStep == IInv /\ [Next]_vars => Accounted'
<1> SUFFICES ASSUME TypeOK, Places, Accounted, [Next]_vars PROVE Accounted'
  BY DEF IInv
<1> USE Kinds DEF Accounted
<1>0. /\ pc \in [Calls -> PCs]
      /\ target \in [Calls -> Signals]
      /\ price \in [Calls -> Int]
      /\ trade \in [Signals -> {"none", "OPEN", "CLOSED"}]
      /\ pnl \in [Signals -> Int]
  BY DEF TypeOK
\* A step that ends nobody's booking and closes nothing.
<1>1. ASSUME UNCHANGED <<pnl, booked>>, unbooked \subseteq unbooked',
             \A s \in Signals : trade'[s] = "CLOSED" => trade[s] = "CLOSED",
             \A c \in Calls : pc[c] = "book" =>
               pc'[c] = "book" /\ target'[c] = target[c] /\ price'[c] = price[c]
      PROVE  Accounted'
  BY <1>0, <1>1
<1>2. ASSUME NEW c \in Calls, CloseTrade(c) PROVE Accounted'
  <2>1. /\ pc' = [pc EXCEPT ![c] = "book"] /\ pc[c] = "close"
        /\ pnl' = [pnl EXCEPT ![target[c]] = PnL(target[c], price[c])]
        /\ UNCHANGED <<target, price, booked, unbooked>>
        /\ trade' = [trade EXCEPT ![target[c]] = "CLOSED"]
    BY <1>2 DEF CloseTrade, Step, callVars
  <2>2. ASSUME NEW s \in Signals, trade'[s] = "CLOSED", s # target[c]
        PROVE  \/ \E d \in Calls : <<d, s, pnl'[s]>> \in booked'
               \/ \E d \in Calls : pc'[d] = "book" /\ target'[d] = s /\ PnL(s, price'[d]) = pnl'[s]
               \/ s \in unbooked'
    <3>1. trade[s] = "CLOSED" /\ pnl'[s] = pnl[s]
      BY <1>0, <2>1, <2>2
    <3>2. \A d \in Calls : pc[d] = "book" => pc'[d] = "book"
      BY <1>0, <2>1
    <3> QED
      BY <2>1, <3>1, <3>2
  <2>3. pc'[c] = "book" /\ PnL(target[c], price'[c]) = pnl'[target[c]]
    BY <1>0, <2>1
  <2> QED
    BY <2>1, <2>2, <2>3
<1>3. ASSUME NEW c \in Calls, UpdateBalance(c) PROVE Accounted'
  <2>1. /\ pc' = [pc EXCEPT ![c] = "recount"] /\ pc[c] = "book"
        /\ booked' = booked \cup {<<c, target[c], PnL(target[c], price[c])>>}
        /\ UNCHANGED <<target, price, trade, pnl, unbooked>>
    BY <1>3 DEF UpdateBalance, Forget, Step, callVars, tradeVars
  <2>2. \A d \in Calls : d # c => pc'[d] = pc[d]
    BY <1>0, <2>1
  <2> QED
    BY <2>1, <2>2
<1>4. ASSUME NEW c \in Calls, Interrupt(c) PROVE Accounted'
  <2>1. /\ UNCHANGED <<target, price, trade, pnl, booked>>
        /\ unbooked' = IF pc[c] = "book" THEN unbooked \cup {target[c]} ELSE unbooked
        /\ \A d \in Calls : d # c => pc'[d] = pc[d]
    BY <1>0, <1>4 DEF Interrupt, Forget, Interrupted, Throws, Dies, tradeVars
  <2> QED
    BY <2>1
<1>5. ASSUME NEW c \in Calls, NEW x, pc[c] # "book", pc' = [pc EXCEPT ![c] = x],
             \A d \in Calls : d # c => target'[d] = target[d] /\ price'[d] = price[d],
             \A s \in Signals : trade'[s] = "CLOSED" => trade[s] = "CLOSED",
             UNCHANGED <<pnl, booked, unbooked>>
      PROVE  Accounted'
  BY <1>0, <1>1, <1>5
<1>6. ASSUME NEW c \in Calls, Start(c) \/ Resume(c) PROVE Accounted'
  BY <1>0, <1>5, <1>6 DEF Start, Resume, Step, callVars, tradeVars
<1>7. ASSUME NEW c \in Calls, Opening(c) PROVE Accounted'
  <2>1. pc[c] # "book" /\ \E x : pc' = [pc EXCEPT ![c] = x]
    BY <1>7 DEF Opening, ReadSignal, CheckExisting, CheckInstrument, CheckApprovals,
                CreateTrade, MarkSignal, Check, Step, Interrupted, Throws, Dies
  <2>2. /\ UNCHANGED <<target, price, pnl, booked, unbooked>>
        /\ \A s \in Signals : trade'[s] = "CLOSED" => trade[s] = "CLOSED"
    BY <1>0, <1>7 DEF Opening, ReadSignal, CheckExisting, CheckInstrument, CheckApprovals,
                CreateTrade, MarkSignal, callVars, tradeVars
  <2> QED
    BY <1>5, <2>1, <2>2
<1>8. ASSUME NEW c \in Calls, FindTrade(c) \/ ReadAccount(c) \/ Recount(c) \/ Restate(c)
      PROVE  Accounted'
  BY <1>5, <1>8 DEF FindTrade, ReadAccount, Recount, Restate, Forget, Check, Step, callVars, tradeVars
<1>9. ASSUME NEW c \in Calls, Evaluating(c) PROVE Accounted'
  <2>1. pc[c] # "book" /\ \E x : pc' = [pc EXCEPT ![c] = x]
    BY <1>9 DEF Evaluating, FindTouched, NextTouched, Step
  <2>2. /\ \A d \in Calls : d # c => target'[d] = target[d] /\ price'[d] = price[d]
        /\ UNCHANGED <<trade, pnl, booked, unbooked>>
    BY <1>0, <1>9 DEF Evaluating, FindTouched, NextTouched, tradeVars
  <2> QED
    BY <1>5, <2>1, <2>2
<1>10. CASE UNCHANGED <<pc, target, price, trade, pnl, booked, unbooked>>
  BY <1>10
<1> QED
  BY <1>2, <1>3, <1>4, <1>6, <1>7, <1>8, <1>9, <1>10
  DEF Next, Move, Advance, Closing, updateStatus, Grant, vars, callVars, tradeVars

\* What a call knows changes by its own steps alone.
LEMMA OthersStay ==
  ASSUME TypeOK, NEW c \in Calls, Start(c) \/ Resume(c) \/ Advance(c) \/ Interrupt(c),
         NEW d \in Calls, d # c
  PROVE  /\ pc'[d] = pc[d] /\ failures'[d] = failures[d] /\ stalls'[d] = stalls[d]
         /\ target'[d] = target[d] /\ price'[d] = price[d]
         /\ seen'[d] = seen[d] /\ todo'[d] = todo[d]
<1> USE DEF TypeOK, Step, Check, Interrupted, Throws, Dies, callVars
<1>1. CASE Start(c) \/ Resume(c) \/ Interrupt(c)
  BY <1>1 DEF Start, Resume, Interrupt, Forget
<1>2. CASE Opening(c)
  BY <1>2 DEF Opening, ReadSignal, CheckExisting, CheckInstrument, CheckApprovals, CreateTrade,
              MarkSignal
<1>3. CASE Closing(c)
  BY <1>3 DEF Closing, FindTrade, ReadAccount, CloseTrade, UpdateBalance, Forget
<1>4. CASE Evaluating(c)
  BY <1>4 DEF Evaluating, FindTouched, NextTouched
<1>5. CASE Recount(c) \/ Restate(c)
  BY <1>5 DEF Recount, Restate, Forget
<1> QED
  BY <1>1, <1>2, <1>3, <1>4, <1>5 DEF Advance

\* A call that found its trade books on one account.
LEMMA BookStays ==
  ASSUME IInv, [Next]_vars, NEW c \in Calls, target'[c] = target[c],
         pc[c] \in {"account", "close", "book", "recount", "restate"}
  PROVE  Book(c)' = Book(c)
<1>1. /\ trade[target[c]] # "none" /\ target[c] \in Signals
      /\ account \in [Signals -> Accounts]
  BY DEF IInv, FoundToClose, TypeOK
<1>2. account'[target[c]] = account[target[c]]
  <2>1. ASSUME NEW d \in Calls, CreateTrade(d) PROVE account'[target[c]] = account[target[c]]
    BY <1>1, <2>1 DEF CreateTrade, tradeVars
  <2>2. ASSUME NEW d \in Calls, Advance(d), ~CreateTrade(d) PROVE account' = account
    BY <2>2 DEF Advance, Opening, ReadSignal, CheckExisting, CheckInstrument, CheckApprovals,
         MarkSignal, Closing, FindTrade, ReadAccount, CloseTrade, UpdateBalance, Forget, Evaluating,
         FindTouched, NextTouched, Recount, Restate, tradeVars
  <2>3. ASSUME NEW d \in Calls, Start(d) \/ Resume(d) \/ Interrupt(d) PROVE account' = account
    BY <2>3 DEF Start, Resume, Interrupt, Forget, tradeVars
  <2> QED
    BY <2>1, <2>2, <2>3 DEF Next, Move, updateStatus, Grant, vars, tradeVars
<1> QED
  BY <1>2 DEF Book

\* A booking explains more balances; nothing explains fewer.
LEMMA ExplainedGrows ==
  ASSUME TypeOK, [Next]_vars
  PROVE  \A a \in Accounts : explained[a] \subseteq explained'[a]
<1>1. ASSUME NEW c \in Calls, UpdateBalance(c)
      PROVE  \A a \in Accounts : explained[a] \subseteq explained'[a]
  BY <1>1, BookType DEF UpdateBalance, Forget, Explain, TypeOK
<1>2. ASSUME NEW c \in Calls, Advance(c), ~UpdateBalance(c) PROVE explained' = explained
  BY <1>2 DEF Advance, Opening, ReadSignal, CheckExisting, CheckInstrument, CheckApprovals,
       CreateTrade, MarkSignal, Closing, FindTrade, ReadAccount, CloseTrade, Evaluating,
       FindTouched, NextTouched, Recount, Restate, Forget
<1>3. ASSUME NEW c \in Calls, Start(c) \/ Resume(c) \/ Interrupt(c)
      PROVE  explained' = explained
  BY <1>3 DEF Start, Resume, Interrupt, Forget
<1> QED
  BY <1>1, <1>2, <1>3 DEF Next, Move, updateStatus, Grant, vars

LEMMA BalanceStep == IInv /\ [Next]_vars => BalanceExplained'
<1> SUFFICES ASSUME IInv, [Next]_vars, NEW a \in Accounts PROVE balance'[a] \in explained'[a]
  BY DEF BalanceExplained
<1>1. /\ TypeOK /\ balance \in [Accounts -> Int] /\ explained \in [Accounts -> SUBSET Int]
      /\ balance[a] \in explained[a]
      /\ explained[a] \subseteq explained'[a]
  BY ExplainedGrows DEF IInv, BalanceExplained, TypeOK
<1>2. ASSUME NEW c \in Calls, UpdateBalance(c) PROVE balance'[a] \in explained'[a]
  <2>1. Book(c) \in Accounts /\ seen[c] \in explained[Book(c)]
    BY <1>1, <1>2, BookType DEF UpdateBalance, Forget, Step, IInv, ReadingsExplained
  <2>2. CASE a = Book(c)
    BY <1>1, <1>2, <2>1, <2>2 DEF UpdateBalance, Forget, Explain
  <2>3. CASE a # Book(c)
    BY <1>1, <1>2, <2>1, <2>3 DEF UpdateBalance, Forget
  <2> QED
    BY <2>2, <2>3
<1>3. ASSUME NEW c \in Calls, Restate(c) PROVE balance'[a] \in explained'[a]
  <2>1. Book(c) \in Accounts /\ seen[c] \in explained[Book(c)]
    BY <1>1, <1>3, BookType DEF Restate, Forget, Step, IInv, ReadingsExplained
  <2> QED
    BY <1>1, <1>3, <2>1 DEF Restate, Forget
<1>4. ASSUME NEW c \in Calls, Advance(c), ~UpdateBalance(c), ~Restate(c)
      PROVE  balance' = balance
  BY <1>4 DEF Advance, Opening, ReadSignal, CheckExisting, CheckInstrument, CheckApprovals,
       CreateTrade, MarkSignal, Closing, FindTrade, ReadAccount, CloseTrade, Evaluating,
       FindTouched, NextTouched, Recount
<1>5. ASSUME NEW c \in Calls, Start(c) \/ Resume(c) \/ Interrupt(c) PROVE balance' = balance
  BY <1>5 DEF Start, Resume, Interrupt, Forget
<1> QED
  BY <1>1, <1>2, <1>3, <1>4, <1>5 DEF Next, Move, updateStatus, Grant, vars

LEMMA ReadingStep == IInv /\ [Next]_vars => ReadingsExplained'
<1> SUFFICES ASSUME IInv, [Next]_vars, NEW c \in Calls, pc'[c] \in {"close", "book", "restate"}
             PROVE  seen'[c] \in explained'[Book(c)']
  BY DEF ReadingsExplained
<1>1. /\ TypeOK /\ Book(c) \in Accounts /\ explained[Book(c)] \subseteq explained'[Book(c)]
      /\ pc \in [Calls -> PCs] /\ seen \in [Calls -> Int]
  BY BookType, ExplainedGrows DEF IInv, TypeOK
<1>2. CASE pc'[c] = pc[c] /\ seen'[c] = seen[c] /\ target'[c] = target[c]
  BY <1>1, <1>2, BookStays DEF IInv, ReadingsExplained
<1>3. CASE ReadAccount(c) \/ Recount(c)
  <2>1. /\ seen'[c] = balance[Book(c)] /\ explained' = explained /\ target' = target
        /\ pc[c] \in {"account", "recount"}
    BY <1>1, <1>3 DEF ReadAccount, Recount, Step
  <2> QED
    BY <1>1, <2>1, BookStays DEF IInv, BalanceExplained
<1>4. CASE CloseTrade(c)
  <2>1. pc[c] = "close" /\ UNCHANGED <<seen, target>>
    BY <1>4 DEF CloseTrade, Step, callVars
  <2> QED
    BY <1>1, <2>1, BookStays DEF IInv, ReadingsExplained
<1>5. ASSUME Start(c) \/ Resume(c) \/ Interrupt(c) PROVE FALSE
  BY <1>1, <1>5 DEF Start, Resume, Interrupt, Forget, Interrupted, Throws, Dies, Step, FirstStep
<1>6. ASSUME Advance(c), ~ReadAccount(c), ~Recount(c), ~CloseTrade(c) PROVE FALSE
  <2>1. ~Opening(c)
    BY <1>1 DEF Opening, ReadSignal, CheckExisting, CheckInstrument, CheckApprovals,
                CreateTrade, MarkSignal, Check, Step, Interrupted, Throws, Dies
  <2>2. ~Closing(c)
    BY <1>1, <1>6 DEF Closing, FindTrade, UpdateBalance, Forget, Check, Step
  <2>3. ~Evaluating(c) /\ ~Restate(c)
    BY <1>1 DEF Evaluating, FindTouched, NextTouched, Restate, Forget, Step
  <2> QED
    BY <1>6, <2>1, <2>2, <2>3 DEF Advance
<1>7. CASE UNCHANGED <<pc, callVars>>
  BY <1>2, <1>7 DEF callVars
<1> QED
  BY <1>1, <1>2, <1>3, <1>4, <1>5, <1>6, <1>7, OthersStay DEF Next, Move, updateStatus, Grant, vars

-----------------------------------------------------------------------------
LEMMA EngineInvariant == Spec => []IInv
<1>1. IInv /\ [Next]_vars => IInv'
  BY TypeStep, PlacesStep, AttemptStep, PricedStep, ApprovedStep, AccountedStep, BalanceStep,
     ReadingStep DEF IInv, Approved
<1> QED
  BY <1>1, InitIInv, PTL DEF Spec

\* The state is well typed; above all no job has more attempts than allowed.
THEOREM EngineTyped == Spec => []TypeOK
<1>1. IInv => TypeOK
  BY DEF IInv
<1> QED
  BY <1>1, EngineInvariant, PTL

\* Every paper trade is of a signal that risk and supervisor approved, with any
\* number of jobs and calls at once, interruptions and status changes.
THEOREM OnlyApprovedTrades == Spec => []TradesApproved
<1>1. IInv => TradesApproved
  BY DEF IInv
<1> QED
  BY <1>1, EngineInvariant, PTL

\* The profit or loss of a closed trade is booked, about to be, or lost by an
\* interruption between the two writes, also when several calls close one trade.
THEOREM NothingUnbooked == Spec => []ClosedIsBooked
<1>1. IInv => ClosedIsBooked
  BY DEF IInv, Accounted, ClosedIsBooked
<1> QED
  BY <1>1, EngineInvariant, PTL

\* A balance is the initial one with some of the booked amounts: calls that
\* overwrite each other's balances lose amounts, but invent none and count none twice.
THEOREM NothingInvented == Spec => []BalanceExplained
<1>1. IInv => BalanceExplained
  BY DEF IInv
<1> QED
  BY <1>1, EngineInvariant, PTL

-----------------------------------------------------------------------------
(* What an evaluation does with its list, with any number of calls at once. *)

\* Trades are opened from terms with a direction and positive prices.
OpenersTradable ==
  \A c \in Openers :
    pc[c] \in {"existing", "instrument", "approvals", "create"} => Tradable(target[c])

TradesTradable == \A s \in Signals : trade[s] # "none" => Tradable(s)

\* A trade that is still open, or that another call than e closed.
OpenOrTaken(e, s) == trade[s] # "none" /\ (trade[s] = "CLOSED" => ClosedByOther(e, s))

\* The trades on the list of an evaluation and the one it turns to next.
Listed(e) ==
  /\ \A s \in todo[e] : OpenOrTaken(e, s)
  /\ pc[e] \in {"trade", "account", "close", "book"} => target[e] \notin todo[e]
  /\ pc[e] = "trade" => price[e] > 0 /\ OpenOrTaken(e, target[e])

\* How an evaluation ends: the part of ListsAreClosed about e.
Ended(e) ==
  pc[e] = "done" /\ todo[e] # {} => GaveUp(e) \/ ClosedByOther(e, target[e])

Lists == OpenersTradable /\ TradesTradable /\ \A e \in Evaluators : Listed(e) /\ Ended(e)

LEMMA InitLists == Init => Lists
BY Kinds DEF Init, Lists, OpenersTradable, TradesTradable, Listed, Ended

\* A trade is created by a call at "create" and closed by a call at "close".
LEMMA TradeBy ==
  ASSUME IInv, [Next]_vars, NEW s \in Signals
  PROVE  \/ trade'[s] = trade[s]
         \/ \E c \in Calls : /\ CreateTrade(c) /\ pc[c] = "create" /\ target[c] = s
                             /\ trade[s] = "none" /\ trade'[s] = "OPEN"
         \/ \E c \in Calls : CloseTrade(c) /\ target[c] = s /\ trade'[s] = "CLOSED"
<1>0. trade \in [Signals -> {"none", "OPEN", "CLOSED"}] /\ target \in [Calls -> Signals]
  BY DEF IInv, TypeOK
<1>1. ASSUME NEW c \in Calls, CreateTrade(c)
      PROVE  \/ trade'[s] = trade[s]
             \/ /\ pc[c] = "create" /\ target[c] = s
                /\ trade[s] = "none" /\ trade'[s] = "OPEN"
  BY <1>0, <1>1 DEF CreateTrade, Step, tradeVars
<1>2. ASSUME NEW c \in Calls, CloseTrade(c)
      PROVE  trade'[s] = trade[s] \/ (target[c] = s /\ trade'[s] = "CLOSED")
  BY <1>0, <1>2 DEF CloseTrade
<1>3. ASSUME NEW c \in Calls, Advance(c), ~CreateTrade(c), ~CloseTrade(c) PROVE trade' = trade
  BY <1>3 DEF Advance, Opening, ReadSignal, CheckExisting, CheckInstrument, CheckApprovals,
       MarkSignal, Closing, FindTrade, ReadAccount, UpdateBalance, Forget, Evaluating, FindTouched,
       NextTouched, Recount, Restate, tradeVars
<1>4. ASSUME NEW c \in Calls, Start(c) \/ Resume(c) \/ Interrupt(c) PROVE trade' = trade
  BY <1>4 DEF Start, Resume, Interrupt, Forget, tradeVars
<1> QED
  BY <1>1, <1>2, <1>3, <1>4 DEF Next, Move, updateStatus, Grant, vars, tradeVars

\* What is booked or was left unbooked stays so.
LEMMA HistoryGrows ==
  ASSUME [Next]_vars
  PROVE  booked \subseteq booked' /\ unbooked \subseteq unbooked'
<1>1. ASSUME NEW c \in Calls, UpdateBalance(c) \/ Interrupt(c)
      PROVE  booked \subseteq booked' /\ unbooked \subseteq unbooked'
  BY <1>1 DEF UpdateBalance, Forget, Interrupt
<1>2. ASSUME NEW c \in Calls, Advance(c), ~UpdateBalance(c) PROVE UNCHANGED <<booked, unbooked>>
  BY <1>2 DEF Advance, Opening, ReadSignal, CheckExisting, CheckInstrument, CheckApprovals,
       CreateTrade, MarkSignal, Closing, FindTrade, ReadAccount, CloseTrade, Evaluating,
       FindTouched, NextTouched, Recount, Restate, Forget
<1>3. ASSUME NEW c \in Calls, Start(c) \/ Resume(c) PROVE UNCHANGED <<booked, unbooked>>
  BY <1>3 DEF Start, Resume
<1> QED
  BY <1>1, <1>2, <1>3 DEF Next, Move, updateStatus, Grant, vars

\* A call that is about to book still is, has booked, or was interrupted.
LEMMA BookingGoesOn ==
  ASSUME IInv, [Next]_vars, NEW c \in Calls, pc[c] = "book"
  PROVE  \/ pc'[c] = "book" /\ target'[c] = target[c]
         \/ <<c, target[c], PnL(target[c], price[c])>> \in booked'
         \/ target[c] \in unbooked'
<1>0. TypeOK
  BY DEF IInv
<1>1. ASSUME NEW d \in Calls, d # c, Start(d) \/ Resume(d) \/ Advance(d) \/ Interrupt(d)
      PROVE  pc'[c] = pc[c] /\ target'[c] = target[c]
  BY <1>0, <1>1, OthersStay
<1>2. CASE Start(c) \/ Resume(c)
  BY <1>2 DEF Start, Resume, Step
<1>3. CASE Interrupt(c)
  BY <1>3 DEF Interrupt, Forget
<1>4. CASE Advance(c)
  <2>1. UpdateBalance(c)
    BY <1>4 DEF Advance, Opening, ReadSignal, CheckExisting, CheckInstrument, CheckApprovals,
         CreateTrade, MarkSignal, Closing, FindTrade, ReadAccount, CloseTrade, Evaluating,
         FindTouched, NextTouched, Recount, Restate, Forget, Check, Step
  <2> QED
    BY <2>1 DEF UpdateBalance, Forget
<1>5. CASE UNCHANGED <<pc, target>>
  BY <1>5
<1> QED
  BY <1>1, <1>2, <1>3, <1>4, <1>5 DEF Next, Move, updateStatus, Grant, vars, callVars

LEMMA TakenStays ==
  ASSUME IInv, [Next]_vars, NEW e \in Evaluators, NEW s \in Signals, ClosedByOther(e, s)
  PROVE  ClosedByOther(e, s)'
<1>1. booked \subseteq booked' /\ unbooked \subseteq unbooked'
  BY HistoryGrows
<1>2. ASSUME NEW c \in Calls \ {e}, pc[c] = "book", target[c] = s PROVE ClosedByOther(e, s)'
  BY <1>2, BookingGoesOn DEF ClosedByOther
<1> QED
  BY <1>1, <1>2 DEF ClosedByOther

\* Unless e closes it itself, an open trade stays open or is taken by another call.
LEMMA OpenOrTakenStays ==
  ASSUME IInv, [Next]_vars, NEW e \in Evaluators, NEW s \in Signals, OpenOrTaken(e, s),
         pc[e] = "close" => target[e] # s
  PROVE  OpenOrTaken(e, s)'
<1>0. pc \in [Calls -> PCs] /\ target \in [Calls -> Signals]
  BY DEF IInv, TypeOK
<1>1. CASE trade'[s] = trade[s]
  BY <1>1, TakenStays DEF OpenOrTaken
<1>2. ASSUME NEW c \in Calls, CloseTrade(c), target[c] = s, trade'[s] = "CLOSED"
      PROVE  OpenOrTaken(e, s)'
  <2>1. pc[c] = "close" /\ pc'[c] = "book" /\ target'[c] = s
    BY <1>0, <1>2 DEF CloseTrade, Step, callVars
  <2>2. c # e
    BY <1>2, <2>1
  <2> QED
    BY <1>2, <2>1, <2>2 DEF OpenOrTaken, ClosedByOther
<1>3. trade[s] # "none"
  BY DEF OpenOrTaken
<1> QED
  BY <1>1, <1>2, <1>3, TradeBy

\* Openers keep their signal.
LEMMA OpenerTarget ==
  ASSUME IInv, [Next]_vars, NEW c \in Openers
  PROVE  target'[c] = target[c]
<1>0. c \in Calls /\ TypeOK /\ c \notin Closers /\ c \notin Evaluators
  BY Kinds DEF IInv
<1>1. ASSUME NEW d \in Calls, d # c, Start(d) \/ Resume(d) \/ Advance(d) \/ Interrupt(d)
      PROVE  target'[c] = target[c]
  BY <1>0, <1>1, OthersStay
<1>2. CASE Start(c) \/ Resume(c) \/ Interrupt(c)
  BY <1>0, <1>2 DEF Start, Resume, Interrupt, Forget, callVars
<1>3. CASE Advance(c)
  <2>1. ~NextTouched(c)
    BY <1>0 DEF NextTouched, Step, IInv, Places
  <2> QED
    BY <1>3, <2>1 DEF Advance, Opening, ReadSignal, CheckExisting, CheckInstrument,
         CheckApprovals, CreateTrade, MarkSignal, Closing, FindTrade, ReadAccount, CloseTrade,
         UpdateBalance, Forget, Evaluating, FindTouched, Recount, Restate, callVars
<1>4. CASE UNCHANGED target
  BY <1>4
<1> QED
  BY <1>0, <1>1, <1>2, <1>3, <1>4 DEF Next, Move, updateStatus, Grant, vars, callVars

LEMMA TradableStep ==
  ASSUME IInv, OpenersTradable, TradesTradable, [Next]_vars
  PROVE  OpenersTradable' /\ TradesTradable'
<1>0. /\ TypeOK /\ pc \in [Calls -> PCs]
      /\ trade \in [Signals -> {"none", "OPEN", "CLOSED"}]
  BY DEF IInv, TypeOK
<1>1. ASSUME NEW c \in Openers, pc'[c] \in {"existing", "instrument", "approvals", "create"}
      PROVE  Tradable(target'[c])
  <2>1. c \in Calls /\ target'[c] = target[c]
    BY Kinds, OpenerTarget
  <2>2. CASE pc'[c] = pc[c]
    BY <1>1, <2>1, <2>2 DEF OpenersTradable
  <2>3. ASSUME NEW d \in Calls, Start(d) \/ Resume(d) \/ Advance(d) \/ Interrupt(d),
               pc'[c] # pc[c]
        PROVE  Tradable(target[c])
    <3>1. d = c
      BY <1>0, <2>1, <2>3, OthersStay
    <3>2. ~Start(c) /\ ~Resume(c) /\ ~Interrupt(c)
      BY <1>0, <1>1, <2>1 DEF Start, Resume, Interrupt, Forget, Interrupted, Throws, Dies, Step, FirstStep
    <3>3. CASE ReadSignal(c)
      BY <1>0, <1>1, <2>1, <3>3 DEF ReadSignal, Check, Step
    <3>4. CASE CheckExisting(c) \/ CheckInstrument(c) \/ CheckApprovals(c)
      BY <3>4 DEF CheckExisting, CheckInstrument, CheckApprovals, Check, Step, OpenersTradable
    <3>5. ~CreateTrade(c) /\ ~MarkSignal(c)
      BY <1>0, <1>1, <2>1 DEF CreateTrade, MarkSignal, Step, Interrupted, Throws, Dies
    <3>6. ~Closing(c)
      BY <1>0, <1>1, <2>1 DEF Closing, FindTrade, ReadAccount, CloseTrade, UpdateBalance, Forget, Check,
                              Step
    <3>7. ~Evaluating(c) /\ ~Recount(c) /\ ~Restate(c)
      BY <1>0, <1>1, <2>1 DEF Evaluating, FindTouched, NextTouched, Recount, Restate, Forget, Step
    <3> QED
      BY <2>3, <3>1, <3>2, <3>3, <3>4, <3>5, <3>6, <3>7 DEF Advance, Opening
  <2>4. CASE UNCHANGED pc
    BY <2>2, <2>4
  <2> QED
    BY <2>1, <2>2, <2>3, <2>4 DEF Next, Move, updateStatus, Grant, vars
<1>2. ASSUME NEW s \in Signals, trade'[s] # "none" PROVE Tradable(s)
  <2>1. CASE trade[s] # "none"
    BY <2>1 DEF TradesTradable
  <2>2. ASSUME NEW c \in Calls, pc[c] = "create", target[c] = s PROVE Tradable(s)
    BY <2>2 DEF OpenersTradable, IInv, Places, Calls
  <2>3. ASSUME NEW c \in Calls, CloseTrade(c), target[c] = s PROVE trade[s] # "none"
    BY <2>3 DEF CloseTrade, Step, IInv, FoundToClose
  <2> QED
    BY <1>2, <2>1, <2>2, <2>3, TradeBy
<1> QED
  BY <1>1, <1>2 DEF OpenersTradable, TradesTradable, Tradable

\* A list changes only by the steps of its evaluation.
LEMMA ListSteps ==
  ASSUME IInv, [Next]_vars, NEW e \in Evaluators
  PROVE  \/ UNCHANGED <<pc[e], failures[e], stalls[e], target[e], price[e], todo[e]>>
         \/ Start(e) \/ Resume(e) \/ Interrupt(e)
         \/ Closing(e) \/ Evaluating(e) \/ Recount(e) \/ Restate(e)
<1>0. TypeOK /\ e \in Calls
  BY Kinds DEF IInv
<1>1. ASSUME NEW d \in Calls, d # e, Start(d) \/ Resume(d) \/ Advance(d) \/ Interrupt(d)
      PROVE  UNCHANGED <<pc[e], failures[e], stalls[e], target[e], price[e], todo[e]>>
  BY <1>0, <1>1, OthersStay
<1>2. ~Opening(e)
  BY <1>0, Kinds DEF Opening, ReadSignal, CheckExisting, CheckInstrument, CheckApprovals,
                     CreateTrade, MarkSignal, Check, Step, IInv, Places
<1>3. CASE UNCHANGED <<pc, callVars>>
  BY <1>3 DEF callVars
<1> QED
  BY <1>0, <1>1, <1>2, <1>3 DEF Next, Move, Advance, updateStatus, Grant, vars

\* Trades that were open or taken still are, but for the one e is closing.
LEMMA ListStays ==
  ASSUME IInv, Lists, [Next]_vars, NEW e \in Evaluators, NEW s \in todo[e],
         pc[e] = "close" => target[e] # s
  PROVE  OpenOrTaken(e, s)'
<1>1. s \in Signals /\ OpenOrTaken(e, s)
  BY Kinds DEF Lists, Listed, IInv, TypeOK
<1> QED
  BY <1>1, OpenOrTakenStays

LEMMA ListedStep ==
  ASSUME IInv, Lists, [Next]_vars, NEW e \in Evaluators
  PROVE  Listed(e)' /\ Ended(e)'
<1> USE DEF Step, Check
<1>0. /\ TypeOK /\ e \in Calls /\ target[e] \in Signals /\ Listed(e) /\ Ended(e)
      /\ pc \in [Calls -> PCs] /\ target \in [Calls -> Signals] /\ price \in [Calls -> Int]
      /\ todo \in [Calls -> SUBSET Signals] /\ failures \in [Calls -> 0..MaxAttempts]
  BY Kinds DEF IInv, TypeOK, Lists
<1>1. ASSUME NEW s \in todo[e] PROVE OpenOrTaken(e, s)'
  <2>1. pc[e] = "close" => target[e] # s
    BY <1>0 DEF Listed
  <2> QED
    BY <2>1, ListStays
\* Steps that leave the list alone and do not turn to a trade or end.
<1>2. ASSUME todo'[e] = todo[e], pc'[e] \notin {"trade", "done"},
             pc'[e] \in {"account", "close", "book"} =>
               pc[e] \in {"trade", "account", "close"} /\ target'[e] = target[e]
      PROVE  Listed(e)' /\ Ended(e)'
  BY <1>0, <1>1, <1>2 DEF Listed, Ended
<1>3. CASE UNCHANGED <<pc[e], failures[e], stalls[e], target[e], price[e], todo[e]>>
  <2>1. pc[e] = "trade" => OpenOrTaken(e, target[e])'
    <3> SUFFICES ASSUME pc[e] = "trade" PROVE OpenOrTaken(e, target[e])'
      OBVIOUS
    <3>1. PICK s \in Signals : s = target[e]
      BY <1>0
    <3>2. OpenOrTaken(e, s)'
      BY <1>0, <3>1, OpenOrTakenStays DEF Listed
    <3> QED
      BY <1>3, <3>1, <3>2
  <2>2. Listed(e)'
    BY <1>0, <1>1, <1>3, <2>1 DEF Listed
  <2>3. ClosedByOther(e, target[e]) => ClosedByOther(e, target[e])'
    <3> SUFFICES ASSUME ClosedByOther(e, target[e]) PROVE ClosedByOther(e, target[e])'
      OBVIOUS
    <3>1. PICK s \in Signals : s = target[e]
      BY <1>0
    <3>2. ClosedByOther(e, s)'
      BY <3>1, TakenStays
    <3> QED
      BY <1>3, <3>1, <3>2
  <2>4. Ended(e)'
    BY <1>0, <1>3, <2>3 DEF Ended, GaveUp, Attempts
  <2> QED
    BY <2>2, <2>4
<1>4. CASE Start(e) \/ Resume(e)
  <2>1. pc'[e] = "candle" /\ todo' = todo
    BY <1>0, <1>4, Kinds DEF Start, Resume, FirstStep, callVars
  <2> QED
    BY <1>2, <2>1
<1>5. CASE Interrupt(e)
  <2>1. todo' = todo /\ pc'[e] \in {"retry", "done"} /\ (Throws(e) \/ Dies(e))
    BY <1>0, <1>5 DEF Interrupt, Throws, Dies
  <2>2. /\ failures[e] < Attempts(e) /\ Attempts(e) \in Nat /\ failures[e] \in Nat
        /\ MaxStalls \in Nat /\ stalls \in [Calls -> 0..MaxStalls + 1]
    BY <1>0, <1>5, AttemptType, PaperTradingAssumption
    DEF Interrupt, Running, IInv, AttemptLeft, TypeOK
  <2>3. ASSUME Throws(e), pc'[e] = "done" PROVE GaveUp(e)'
    <3>1. failures'[e] = Attempts(e)
      BY <1>0, <2>2, <2>3 DEF Throws
    <3> QED
      BY <3>1 DEF GaveUp, Attempts
  <2>4. ASSUME Dies(e), pc'[e] = "done" PROVE GaveUp(e)'
    <3>1. stalls'[e] > MaxStalls
      BY <1>0, <2>2, <2>4 DEF Dies
    <3> QED
      BY <3>1 DEF GaveUp
  <2>5. Listed(e)'
    BY <1>1, <2>1 DEF Listed
  <2> QED
    BY <2>1, <2>3, <2>4, <2>5 DEF Ended
<1>6. CASE FindTouched(e)
  <2>1. /\ pc'[e] = "next" /\ todo'[e] = Touched(CandleOf[e]) /\ trade' = trade
    BY <1>0, <1>6 DEF FindTouched, tradeVars
  <2>2. \A s \in todo'[e] : trade'[s] = "OPEN"
    BY <2>1 DEF Touched, Open
  <2> QED
    BY <2>1, <2>2 DEF Listed, Ended, OpenOrTaken
<1>7. CASE NextTouched(e)
  <2>1. CASE todo[e] = {} /\ pc' = [pc EXCEPT ![e] = "done"] /\ UNCHANGED <<target, price, todo>>
    BY <1>0, <2>1 DEF Listed, Ended
  <2>2. ASSUME NEW s \in todo[e], pc[e] = "next", pc' = [pc EXCEPT ![e] = "trade"],
               target' = [target EXCEPT ![e] = s],
               price' = [price EXCEPT ![e] = CHOOSE p \in ClosePrices(s, CandleOf[e]) : TRUE],
               todo' = [todo EXCEPT ![e] = @ \ {s}]
        PROVE  Listed(e)' /\ Ended(e)'
    <3>1. /\ pc'[e] = "trade" /\ target'[e] = s /\ todo'[e] = todo[e] \ {s} /\ s \in Signals
          /\ price'[e] = CHOOSE p \in ClosePrices(s, CandleOf[e]) : TRUE
      BY <1>0, <2>2
    <3>2. Tradable(s)
      BY <1>0, <3>1 DEF Listed, OpenOrTaken, Lists, TradesTradable
    <3>3. ClosePrices(s, CandleOf[e]) # {}
      BY DEF IInv, Priced
    <3>4. \A p \in ClosePrices(s, CandleOf[e]) : p > 0
      BY <3>1, <3>2 DEF ClosePrices, Tradable
    <3>5. price'[e] > 0
      BY <3>1, <3>3, <3>4
    <3>6. \A x \in todo[e] : OpenOrTaken(e, x)'
      BY <1>1
    <3>7. OpenOrTaken(e, target[e])'
      BY <3>1, <3>6 DEF OpenOrTaken, ClosedByOther
    <3> QED
      BY <3>1, <3>5, <3>6, <3>7 DEF Listed, Ended
  <2> QED
    BY <1>7, <2>1, <2>2 DEF NextTouched
<1>8. CASE FindTrade(e)
  <2>1. /\ pc[e] = "trade" /\ UNCHANGED <<callVars, trade, booked, unbooked>>
        /\ pc' = [pc EXCEPT ![e] = IF price[e] > 0 /\ trade[target[e]] = "OPEN"
                                   THEN "account" ELSE "done"]
    BY <1>8 DEF FindTrade, tradeVars
  <2>2. price[e] > 0 /\ OpenOrTaken(e, target[e])
    BY <1>0, <2>1 DEF Listed
  <2>3. CASE trade[target[e]] = "OPEN"
    <3>1. pc'[e] = "account" /\ todo'[e] = todo[e] /\ target'[e] = target[e]
      BY <1>0, <2>1, <2>2, <2>3 DEF callVars
    <3> QED
      BY <1>2, <2>1, <3>1
  <2>4. CASE trade[target[e]] # "OPEN"
    <3>1. pc'[e] = "done" /\ UNCHANGED <<todo, target>>
      BY <1>0, <2>1, <2>4 DEF callVars
    <3>2. trade[target[e]] = "CLOSED"
      BY <1>0, <2>2, <2>4 DEF OpenOrTaken, TypeOK
    <3>3. ClosedByOther(e, target[e])
      BY <2>2, <3>2 DEF OpenOrTaken
    <3>4. ClosedByOther(e, target[e])'
      <4>1. PICK s \in Signals : s = target[e]
        BY <1>0
      <4>2. ClosedByOther(e, s)'
        BY <3>3, <4>1, TakenStays
      <4> QED
        BY <3>1, <4>1, <4>2
    <3>5. Listed(e)'
      BY <1>1, <3>1 DEF Listed
    <3> QED
      BY <3>4, <3>5 DEF Ended
  <2> QED
    BY <2>3, <2>4
<1>9. CASE ReadAccount(e) \/ CloseTrade(e) \/ UpdateBalance(e) \/ Recount(e) \/ Restate(e)
  <2>1. /\ pc'[e] \in {"close", "book", "recount", "restate", "next"}
        /\ UNCHANGED <<todo, target>>
        /\ pc'[e] \in {"close", "book"} => pc[e] \in {"account", "close"}
    BY <1>0, <1>9, Kinds DEF ReadAccount, CloseTrade, UpdateBalance, Forget, Recount, Restate, callVars
  <2> QED
    BY <1>2, <2>1
<1> QED
  BY <1>3, <1>4, <1>5, <1>6, <1>7, <1>8, <1>9, ListSteps DEF Closing, Evaluating

LEMMA ListInvariant == Spec => []Lists
<1>1. IInv /\ Lists /\ [Next]_vars => Lists'
  <2> SUFFICES ASSUME IInv, Lists, [Next]_vars PROVE Lists'
    OBVIOUS
  <2>1. OpenersTradable' /\ TradesTradable'
    BY TradableStep DEF Lists
  <2>2. \A e \in Evaluators : Listed(e)' /\ Ended(e)'
    BY ListedStep
  <2> QED
    BY <2>1, <2>2 DEF Lists
<1> QED
  BY <1>1, InitLists, EngineInvariant, PTL DEF Spec

\* An evaluation that leaves trades on its list used up its attempts or came to a
\* trade that another call closed after it had been listed.
THEOREM ListsEnd == Spec => []ListsAreClosed
<1>1. Lists => ListsAreClosed
  BY DEF Lists, Ended, ListsAreClosed
<1> QED
  BY <1>1, ListInvariant, PTL

-----------------------------------------------------------------------------
(* Where calls do not cross, what a call has checked or read still holds   *)
(* when it acts on it.                                                     *)

CrossingsRecorded ==
  /\ InstrumentsCrossed \subseteq crossed.instruments
  /\ TradesCrossed \subseteq crossed.trades
  /\ AccountsCrossed \subseteq crossed.accounts

\* The instrument was free when the call looked, and is.
StillFree(c) ==
  pc[c] \in {"approvals", "create"} =>
    \/ Instrument(target[c]) \in crossed.instruments
    \/ \A s \in Open : Instrument(s) # Instrument(target[c])

\* The trade was open when the call looked, and is.
StillOpen(c) ==
  pc[c] \in {"account", "close"} =>
    target[c] \in crossed.trades \/ trade[target[c]] = "OPEN"

\* The trade that the call closed is booked by nobody else.
SoleBooking(c) ==
  pc[c] = "book" =>
    /\ trade[target[c]] = "CLOSED"
    /\ \/ target[c] \in crossed.trades
       \/ /\ pnl[target[c]] = PnL(target[c], price[c])
          /\ \A b \in booked : b[2] # target[c]
          /\ \A d \in Calls \ {c} : pc[d] = "book" => target[d] # target[c]

\* The balance is what the call read.
StillRead(c) ==
  pc[c] \in {"close", "book", "restate"} =>
    Book(c) \in crossed.accounts \/ seen[c] = balance[Book(c)]

\* What is booked is of closed trades.
BooksClosed == \A b \in booked : trade[b[2]] = "CLOSED"

UInv ==
  /\ CrossingsRecorded /\ BooksClosed /\ RulesUnlessCrossed
  /\ \A c \in Calls : StillFree(c) /\ StillOpen(c) /\ SoleBooking(c) /\ StillRead(c)

LEMMA InitUInv == Init => UInv
<1> SUFFICES ASSUME Init PROVE UInv
  OBVIOUS
<1>1. CrossingsRecorded
  BY Kinds DEF Init, CrossingsRecorded, InstrumentsCrossed, TradesCrossed, AccountsCrossed,
               Entering, Shutting, Holding
<1>2. BooksClosed /\ RulesUnlessCrossed
  BY DEF Init, BooksClosed, RulesUnlessCrossed, OneOpenUnlessCrossed, Open,
         BookedOnceUnlessCrossed, BalanceUnlessCrossed
<1>3. \A c \in Calls : StillFree(c) /\ StillOpen(c) /\ SoleBooking(c) /\ StillRead(c)
  BY DEF Init, StillFree, StillOpen, SoleBooking, StillRead
<1> QED
  BY <1>1, <1>2, <1>3 DEF UInv

\* What calls crossed on stays crossed, and what they cross on is.
LEMMA CrossStep ==
  ASSUME CrossingsRecorded, [Next]_vars
  PROVE  /\ CrossingsRecorded'
         /\ crossed.instruments \subseteq crossed'.instruments
         /\ crossed.trades \subseteq crossed'.trades
         /\ crossed.accounts \subseteq crossed'.accounts
<1>1. CASE Next
  BY <1>1 DEF Next, Cross, CrossingsRecorded
<1>2. CASE UNCHANGED vars
  <2>1. UNCHANGED <<InstrumentsCrossed, TradesCrossed, AccountsCrossed, crossed>>
    BY <1>2 DEF vars, callVars, tradeVars, InstrumentsCrossed, TradesCrossed, AccountsCrossed,
                Entering, Shutting, Holding, Instrument, Book
  <2> QED
    BY <2>1 DEF CrossingsRecorded
<1> QED
  BY <1>1, <1>2

\* Two calls between a check and the act that relies on it cross.
LEMMA Rivals ==
  ASSUME IInv, CrossingsRecorded, NEW c \in Calls, NEW d \in Calls, c # d
  PROVE  /\ pc[c] \in {"approvals", "create"} /\ pc[d] \in {"approvals", "create"} =>
              \/ Instrument(target[c]) # Instrument(target[d])
              \/ Instrument(target[c]) \in crossed.instruments
         /\ pc[c] \in {"account", "close"} /\ pc[d] \in {"account", "close"} =>
              target[c] # target[d] \/ target[c] \in crossed.trades
         /\ pc[c] \in {"close", "book", "restate"} /\ pc[d] \in {"close", "book", "restate"} =>
              Book(c) # Book(d) \/ Book(c) \in crossed.accounts
<1>0. /\ TypeOK /\ target[c] \in Signals /\ target[d] \in Signals
      /\ Book(c) \in Accounts /\ Book(d) \in Accounts
      /\ Instrument(target[c]) \in Instruments
  BY BookType DEF IInv, TypeOK, Instrument, Instruments
<1>1. ASSUME pc[c] \in {"approvals", "create"}, pc[d] \in {"approvals", "create"},
             Instrument(target[c]) = Instrument(target[d])
      PROVE  Instrument(target[c]) \in crossed.instruments
  <2>1. c \in Entering /\ d \in Entering
    BY <1>1 DEF IInv, Places, Calls, Entering
  <2> QED
    BY <1>0, <1>1, <2>1 DEF CrossingsRecorded, InstrumentsCrossed
<1>2. ASSUME pc[c] \in {"account", "close"}, pc[d] \in {"account", "close"},
             target[c] = target[d]
      PROVE  target[c] \in crossed.trades
  BY <1>0, <1>2 DEF CrossingsRecorded, TradesCrossed, Shutting
<1>3. ASSUME pc[c] \in {"close", "book", "restate"}, pc[d] \in {"close", "book", "restate"},
             Book(c) = Book(d)
      PROVE  Book(c) \in crossed.accounts
  BY <1>0, <1>3 DEF CrossingsRecorded, AccountsCrossed, Holding
<1> QED
  BY <1>1, <1>2, <1>3

\* How a call comes to rely on what it has checked or read: by the check or the
\* reading itself, or it did so before.
LEMMA Relying ==
  ASSUME IInv, [Next]_vars, NEW c \in Calls
  PROVE  /\ pc'[c] \in {"approvals", "create"} =>
              \/ CheckInstrument(c)
              \/ pc[c] \in {"approvals", "create"} /\ target'[c] = target[c]
         /\ pc'[c] \in {"account", "close"} =>
              FindTrade(c) \/ (pc[c] \in {"account", "close"} /\ target'[c] = target[c])
         /\ pc'[c] = "book" =>
              \/ CloseTrade(c)
              \/ pc[c] = "book" /\ target'[c] = target[c] /\ price'[c] = price[c]
         /\ pc'[c] \in {"close", "book", "restate"} =>
              \/ ReadAccount(c) \/ Recount(c)
              \/ /\ pc[c] \in {"close", "book", "restate"}
                 /\ target'[c] = target[c] /\ seen'[c] = seen[c]
<1> USE DEF Step, Check
<1>0. TypeOK /\ pc \in [Calls -> PCs]
  BY DEF IInv, TypeOK
<1>1. CASE UNCHANGED <<pc[c], target[c], price[c], seen[c]>>
  BY <1>1
<1>2. ASSUME NEW d \in Calls, d # c, Start(d) \/ Resume(d) \/ Advance(d) \/ Interrupt(d)
      PROVE  UNCHANGED <<pc[c], target[c], price[c], seen[c]>>
  BY <1>0, <1>2, OthersStay
<1>3. CASE Start(c) \/ Resume(c)
  <2>1. pc'[c] \in {"signal", "trade", "candle"}
    BY <1>0, <1>3 DEF Start, Resume, FirstStep
  <2> QED
    BY <2>1
<1>4. CASE Interrupt(c)
  <2>1. pc'[c] \in {"retry", "done"}
    BY <1>0, <1>4 DEF Interrupt, Throws, Dies
  <2> QED
    BY <2>1
<1>5. CASE Opening(c)
  <2>1. CASE CheckInstrument(c)
    <3>1. pc'[c] \in {"approvals", "done"}
      BY <1>0, <2>1 DEF CheckInstrument
    <3> QED
      BY <2>1, <3>1
  <2>2. CASE CheckApprovals(c)
    <3>1. pc'[c] \in {"create", "done"} /\ pc[c] = "approvals" /\ target' = target
      BY <1>0, <2>2 DEF CheckApprovals, callVars
    <3> QED
      BY <3>1
  <2>3. CASE ReadSignal(c) \/ CheckExisting(c) \/ CreateTrade(c) \/ MarkSignal(c)
    <3>1. pc'[c] \in {"existing", "instrument", "recount", "retry", "done"}
      BY <1>0, <2>3 DEF ReadSignal, CheckExisting, CreateTrade, MarkSignal, Throws
    <3> QED
      BY <3>1
  <2> QED
    BY <1>5, <2>1, <2>2, <2>3 DEF Opening
<1>6. CASE Closing(c)
  <2>1. CASE FindTrade(c)
    <3>1. pc'[c] \in {"account", "done"}
      BY <1>0, <2>1 DEF FindTrade
    <3> QED
      BY <2>1, <3>1
  <2>2. CASE ReadAccount(c)
    <3>1. pc'[c] = "close" /\ pc[c] = "account" /\ target' = target
      BY <1>0, <2>2 DEF ReadAccount
    <3> QED
      BY <2>2, <3>1
  <2>3. CASE CloseTrade(c)
    <3>1. pc'[c] = "book" /\ pc[c] = "close" /\ target' = target /\ seen' = seen
      BY <1>0, <2>3 DEF CloseTrade, callVars
    <3> QED
      BY <2>3, <3>1
  <2>4. CASE UpdateBalance(c)
    <3>1. pc'[c] = "recount"
      BY <1>0, <2>4 DEF UpdateBalance
    <3> QED
      BY <3>1
  <2> QED
    BY <1>6, <2>1, <2>2, <2>3, <2>4 DEF Closing
<1>7. CASE Evaluating(c)
  <2>1. pc'[c] \in {"next", "trade", "done"}
    BY <1>0, <1>7 DEF Evaluating, FindTouched, NextTouched
  <2> QED
    BY <2>1
<1>8. CASE Recount(c)
  <2>1. pc'[c] = "restate"
    BY <1>0, <1>8 DEF Recount
  <2> QED
    BY <1>8, <2>1
<1>9. CASE Restate(c)
  <2>1. pc'[c] \in {"mark", "next", "done"}
    BY <1>0, <1>9 DEF Restate
  <2> QED
    BY <2>1
<1>10. CASE UNCHANGED <<pc, callVars>>
  BY <1>1, <1>10 DEF callVars
<1> QED
  BY <1>1, <1>2, <1>3, <1>4, <1>5, <1>6, <1>7, <1>8, <1>9, <1>10
  DEF Next, Move, Advance, updateStatus, Grant, vars

\* Four steps write trades, balances or their books.
LEMMA Writers ==
  ASSUME [Next]_vars,
         \A c \in Calls : ~CreateTrade(c) /\ ~CloseTrade(c) /\ ~UpdateBalance(c) /\ ~Restate(c)
  PROVE  UNCHANGED <<trade, account, pnl, balance, booked, due>>
<1>1. ASSUME NEW c \in Calls, Advance(c)
      PROVE  UNCHANGED <<trade, account, pnl, balance, booked, due>>
  BY <1>1 DEF Advance, Opening, ReadSignal, CheckExisting, CheckInstrument, CheckApprovals,
       MarkSignal, Closing, FindTrade, ReadAccount, Evaluating, FindTouched, NextTouched,
       Recount, tradeVars
<1>2. ASSUME NEW c \in Calls, Start(c) \/ Resume(c) \/ Interrupt(c)
      PROVE  UNCHANGED <<trade, account, pnl, balance, booked, due>>
  BY <1>2 DEF Start, Resume, Interrupt, tradeVars
<1> QED
  BY <1>1, <1>2 DEF Next, Move, updateStatus, Grant, vars, tradeVars

\* What the four of them write.
LEMMA CreateWrites ==
  ASSUME IInv, NEW c \in Calls, CreateTrade(c)
  PROVE  /\ pc[c] = "create" /\ UNCHANGED <<pnl, balance, booked, due>>
         /\ \/ UNCHANGED <<trade, account>> /\ pc'[c] \in {"retry", "done"}
            \/ /\ trade[target[c]] = "none" /\ pc'[c] = "recount" /\ c \in Openers
               /\ trade' = [trade EXCEPT ![target[c]] = "OPEN"]
               /\ account' = [account EXCEPT ![target[c]] = AccountOf[c]]
<1>1. pc[c] = "create" /\ pc \in [Calls -> PCs]
  BY DEF CreateTrade, Step, IInv, TypeOK
<1>2. c \in Openers
  BY <1>1 DEF IInv, Places, Calls
<1> QED
  BY <1>1, <1>2 DEF CreateTrade, Step, Throws, tradeVars

LEMMA CloseWrites ==
  ASSUME IInv, NEW c \in Calls, CloseTrade(c)
  PROVE  /\ pc[c] = "close" /\ pc'[c] = "book" /\ c \notin Openers
         /\ trade' = [trade EXCEPT ![target[c]] = "CLOSED"]
         /\ pnl' = [pnl EXCEPT ![target[c]] = PnL(target[c], price[c])]
         /\ UNCHANGED <<target, price, seen, account, balance, booked, due>>
BY DEF CloseTrade, Step, IInv, TypeOK, Places, callVars

LEMMA UpdateWrites ==
  ASSUME IInv, NEW c \in Calls, UpdateBalance(c)
  PROVE  /\ pc[c] = "book" /\ pc'[c] = "recount" /\ c \notin Openers
         /\ balance' = [balance EXCEPT ![Book(c)] = seen[c] + PnL(target[c], price[c])]
         /\ booked' = booked \cup {<<c, target[c], PnL(target[c], price[c])>>}
         /\ due' = [due EXCEPT ![Book(c)] = @ + PnL(target[c], price[c])]
         /\ UNCHANGED <<target, trade, account, pnl>>
BY DEF UpdateBalance, Explain, Step, IInv, TypeOK, Places, tradeVars

LEMMA RestateWrites ==
  ASSUME IInv, NEW c \in Calls, Restate(c)
  PROVE  /\ pc[c] = "restate" /\ pc'[c] \in {"mark", "next", "done"}
         /\ balance' = [balance EXCEPT ![Book(c)] = seen[c]]
         /\ UNCHANGED <<target, trade, account, pnl, booked, due>>
BY DEF Restate, Step, IInv, TypeOK, tradeVars

LEMMA FreeStep ==
  ASSUME IInv, UInv, [Next]_vars, NEW c \in Calls
  PROVE  StillFree(c)'
<1> SUFFICES ASSUME pc'[c] \in {"approvals", "create"},
                    Instrument(target'[c]) \notin crossed'.instruments,
                    NEW s \in Signals, trade'[s] = "OPEN"
             PROVE  Instrument(s) # Instrument(target'[c])
  BY DEF StillFree, Open, Instrument
<1>0. /\ crossed.instruments \subseteq crossed'.instruments
      /\ target \in [Calls -> Signals] /\ trade \in [Signals -> {"none", "OPEN", "CLOSED"}]
      /\ pc \in [Calls -> PCs] /\ CrossingsRecorded
  BY CrossStep DEF UInv, IInv, TypeOK
<1>1. CASE CheckInstrument(c)
  <2>1. /\ UNCHANGED <<trade, target>>
        /\ \A t \in Open : Instrument(t) # Instrument(target[c])
    BY <1>0, <1>1 DEF CheckInstrument, Check, Step, callVars, tradeVars
  <2> QED
    BY <2>1 DEF Open
<1>2. CASE pc[c] \in {"approvals", "create"} /\ target'[c] = target[c]
  <2>1. \A t \in Signals : trade[t] = "OPEN" => Instrument(t) # Instrument(target[c])
    BY <1>0, <1>2 DEF UInv, StillFree, Open
  <2>2. ASSUME NEW d \in Calls, pc[d] = "create", target[d] = s, CreateTrade(d),
               trade[s] = "none"
        PROVE  Instrument(s) # Instrument(target[c])
    <3>1. d # c
      BY <1>0, <2>2, CreateWrites
    <3> QED
      BY <1>0, <1>2, <2>2, <3>1, Rivals
  <2> QED
    BY <1>2, <2>1, <2>2, TradeBy
<1> QED
  BY <1>1, <1>2, Relying

LEMMA OpenStep ==
  ASSUME IInv, UInv, [Next]_vars, NEW c \in Calls
  PROVE  StillOpen(c)'
<1> SUFFICES ASSUME pc'[c] \in {"account", "close"}, target'[c] \notin crossed'.trades
             PROVE  trade'[target'[c]] = "OPEN"
  BY DEF StillOpen
<1>0. /\ crossed.trades \subseteq crossed'.trades /\ CrossingsRecorded
      /\ target[c] \in Signals /\ pc \in [Calls -> PCs]
  BY CrossStep DEF UInv, IInv, TypeOK
<1>1. CASE FindTrade(c)
  <2>1. UNCHANGED <<trade, target>> /\ trade[target[c]] = "OPEN"
    BY <1>0, <1>1 DEF FindTrade, Check, Step, callVars, tradeVars
  <2> QED
    BY <2>1
<1>2. CASE pc[c] \in {"account", "close"} /\ target'[c] = target[c]
  <2>1. trade[target[c]] = "OPEN"
    BY <1>0, <1>2 DEF UInv, StillOpen
  <2>2. ASSUME NEW d \in Calls, CloseTrade(d), target[d] = target[c] PROVE FALSE
    <3>1. pc[d] = "close" /\ d # c
      BY <2>2, CloseWrites
    <3> QED
      BY <1>0, <1>2, <2>2, <3>1, Rivals
  <2> QED
    BY <1>0, <1>2, <2>1, <2>2, TradeBy
<1> QED
  BY <1>1, <1>2, Relying

\* A trade that is closed stays closed.
LEMMA ClosedStays ==
  ASSUME IInv, [Next]_vars, NEW s \in Signals, trade[s] = "CLOSED"
  PROVE  trade'[s] = "CLOSED"
BY TradeBy

LEMMA BookingStep ==
  ASSUME IInv, UInv, [Next]_vars, NEW c \in Calls
  PROVE  SoleBooking(c)'
<1> SUFFICES ASSUME pc'[c] = "book" PROVE SoleBooking(c)'
  BY DEF SoleBooking
<1>0. /\ crossed.trades \subseteq crossed'.trades /\ CrossingsRecorded
      /\ target \in [Calls -> Signals] /\ pc \in [Calls -> PCs]
      /\ trade \in [Signals -> {"none", "OPEN", "CLOSED"}] /\ pnl \in [Signals -> Int]
      /\ target[c] \in Signals
  BY CrossStep DEF UInv, IInv, TypeOK
<1>1. target'[c] = target[c] /\ price'[c] = price[c] /\ trade'[target[c]] = "CLOSED"
  <2>1. CASE CloseTrade(c)
    BY <1>0, <2>1, CloseWrites
  <2>2. CASE pc[c] = "book" /\ target'[c] = target[c] /\ price'[c] = price[c]
    BY <1>0, <2>2, ClosedStays DEF UInv, SoleBooking
  <2> QED
    BY <2>1, <2>2, Relying
\* Unless the trade is crossed, it was open until now or this call was booking it.
<1>2. SUFFICES ASSUME target[c] \notin crossed'.trades
               PROVE  /\ pnl'[target[c]] = PnL(target[c], price[c])
                      /\ \A b \in booked' : b[2] # target[c]
                      /\ \A d \in Calls \ {c} : pc'[d] = "book" => target'[d] # target[c]
  BY <1>1 DEF SoleBooking, PnL
<1>3. target[c] \notin crossed.trades
  BY <1>0, <1>2
\* Nobody else closes it in this step.
<1>4. ASSUME NEW d \in Calls \ {c}, CloseTrade(d) PROVE target[d] # target[c]
  <2>1. pc[d] = "close" /\ pc'[c] = pc[c]
    BY <1>0, <1>4, CloseWrites, OthersStay DEF Advance, Closing, IInv
  <2>2. pc[c] = "book"
    BY <2>1
  <2>3. target[d] = target[c] => trade[target[c]] = "OPEN"
    BY <1>3, <2>1 DEF UInv, StillOpen
  <2> QED
    BY <2>2, <2>3 DEF UInv, SoleBooking
<1>5. CASE CloseTrade(c)
  <2>1. /\ pc[c] = "close" /\ trade[target[c]] = "OPEN"
        /\ pnl'[target[c]] = PnL(target[c], price[c]) /\ booked' = booked
    BY <1>0, <1>3, <1>5, CloseWrites DEF UInv, StillOpen
  <2>2. \A b \in booked : b[2] # target[c]
    BY <2>1 DEF UInv, BooksClosed
  <2>3. ASSUME NEW d \in Calls \ {c}, pc'[d] = "book" PROVE target'[d] # target[c]
    <3>1. pc[d] = "book" /\ target'[d] = target[d]
      BY <1>5, <2>3, OthersStay DEF Advance, Closing, IInv
    <3>2. trade[target[d]] = "CLOSED"
      BY <3>1 DEF UInv, SoleBooking
    <3> QED
      BY <2>1, <3>1, <3>2
  <2> QED
    BY <2>1, <2>2, <2>3
<1>6. CASE pc[c] = "book" /\ ~CloseTrade(c)
  <2>1. /\ pnl[target[c]] = PnL(target[c], price[c])
        /\ \A b \in booked : b[2] # target[c]
        /\ \A d \in Calls \ {c} : pc[d] = "book" => target[d] # target[c]
    BY <1>3, <1>6 DEF UInv, SoleBooking
  <2>2. pnl'[target[c]] = pnl[target[c]]
    <3>1. ASSUME NEW d \in Calls \ {c}, CloseTrade(d) PROVE pnl'[target[c]] = pnl[target[c]]
      BY <1>0, <1>4, <3>1, CloseWrites
    <3>2. ASSUME NEW d \in Calls, CreateTrade(d) \/ UpdateBalance(d) \/ Restate(d)
          PROVE  pnl' = pnl
      BY <3>2, CreateWrites, UpdateWrites, RestateWrites
    <3> QED
      BY <1>6, <3>1, <3>2, Writers
  <2>3. \A b \in booked' : b[2] # target[c]
    <3>1. ASSUME NEW d \in Calls, UpdateBalance(d)
          PROVE  \A b \in booked' : b[2] # target[c]
      <4>1. d # c /\ pc[d] = "book"
        BY <3>1, UpdateWrites
      <4> QED
        BY <2>1, <3>1, <4>1, UpdateWrites
    <3>2. ASSUME NEW d \in Calls, CreateTrade(d) \/ CloseTrade(d) \/ Restate(d)
          PROVE  booked' = booked
      BY <3>2, CreateWrites, CloseWrites, RestateWrites
    <3> QED
      BY <2>1, <3>1, <3>2, Writers
  <2>4. ASSUME NEW d \in Calls \ {c}, pc'[d] = "book" PROVE target'[d] # target[c]
    <3>1. CASE CloseTrade(d)
      BY <1>4, <3>1, CloseWrites
    <3>2. CASE pc[d] = "book" /\ target'[d] = target[d]
      BY <2>1, <3>2
    <3> QED
      BY <2>4, <3>1, <3>2, Relying
  <2> QED
    BY <2>1, <2>2, <2>3, <2>4
<1> QED
  BY <1>5, <1>6, Relying

LEMMA ReadStep ==
  ASSUME IInv, UInv, [Next]_vars, NEW c \in Calls
  PROVE  StillRead(c)'
<1> SUFFICES ASSUME pc'[c] \in {"close", "book", "restate"},
                    Book(c)' \notin crossed'.accounts
             PROVE  seen'[c] = balance'[Book(c)']
  BY DEF StillRead
<1>0. /\ crossed.accounts \subseteq crossed'.accounts /\ CrossingsRecorded /\ TypeOK
      /\ Book(c) \in Accounts /\ pc \in [Calls -> PCs] /\ seen \in [Calls -> Int]
      /\ balance \in [Accounts -> Int]
  BY CrossStep, BookType DEF UInv, IInv, TypeOK
<1>1. CASE ReadAccount(c) \/ Recount(c)
  <2>1. /\ pc[c] \in {"account", "recount"} /\ seen'[c] = balance[Book(c)]
        /\ UNCHANGED <<target, balance>>
    BY <1>0, <1>1 DEF ReadAccount, Recount, Step
  <2>2. Book(c)' = Book(c)
    BY <2>1, BookStays
  <2> QED
    BY <2>1, <2>2
<1>2. CASE pc[c] \in {"close", "book", "restate"} /\ target'[c] = target[c] /\ seen'[c] = seen[c]
  <2>1. Book(c)' = Book(c)
    BY <1>2, BookStays
  <2>2. Book(c) \notin crossed.accounts /\ seen[c] = balance[Book(c)]
    BY <1>0, <1>2, <2>1 DEF UInv, StillRead
  <2>3. ASSUME NEW d \in Calls, UpdateBalance(d) \/ Restate(d)
        PROVE  balance'[Book(c)] = balance[Book(c)]
    <3>1. pc[d] \in {"book", "restate"} /\ Book(d) \in Accounts
      BY <1>0, <2>3, UpdateWrites, RestateWrites, BookType
    <3>2. CASE d = c
      <4>1. Restate(c) \/ pc'[c] = "recount"
        BY <2>3, <3>2, UpdateWrites
      <4>2. Restate(c) => pc'[c] \in {"mark", "next", "done"}
        BY RestateWrites
      <4> QED
        BY <4>1, <4>2
    <3>3. CASE d # c
      <4>1. Book(d) # Book(c)
        BY <1>0, <1>2, <2>2, <3>1, <3>3, Rivals
      <4> QED
        BY <1>0, <2>3, <4>1, UpdateWrites, RestateWrites
    <3> QED
      BY <3>2, <3>3
  <2>4. ASSUME NEW d \in Calls, CreateTrade(d) \/ CloseTrade(d) PROVE balance' = balance
    BY <2>4, CreateWrites, CloseWrites
  <2>5. balance'[Book(c)] = balance[Book(c)]
    BY <2>3, <2>4, Writers
  <2> QED
    BY <1>2, <2>1, <2>2, <2>5
<1> QED
  BY <1>1, <1>2, Relying

LEMMA RulesStep ==
  ASSUME IInv, UInv, [Next]_vars
  PROVE  BooksClosed' /\ RulesUnlessCrossed'
<1>0. /\ crossed.instruments \subseteq crossed'.instruments
      /\ crossed.trades \subseteq crossed'.trades
      /\ crossed.accounts \subseteq crossed'.accounts
      /\ target \in [Calls -> Signals] /\ trade \in [Signals -> {"none", "OPEN", "CLOSED"}]
      /\ booked \subseteq Calls \X Signals \X Int
      /\ balance \in [Accounts -> Int] /\ due \in [Accounts -> Int]
      /\ BooksClosed /\ OneOpenUnlessCrossed /\ BookedOnceUnlessCrossed /\ BalanceUnlessCrossed
  BY CrossStep DEF UInv, RulesUnlessCrossed, IInv, TypeOK
<1>1. \A b \in booked : trade'[b[2]] = "CLOSED"
  BY <1>0, ClosedStays DEF BooksClosed
<1>2. ASSUME NEW c \in Calls, CreateTrade(c)
      PROVE  BooksClosed' /\ RulesUnlessCrossed'
  <2>1. UNCHANGED <<balance, booked, due>> /\ pc[c] = "create"
    BY <1>2, CreateWrites
  <2>2. ASSUME NEW s \in Signals, NEW t \in Signals, trade'[s] = "OPEN", trade'[t] = "OPEN",
               Instrument(s) = Instrument(t), Instrument(s) \notin crossed'.instruments
        PROVE  s = t
    <3>1. \A u \in Open : Instrument(u) # Instrument(target[c])
                          \/ Instrument(target[c]) \in crossed.instruments
      BY <2>1 DEF UInv, StillFree
    <3>2. \A u \in Signals : trade'[u] = "OPEN" => trade[u] = "OPEN" \/ u = target[c]
      BY <1>0, <1>2, CreateWrites
    <3> QED
      BY <1>0, <2>2, <3>1, <3>2 DEF OneOpenUnlessCrossed, Open
  <2>3. OneOpenUnlessCrossed'
    BY <2>2 DEF OneOpenUnlessCrossed, Open, Instrument
  <2> QED
    BY <1>0, <1>1, <2>1, <2>3
    DEF RulesUnlessCrossed, BooksClosed, BookedOnceUnlessCrossed, BalanceUnlessCrossed
<1>3. ASSUME \A s \in Signals : trade'[s] = "OPEN" => trade[s] = "OPEN"
      PROVE  OneOpenUnlessCrossed'
  BY <1>0, <1>3 DEF OneOpenUnlessCrossed, Open, Instrument
<1>4. ASSUME NEW c \in Calls, CloseTrade(c)
      PROVE  BooksClosed' /\ RulesUnlessCrossed'
  <2>1. /\ trade' = [trade EXCEPT ![target[c]] = "CLOSED"]
        /\ UNCHANGED <<balance, booked, due>>
    BY <1>4, CloseWrites
  <2>2. OneOpenUnlessCrossed'
    BY <1>0, <1>3, <2>1
  <2> QED
    BY <1>0, <1>1, <2>1, <2>2
    DEF RulesUnlessCrossed, BooksClosed, BookedOnceUnlessCrossed, BalanceUnlessCrossed
<1>5. ASSUME NEW c \in Calls, UpdateBalance(c)
      PROVE  BooksClosed' /\ RulesUnlessCrossed'
  <2> DEFINE gain == PnL(target[c], price[c])
  <2>0. gain \in Int /\ Book(c) \in Accounts /\ target[c] \in Signals
    BY PnLType, BookType DEF IInv, TypeOK
  <2>1. /\ pc[c] = "book" /\ UNCHANGED trade
        /\ balance' = [balance EXCEPT ![Book(c)] = seen[c] + gain]
        /\ booked' = booked \cup {<<c, target[c], gain>>}
        /\ due' = [due EXCEPT ![Book(c)] = @ + gain]
    BY <1>5, UpdateWrites
  <2>2. /\ trade[target[c]] = "CLOSED"
        /\ target[c] \in crossed.trades \/ \A b \in booked : b[2] # target[c]
        /\ Book(c) \in crossed.accounts \/ seen[c] = balance[Book(c)]
    BY <2>1 DEF UInv, SoleBooking, StillRead
  <2>3. BooksClosed'
    BY <1>1, <2>1, <2>2 DEF BooksClosed
  <2>4. OneOpenUnlessCrossed'
    BY <1>0, <1>3, <2>1
  <2>5. BookedOnceUnlessCrossed'
    BY <1>0, <2>1, <2>2 DEF BookedOnceUnlessCrossed
  <2>6. BalanceUnlessCrossed'
    BY <1>0, <2>0, <2>1, <2>2 DEF BalanceUnlessCrossed
  <2> QED
    BY <2>3, <2>4, <2>5, <2>6 DEF RulesUnlessCrossed
<1>6. ASSUME NEW c \in Calls, Restate(c)
      PROVE  BooksClosed' /\ RulesUnlessCrossed'
  <2>0. Book(c) \in Accounts
    BY BookType DEF IInv
  <2>1. /\ pc[c] = "restate" /\ UNCHANGED <<trade, booked, due>>
        /\ balance' = [balance EXCEPT ![Book(c)] = seen[c]]
    BY <1>6, RestateWrites
  <2>2. Book(c) \in crossed.accounts \/ seen[c] = balance[Book(c)]
    BY <2>1 DEF UInv, StillRead
  <2>3. BalanceUnlessCrossed'
    BY <1>0, <2>0, <2>1, <2>2 DEF BalanceUnlessCrossed
  <2>4. OneOpenUnlessCrossed'
    BY <1>3, <2>1
  <2> QED
    BY <1>0, <1>1, <2>1, <2>3, <2>4 DEF RulesUnlessCrossed, BooksClosed, BookedOnceUnlessCrossed
<1>7. CASE UNCHANGED <<trade, balance, booked, due>>
  <2>1. OneOpenUnlessCrossed'
    BY <1>3, <1>7
  <2> QED
    BY <1>0, <1>1, <1>7, <2>1
    DEF RulesUnlessCrossed, BooksClosed, BookedOnceUnlessCrossed, BalanceUnlessCrossed
<1> QED
  BY <1>2, <1>4, <1>5, <1>6, <1>7, Writers

LEMMA UncrossedInvariant == Spec => []UInv
<1>1. IInv /\ UInv /\ [Next]_vars => UInv'
  <2> SUFFICES ASSUME IInv, UInv, [Next]_vars PROVE UInv'
    OBVIOUS
  <2>1. CrossingsRecorded'
    BY CrossStep DEF UInv
  <2> QED
    BY <2>1, RulesStep, FreeStep, OpenStep, BookingStep, ReadStep DEF UInv
<1> QED
  BY <1>1, InitUInv, EngineInvariant, PTL DEF Spec

\* An instrument has two open trades only if two calls crossed between the look at it
\* and the create; a trade is booked twice only if two calls crossed between the look
\* at its status and the close; a balance differs from all that was booked only if two
\* calls crossed between a reading and a writing of it.  Any number of calls run at once.
THEOREM RulesKept == Spec => []RulesUnlessCrossed
<1>1. UInv => RulesUnlessCrossed
  BY DEF UInv
<1> QED
  BY <1>1, UncrossedInvariant, PTL

-----------------------------------------------------------------------------
(* The engine implements PaperLedger.                                      *)

\* The closed trades that calls are about to book.
Owing == {target[c] : c \in {d \in Calls : pc[d] = "book"}}

\* A step of one call leaves what the others owe.
LEMMA OwingStep ==
  ASSUME IInv, NEW c \in Calls, Start(c) \/ Resume(c) \/ Advance(c) \/ Interrupt(c)
  PROVE  /\ pc[c] # "book" /\ pc'[c] # "book" => Owing' = Owing
         /\ pc[c] # "book" /\ pc'[c] = "book" => Owing' = Owing \cup {target'[c]}
         /\ pc[c] = "book" /\ pc'[c] # "book" =>
              \/ Owing' = Owing \ {target[c]}
              \/ /\ Owing' = Owing
                 /\ \E d \in Calls \ {c} : pc[d] = "book" /\ target[d] = target[c]
<1> DEFINE others == {target[d] : d \in {x \in Calls \ {c} : pc[x] = "book"}}
<1>1. \A d \in Calls \ {c} : pc'[d] = pc[d] /\ target'[d] = target[d]
  BY OthersStay DEF IInv
<1>2. Owing = others \cup (IF pc[c] = "book" THEN {target[c]} ELSE {})
  BY DEF Owing
<1>3. Owing' = others \cup (IF pc'[c] = "book" THEN {target'[c]} ELSE {})
  BY <1>1 DEF Owing
<1>4. target[c] \in others => \E d \in Calls \ {c} : pc[d] = "book" /\ target[d] = target[c]
  OBVIOUS
<1> QED
  BY <1>2, <1>3, <1>4

\* A trade is opened where the instrument has none, or calls crossed on it.
LEMMA CreateOpens ==
  ASSUME IInv, UInv, NEW c \in Calls, CreateTrade(c)
  PROVE  \/ \E s \in Signals, a \in Accounts : Ledger!Open(s, a)
         \/ UNCHANGED Ledger!books
<1>0. target[c] \in Signals
  BY DEF IInv, TypeOK
<1>1. Owing' = Owing
  <2>1. pc[c] # "book" /\ pc'[c] # "book"
    BY CreateWrites
  <2> QED
    BY <2>1, OwingStep DEF Advance, Opening
<1>2. CASE UNCHANGED <<trade, account>>
  BY <1>1, <1>2, CreateWrites DEF Ledger!books, Owing
<1>3. CASE /\ trade[target[c]] = "none" /\ c \in Openers
           /\ trade' = [trade EXCEPT ![target[c]] = "OPEN"]
           /\ account' = [account EXCEPT ![target[c]] = AccountOf[c]]
  <2>1. AccountOf[c] \in Accounts
    BY <1>3, PaperTradingAssumption
  <2>2. \/ \A t \in Signals : trade[t] = "OPEN" => Instrument(t) # Instrument(target[c])
        \/ Instrument(target[c]) \in crossed.instruments
    BY CreateWrites DEF UInv, StillFree, Open
  <2>3. UNCHANGED <<pnl, balance>>
    BY CreateWrites
  <2>4. Ledger!Open(target[c], AccountOf[c])
    BY <1>0, <1>1, <1>3, <2>2, <2>3 DEF Ledger!Open, Owing
  <2> QED
    BY <1>0, <2>1, <2>4
<1> QED
  BY <1>2, <1>3, CreateWrites

\* A trade is closed once, or calls crossed on it.
LEMMA CloseCloses ==
  ASSUME IInv, UInv, NEW c \in Calls, CloseTrade(c), NEW s \in Signals, s = target[c]
  PROVE  Ledger!Close(s)
<1>0. trade \in [Signals -> {"none", "OPEN", "CLOSED"}] /\ pnl \in [Signals -> Int]
  BY DEF IInv, TypeOK
<1>1. /\ pc[c] = "close" /\ pc'[c] = "book" /\ target' = target
      /\ trade' = [trade EXCEPT ![s] = "CLOSED"]
      /\ pnl' = [pnl EXCEPT ![s] = PnL(target[c], price[c])]
      /\ UNCHANGED <<account, balance>>
  BY CloseWrites
<1>2. Owing' = Owing \cup {s}
  BY <1>1, OwingStep DEF Advance, Closing
<1>3. trade[s] = "OPEN" \/ (trade[s] = "CLOSED" /\ s \in crossed.trades)
  BY <1>0, <1>1 DEF UInv, StillOpen, IInv, FoundToClose
<1>4. pnl' = [pnl EXCEPT ![s] = pnl'[s]]
  BY <1>0, <1>1
<1> QED
  BY <1>1, <1>2, <1>3, <1>4 DEF Ledger!Close, Owing

\* Unless calls crossed on the trade or its account, the balance is the one the call
\* read and the amount the stored one.
LEMMA UpdateSettles ==
  ASSUME IInv, UInv, NEW c \in Calls, UpdateBalance(c), NEW s \in Signals, s = target[c]
  PROVE  Ledger!Settle(s)
<1>0. balance \in [Accounts -> Int] /\ Book(c) \in Accounts
  BY BookType DEF IInv, TypeOK
<1>1. /\ pc[c] = "book" /\ pc'[c] = "recount" /\ c \notin Openers
      /\ balance' = [balance EXCEPT ![Book(c)] = seen[c] + PnL(s, price[c])]
      /\ UNCHANGED <<trade, account, pnl>>
  BY UpdateWrites
<1>2. Book(c) = account[s]
  BY <1>1 DEF Book
<1>3. /\ s \in crossed.trades \/ pnl[s] = PnL(s, price[c])
      /\ s \in crossed.trades \/ \A d \in Calls \ {c} : pc[d] = "book" => target[d] # s
      /\ account[s] \in crossed.accounts \/ seen[c] = balance[account[s]]
  BY <1>1, <1>2 DEF UInv, SoleBooking, StillRead
<1>4. s \in Owing /\ (Owing' = Owing \ {s} \/ (Owing' = Owing /\ s \in crossed.trades))
  BY <1>1, <1>3, OwingStep DEF Advance, Closing, Owing
<1>5. Ledger!Discharge(s)
  BY <1>4 DEF Ledger!Discharge, Owing
<1>6. balance' = [balance EXCEPT ![account[s]] = balance'[account[s]]]
  BY <1>0, <1>1, <1>2
<1>7. \/ balance'[account[s]] = balance[account[s]] + pnl[s]
      \/ s \in crossed.trades \/ account[s] \in crossed.accounts
  BY <1>0, <1>1, <1>2, <1>3
<1> QED
  BY <1>1, <1>5, <1>6, <1>7 DEF Ledger!Settle

\* A balance that was read is written back: it is still the balance, or calls crossed.
LEMMA RestateOverwrites ==
  ASSUME IInv, UInv, NEW c \in Calls, Restate(c)
  PROVE  (\E a \in Accounts : Ledger!Overwrite(a)) \/ UNCHANGED Ledger!books
<1>0. balance \in [Accounts -> Int] /\ Book(c) \in Accounts
  BY BookType DEF IInv, TypeOK
<1>1. /\ pc[c] = "restate" /\ pc'[c] # "book"
      /\ balance' = [balance EXCEPT ![Book(c)] = seen[c]]
      /\ UNCHANGED <<trade, account, pnl>>
  BY RestateWrites
<1>2. Owing' = Owing
  BY <1>1, OwingStep DEF Advance
<1>3. CASE Book(c) \in crossed.accounts
  <2>1. balance' = [balance EXCEPT ![Book(c)] = balance'[Book(c)]]
    BY <1>0, <1>1
  <2>2. Ledger!Overwrite(Book(c))
    BY <1>1, <1>2, <1>3, <2>1 DEF Ledger!Overwrite, Owing
  <2> QED
    BY <1>0, <2>2
<1>4. CASE seen[c] = balance[Book(c)]
  <2>1. balance' = balance
    BY <1>0, <1>1, <1>4
  <2> QED
    BY <1>1, <1>2, <2>1 DEF Ledger!books, Owing
<1> QED
  BY <1>1, <1>3, <1>4 DEF UInv, StillRead

\* An interruption between the two writes of closeTrade loses the amount.
LEMMA InterruptLoses ==
  ASSUME IInv, UInv, NEW c \in Calls, Interrupt(c), NEW s \in Signals, s = target[c]
  PROVE  Ledger!Lose(s) \/ UNCHANGED Ledger!books
<1>1. /\ pc'[c] # "book" /\ UNCHANGED <<trade, account, pnl, balance>>
  BY DEF Interrupt, Throws, Dies, IInv, TypeOK, tradeVars
<1>2. CASE pc[c] = "book"
  <2>1. s \in crossed.trades \/ \A d \in Calls \ {c} : pc[d] = "book" => target[d] # s
    BY <1>2 DEF UInv, SoleBooking
  <2>2. s \in Owing /\ (Owing' = Owing \ {s} \/ (Owing' = Owing /\ s \in crossed.trades))
    BY <1>1, <1>2, <2>1, OwingStep DEF Owing
  <2>3. Ledger!Discharge(s)
    BY <2>2 DEF Ledger!Discharge, Owing
  <2> QED
    BY <1>1, <2>3 DEF Ledger!Lose
<1>3. CASE pc[c] # "book"
  <2>1. Owing' = Owing
    BY <1>1, <1>3, OwingStep
  <2> QED
    BY <1>1, <2>1 DEF Ledger!books, Owing
<1> QED
  BY <1>2, <1>3

\* The other steps of a call write nothing that the ledger shows.
LEMMA RestStutters ==
  ASSUME IInv, NEW c \in Calls, Start(c) \/ Resume(c) \/ Advance(c),
         ~CreateTrade(c), ~CloseTrade(c), ~UpdateBalance(c), ~Restate(c)
  PROVE  UNCHANGED Ledger!books
<1> USE DEF Step, Check
<1>0. pc \in [Calls -> PCs]
  BY DEF IInv, TypeOK
<1>1. pc[c] # "book" /\ pc'[c] # "book" /\ UNCHANGED <<tradeVars, balance>>
  <2>1. CASE Start(c) \/ Resume(c)
    BY <1>0, <2>1 DEF Start, Resume, FirstStep
  <2>2. CASE Advance(c)
    BY <1>0, <2>2 DEF Advance, Opening, ReadSignal, CheckExisting, CheckInstrument, CheckApprovals,
         MarkSignal, Closing, FindTrade, ReadAccount, Evaluating, FindTouched, NextTouched, Recount
  <2> QED
    BY <2>1, <2>2
<1>2. Owing' = Owing
  BY <1>1, OwingStep
<1> QED
  BY <1>1, <1>2 DEF tradeVars, Ledger!books, Owing

LEMMA LedgerStep ==
  ASSUME IInv, UInv, [Next]_vars
  PROVE  [Ledger!Next]_(Ledger!ledgerVars)
<1>0. target \in [Calls -> Signals] /\ Ledger!Remember
  BY CrossStep DEF IInv, TypeOK, UInv, Ledger!Remember
<1> SUFFICES \/ \E s \in Signals, a \in Accounts : Ledger!Open(s, a)
             \/ \E s \in Signals : Ledger!Close(s) \/ Ledger!Settle(s) \/ Ledger!Lose(s)
             \/ \E a \in Accounts : Ledger!Overwrite(a)
             \/ UNCHANGED Ledger!books
  BY <1>0 DEF Ledger!Next
<1>1. ASSUME NEW c \in Calls, CloseTrade(c) \/ UpdateBalance(c) \/ Interrupt(c)
      PROVE  \/ \E s \in Signals : Ledger!Close(s) \/ Ledger!Settle(s) \/ Ledger!Lose(s)
             \/ UNCHANGED Ledger!books
  <2>1. PICK s \in Signals : s = target[c]
    BY <1>0
  <2> QED
    BY <1>1, <2>1, CloseCloses, UpdateSettles, InterruptLoses
<1>2. ASSUME NEW c \in Calls, CreateTrade(c)
      PROVE  \/ \E s \in Signals, a \in Accounts : Ledger!Open(s, a)
             \/ UNCHANGED Ledger!books
  BY <1>2, CreateOpens
<1>3. ASSUME NEW c \in Calls, Restate(c)
      PROVE  (\E a \in Accounts : Ledger!Overwrite(a)) \/ UNCHANGED Ledger!books
  BY <1>3, RestateOverwrites
<1>4. ASSUME NEW c \in Calls, Start(c) \/ Resume(c) \/ Advance(c),
             ~CreateTrade(c), ~CloseTrade(c), ~UpdateBalance(c), ~Restate(c)
      PROVE  UNCHANGED Ledger!books
  BY <1>4, RestStutters
<1>5. CASE UNCHANGED <<pc, callVars, tradeVars, balance>>
  BY <1>5 DEF callVars, tradeVars, Ledger!books
<1> QED
  BY <1>1, <1>2, <1>3, <1>4, <1>5 DEF Next, Move, updateStatus, Grant, vars

\* Any number of calls at once keep the books of PaperLedger: what they do not cross on
\* is opened where the instrument is free, closed once, and added once, with the stored
\* amount, to its account, or lost with the call that owed it.
THEOREM LedgerKept == Spec => LedgerSpec
<1>1. Init => Ledger!Init
  <2> SUFFICES ASSUME Init PROVE Ledger!Init
    OBVIOUS
  <2>1. SomeAccount \in Accounts
    BY PaperTradingAssumption DEF SomeAccount
  <2> QED
    BY <2>1 DEF Init, Ledger!Init
<1>2. IInv /\ UInv /\ [Next]_vars => [Ledger!Next]_(Ledger!ledgerVars)
  BY LedgerStep
<1> QED
  BY <1>1, <1>2, UncrossedInvariant, EngineInvariant, PTL DEF Spec, LedgerSpec, Ledger!Spec
=============================================================================
