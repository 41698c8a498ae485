------------------------- MODULE LiveTradingProofs -------------------------
(***************************************************************************)
(* Proofs about LiveTrading for any number of requests, signals and        *)
(* symbols.                                                                *)
(*                                                                         *)
(* OneActivePerSymbol is not inductive: nothing in it says why a commit    *)
(* finds the symbol free.  The argument is that of snapshot validation.    *)
(* A request about to commit saw no active row on its symbol in its        *)
(* snapshot, so each one that is active now was reserved since and is in   *)
(* its set missed (SnapshotSound); such a row is a conflict, and Commit is  *)
(* not allowed on one.  A row becomes EXECUTED only from REQUESTED because  *)
(* a request at work keeps its row active (ReservationHeld), so no failed   *)
(* row turns active again.                                                 *)
(*                                                                         *)
(* The daily limit is the same argument with a count: the rows of its day  *)
(* that a request does not miss are fewer than the limit it read           *)
(* (RoomLeft), and a commit that missed one of its day is a conflict.  Each *)
(* step adds one row at most, so the rows are finite however many requests *)
(* there are.                                                              *)
(***************************************************************************)
EXTENDS LiveTrading, FiniteSetTheorems, TLAPS

Unreserved == {"idle", "config", "snapshot", "reserve"}

\* What the snapshot of a request about to commit still tells it.
SnapshotSound ==
  \A r \in Requests :
    pc[r] = "reserve" =>
      \A q \in Requests : IsActive(q) /\ Symbol(q) = Symbol(r) => q \in missed[r]

\* A row exists only once its request has committed.
NoRowYet == \A r \in Requests : pc[r] \in Unreserved => trade[r] = "none"

IInv == TypeOK /\ NoRowYet /\ ReservationHeld /\ SnapshotSound /\ OneActivePerSymbol

-----------------------------------------------------------------------------
\* Reading two signals on one symbol is a conflict in both directions.
LEMMA SameSymbolConflicts ==
  ASSUME NEW r \in Requests, NEW q \in missed[r], NEW d,
         Symbol(q) = Symbol(r)
  PROVE  Conflict(r, d)
BY DEF Conflict, Reads

\* The state is well typed in every reachable state.
LEMMA TypeStep == TypeOK /\ [Next]_vars => TypeOK'
<1> SUFFICES ASSUME TypeOK, [Next]_vars PROVE TypeOK'
  OBVIOUS
<1> USE LiveTradingAssumption DEF TypeOK, PCs
<1>1. ASSUME NEW r \in Requests, WrongConfirmation(r) \/ Request(r) PROVE TypeOK'
  BY <1>1 DEF WrongConfirmation, Request, Transition, dbVars, readVars, envVars
<1>2. ASSUME NEW r \in Requests, Advance(r) PROVE TypeOK'
  <2>1. CASE ReadConfig(r) \/ WrongUser(r)
    BY <2>1 DEF ReadConfig, WrongUser, Transition, dbVars, readVars, envVars
  <2>2. CASE TakeSnapshot(r)
    <3>1. limits.maxDaily \in Nat
      BY DEF LimitRows
    <3>2. QED
      BY <2>2, <3>1 DEF TakeSnapshot, Transition, dbVars, readVars, envVars
  <2>3. CASE Commit(r)
    <3>1. PICK d \in since[r]..day : createdOn' = [createdOn EXCEPT ![r] = d]
      BY <2>3 DEF Commit, CreationDays
    <3>2. d \in 0..MaxDay
      BY <3>1
    <3>3. missed' \in [Requests -> SUBSET Requests]
      BY <2>3 DEF Commit
    <3>4. QED
      BY <2>3, <3>1, <3>2, <3>3 DEF Commit, Transition, dbVars, readVars, envVars
  <2>4. CASE Abort(r)
    BY <2>4 DEF Abort, Transition, dbVars, readVars, envVars
  <2>5. CASE LogBlocked(r) \/ LogValidation(r) \/ LogPlaceOrder(r) \/ LogResponse(r)
             \/ LogFailed(r)
    BY <2>5 DEF LogBlocked, LogValidation, LogPlaceOrder, LogResponse, LogFailed, Write,
                Fails, Transition, dbVars, readVars, envVars
  <2>6. CASE SendOrder(r)
    BY <2>6 DEF SendOrder, Fails, Transition, dbVars, readVars, envVars
  <2>7. CASE ReceiveAnswer(r) \/ Timeout(r)
    BY <2>7 DEF ReceiveAnswer, Timeout, Write, Fails, Transition, dbVars, readVars, envVars
  <2>8. CASE markLiveTradeExecuted(r)
    BY <2>8 DEF markLiveTradeExecuted, Write, Fails, Transition, dbVars, readVars, envVars
  <2>9. CASE MarkSignal(r)
    BY <2>9 DEF MarkSignal, Write, Fails, Transition, dbVars, readVars, envVars
  <2>10. CASE markLiveTradeFailed(r)
    BY <2>10 DEF markLiveTradeFailed, Fails, Transition, dbVars, readVars, envVars
  <2> QED
    BY <1>2, <2>1, <2>2, <2>3, <2>4, <2>5, <2>6, <2>7, <2>8, <2>9, <2>10 DEF Advance
<1>3. ASSUME NEW r \in Requests, Crash(r) PROVE TypeOK'
  BY <1>3 DEF Crash, Fails, dbVars, readVars, envVars
<1>4. ASSUME NEW r \in Requests, Worker(r) PROVE TypeOK'
  BY <1>4 DEF Worker, WorkerRefuses, WorkerFills, WorkerRejects, WorkerFillsPartly,
              WorkerAnswers, Filled, dbVars, readVars, envVars
<1>5. CASE Environment
  BY <1>5 DEF Environment, Grant, updateStatus, updateConfig, updateLimits, Midnight,
              dbVars, readVars, envVars
<1>6. CASE UNCHANGED vars
  BY <1>6 DEF vars, dbVars, readVars, envVars
<1> QED
  BY <1>1, <1>2, <1>3, <1>4, <1>5, <1>6 DEF Next

THEOREM TypeCorrect == Spec => []TypeOK
<1>1. Init => TypeOK
  BY LiveTradingAssumption DEF Init, TypeOK, PCs
<1>2. QED
  BY <1>1, TypeStep, PTL DEF Spec

-----------------------------------------------------------------------------
\* A step that reserves nothing, starts no reservation and forgets no missed one.
Quiet ==
  /\ sig' = sig
  /\ \A q \in Requests : IsActive(q)' => IsActive(q)
  /\ \A r \in Requests :
       pc'[r] = "reserve" => pc[r] = "reserve" /\ missed[r] \subseteq missed'[r]

LEMMA QuietStep ==
  ASSUME SnapshotSound, OneActivePerSymbol, Quiet
  PROVE  SnapshotSound' /\ OneActivePerSymbol'
BY DEF Quiet, SnapshotSound, OneActivePerSymbol, Symbol

\* All steps of a request but its snapshot and its commit are quiet.
LEMMA LaterStepQuiet ==
  ASSUME TypeOK, ReservationHeld, NEW r \in Requests,
         Advance(r), ~TakeSnapshot(r), ~Commit(r)
  PROVE  Quiet
<1> USE DEF TypeOK, Quiet, IsActive, Active, Transition, dbVars, readVars, envVars
<1>1. CASE ReadConfig(r) \/ WrongUser(r) \/ Abort(r)
  BY <1>1 DEF ReadConfig, WrongUser, Abort
<1>2. CASE LogBlocked(r) \/ LogValidation(r) \/ LogPlaceOrder(r) \/ LogResponse(r)
           \/ LogFailed(r)
  BY <1>2 DEF LogBlocked, LogValidation, LogPlaceOrder, LogResponse, LogFailed, Write
<1>3. CASE SendOrder(r) \/ ReceiveAnswer(r) \/ Timeout(r)
  BY <1>3 DEF SendOrder, ReceiveAnswer, Timeout, Write
<1>4. CASE markLiveTradeExecuted(r)
  <2>1. IsActive(r)
    BY <1>4 DEF markLiveTradeExecuted, Write, ReservationHeld, Working
  <2>2. QED
    BY <1>4, <2>1 DEF markLiveTradeExecuted, Write
<1>5. CASE MarkSignal(r) \/ markLiveTradeFailed(r)
  BY <1>5 DEF MarkSignal, markLiveTradeFailed, Write
<1> QED
  BY <1>1, <1>2, <1>3, <1>4, <1>5 DEF Advance

\* The snapshot is taken with the symbol free, or not acted on.
LEMMA SnapshotStep ==
  ASSUME TypeOK, SnapshotSound, OneActivePerSymbol, NEW r \in Requests, TakeSnapshot(r)
  PROVE  SnapshotSound' /\ OneActivePerSymbol'
<1>1. sig' = sig /\ trade' = trade /\ missed' = missed
  BY DEF TakeSnapshot, dbVars
<1>2. OneActivePerSymbol'
  BY <1>1 DEF OneActivePerSymbol, IsActive, Symbol
<1>3. ASSUME NEW p \in Requests, pc'[p] = "reserve",
             NEW q \in Requests, IsActive(q), Symbol(q) = Symbol(p)
      PROVE  q \in missed[p]
  <2>1. CASE p = r
    BY <1>3, <2>1 DEF TakeSnapshot, Permitted, Transition, TypeOK
  <2>2. CASE p # r
    BY <1>3, <2>2 DEF TakeSnapshot, Transition, TypeOK, SnapshotSound
  <2> QED
    BY <2>1, <2>2
<1> QED
  BY <1>1, <1>2, <1>3 DEF SnapshotSound, IsActive, Symbol

\* A commit finds no active row on its symbol.
LEMMA CommitFindsFree ==
  ASSUME TypeOK, SnapshotSound, NEW r \in Requests, Commit(r),
         NEW q \in Requests, IsActive(q)
  PROVE  Symbol(q) # Symbol(r)
<1> SUFFICES ASSUME Symbol(q) = Symbol(r) PROVE FALSE
  OBVIOUS
<1>1. q \in missed[r]
  BY DEF SnapshotSound, Commit, Transition
<1>2. PICK d : ~Conflict(r, d)
  BY DEF Commit
<1> QED
  BY <1>1, <1>2, SameSymbolConflicts

\* A commit finds its symbol free, and every snapshot still open learns of it.
LEMMA CommitStep ==
  ASSUME TypeOK, SnapshotSound, OneActivePerSymbol, NEW r \in Requests, Commit(r)
  PROVE  SnapshotSound' /\ OneActivePerSymbol'
<1>1. sig' = sig /\ pc[r] = "reserve" /\ pc'[r] # "reserve"
  BY DEF Commit, Transition, TypeOK
<1>2. ASSUME NEW p \in Requests, p # r
      PROVE  pc'[p] = pc[p] /\ trade'[p] = trade[p]
  BY <1>2 DEF Commit, Transition, TypeOK
<1>3. ASSUME NEW p \in Requests, p # r, pc[p] = "reserve"
      PROVE  missed'[p] = missed[p] \cup {r}
  BY <1>3 DEF Commit
<1>4. ASSUME NEW q \in Requests, IsActive(q), Symbol(q) = Symbol(r)
      PROVE  FALSE
  BY <1>4, CommitFindsFree
<1>5. ASSUME NEW p \in Requests, p # r, IsActive(p)' PROVE IsActive(p)
  BY <1>2, <1>5 DEF IsActive, Active
<1>6. OneActivePerSymbol'
  <2>1. ASSUME NEW p \in Requests, NEW q \in Requests, p # q,
               IsActive(p)', IsActive(q)', Symbol(p) = Symbol(q)
        PROVE  FALSE
    BY <1>4, <1>5, <2>1 DEF OneActivePerSymbol
  <2> QED
    BY <1>1, <2>1 DEF OneActivePerSymbol, Symbol
<1>7. SnapshotSound'
  <2>1. ASSUME NEW p \in Requests, pc'[p] = "reserve",
               NEW q \in Requests, IsActive(q)', Symbol(q) = Symbol(p)
        PROVE  q \in missed'[p]
    <3>1. p # r /\ pc[p] = "reserve"
      BY <1>1, <1>2, <2>1
    <3>2. q = r \/ q \in missed[p]
      BY <1>5, <2>1, <3>1 DEF SnapshotSound
    <3> QED
      BY <1>3, <3>1, <3>2
  <2> QED
    BY <1>1, <2>1 DEF SnapshotSound, Symbol
<1> QED
  BY <1>6, <1>7

\* Requests own no row before their commit and keep it active while they work.
LEMMA OwnershipStep ==
  ASSUME TypeOK, NoRowYet, ReservationHeld, [Next]_vars
  PROVE  NoRowYet' /\ ReservationHeld'
<1> USE DEF TypeOK, NoRowYet, ReservationHeld, Unreserved, Working, IsActive, Active,
            Transition, dbVars, readVars, envVars
<1>1. ASSUME NEW r \in Requests, WrongConfirmation(r) \/ Request(r) \/ Crash(r) \/ Worker(r)
      PROVE  NoRowYet' /\ ReservationHeld'
  BY <1>1 DEF WrongConfirmation, Request, Crash, Worker, WorkerRefuses, WorkerFills,
              WorkerRejects, WorkerFillsPartly, WorkerAnswers
<1>2. ASSUME NEW r \in Requests, Advance(r)
      PROVE  NoRowYet' /\ ReservationHeld'
  <2>1. CASE ReadConfig(r) \/ WrongUser(r) \/ TakeSnapshot(r) \/ Abort(r)
    BY <2>1 DEF ReadConfig, WrongUser, TakeSnapshot, Abort
  <2>2. CASE Commit(r)
    BY <2>2 DEF Commit
  <2>3. CASE LogBlocked(r) \/ LogValidation(r) \/ LogPlaceOrder(r)
    BY <2>3 DEF LogBlocked, LogValidation, LogPlaceOrder, Write
  <2>4. CASE SendOrder(r) \/ ReceiveAnswer(r) \/ Timeout(r)
    BY <2>4 DEF SendOrder, ReceiveAnswer, Timeout, Write
  <2>5. CASE LogResponse(r) \/ LogFailed(r)
    BY <2>5 DEF LogResponse, LogFailed, Write
  <2>6. CASE markLiveTradeExecuted(r) \/ MarkSignal(r) \/ markLiveTradeFailed(r)
    BY <2>6 DEF markLiveTradeExecuted, MarkSignal, markLiveTradeFailed, Write
  <2> QED
    BY <1>2, <2>1, <2>2, <2>3, <2>4, <2>5, <2>6 DEF Advance
<1>3. CASE Environment \/ UNCHANGED vars
  BY <1>3 DEF Environment, Grant, updateStatus, updateConfig, updateLimits, Midnight, vars
<1> QED
  BY <1>1, <1>2, <1>3 DEF Next

LEMMA InvInit == Init => IInv
BY LiveTradingAssumption
   DEF Init, IInv, TypeOK, PCs, NoRowYet, ReservationHeld, SnapshotSound,
       OneActivePerSymbol, IsActive, Active, Working, Unreserved

LEMMA InvStep == IInv /\ [Next]_vars => IInv'
<1> SUFFICES ASSUME IInv, [Next]_vars PROVE IInv'
  OBVIOUS
<1>1. TypeOK'
  BY TypeStep DEF IInv
<1>2. NoRowYet' /\ ReservationHeld'
  BY OwnershipStep DEF IInv
<1>3. SnapshotSound' /\ OneActivePerSymbol'
  <2>1. ASSUME NEW r \in Requests, WrongConfirmation(r) \/ Request(r) \/ Crash(r) \/ Worker(r)
        PROVE  Quiet
    BY <2>1 DEF IInv, TypeOK, Quiet, IsActive, Transition, dbVars, readVars,
                WrongConfirmation, Request, Crash, Worker, WorkerRefuses, WorkerFills,
                WorkerRejects, WorkerFillsPartly, WorkerAnswers
  <2>2. CASE Environment \/ UNCHANGED vars
    <3>1. Quiet
      BY <2>2 DEF Environment, Grant, updateStatus, updateConfig, updateLimits, Midnight,
                  Quiet, IsActive, vars, dbVars, readVars
    <3> QED
      BY <3>1, QuietStep DEF IInv
  <2>3. ASSUME NEW r \in Requests, Advance(r)
        PROVE  SnapshotSound' /\ OneActivePerSymbol'
    BY <2>3, LaterStepQuiet, QuietStep, SnapshotStep, CommitStep DEF IInv
  <2> QED
    BY <2>1, <2>2, <2>3, QuietStep DEF Next, IInv
<1> QED
  BY <1>1, <1>2, <1>3 DEF IInv

\* In every reachable state, for every number of requests: IInv.
LEMMA Invariance == Spec => []IInv
BY InvInit, InvStep, PTL DEF Spec

\* No interleaving of requests, crashes, failed writes and updates lets two
\* requests own an active live trade on the same symbol.
THEOREM ExclusiveSymbol == Spec => []OneActivePerSymbol
BY Invariance, PTL DEF IInv

\* A request keeps its reservation active until it ends.
THEOREM HoldsWhileWorking == Spec => []ReservationHeld
BY Invariance, PTL DEF IInv

-----------------------------------------------------------------------------
(* Approvals.  They are only ever added, and the snapshot saw all of them. *)

Approved(r) == granted[sig[r]] = Approvals /\ sig[r] \in Tradable

ApprovalInv ==
  \A r \in Requests :
    /\ pc[r] = "reserve" \/ trade[r] # "none" => Approved(r)
    /\ order[r] # "none" => trade[r] # "none"

LEMMA ApprovalStep ==
  ASSUME TypeOK, ReservationHeld, ApprovalInv, [Next]_vars
  PROVE  ApprovalInv'
<1> USE DEF TypeOK, ApprovalInv, Approved, Transition, dbVars, readVars, envVars
<1>1. ASSUME NEW r \in Requests, WrongConfirmation(r) \/ Request(r) \/ Crash(r)
      PROVE  ApprovalInv'
  BY <1>1 DEF WrongConfirmation, Request, Crash
<1>2. ASSUME NEW r \in Requests, Worker(r)
      PROVE  ApprovalInv'
  BY <1>2 DEF Worker, WorkerRefuses, WorkerFills, WorkerRejects, WorkerFillsPartly,
              WorkerAnswers
<1>3. ASSUME NEW r \in Requests, Advance(r)
      PROVE  ApprovalInv'
  <2>1. CASE ReadConfig(r) \/ WrongUser(r) \/ Abort(r)
    BY <2>1 DEF ReadConfig, WrongUser, Abort
  <2>2. CASE TakeSnapshot(r)
    BY <2>2 DEF TakeSnapshot, Permitted
  <2>3. CASE Commit(r)
    BY <2>3 DEF Commit
  <2>4. CASE LogBlocked(r) \/ LogValidation(r) \/ LogPlaceOrder(r) \/ LogResponse(r)
             \/ LogFailed(r)
    BY <2>4 DEF LogBlocked, LogValidation, LogPlaceOrder, LogResponse, LogFailed, Write
  <2>5. CASE SendOrder(r)
    <3>1. trade[r] # "none"
      BY <2>5 DEF SendOrder, ReservationHeld, Working, IsActive, Active
    <3>2. QED
      BY <2>5, <3>1 DEF SendOrder
  <2>6. CASE ReceiveAnswer(r) \/ Timeout(r)
    BY <2>6 DEF ReceiveAnswer, Timeout, Write
  <2>7. CASE markLiveTradeExecuted(r)
    <3>1. trade[r] # "none"
      BY <2>7 DEF markLiveTradeExecuted, Write, ReservationHeld, Working, IsActive, Active
    <3>2. QED
      BY <2>7, <3>1 DEF markLiveTradeExecuted, Write
  <2>8. CASE MarkSignal(r)
    BY <2>8 DEF MarkSignal, Write
  <2>9. CASE markLiveTradeFailed(r)
    <3>1. trade[r] # "none"
      BY <2>9 DEF markLiveTradeFailed, ReservationHeld, Working, IsActive, Active
    <3>2. QED
      BY <2>9, <3>1 DEF markLiveTradeFailed
  <2> QED
    BY <1>3, <2>1, <2>2, <2>3, <2>4, <2>5, <2>6, <2>7, <2>8, <2>9 DEF Advance
<1>4. CASE Environment
  BY <1>4 DEF Environment, Grant, updateStatus, updateConfig, updateLimits, Midnight
<1>5. CASE UNCHANGED vars
  BY <1>5 DEF vars
<1> QED
  BY <1>1, <1>2, <1>3, <1>4, <1>5 DEF Next

\* Whatever approvals, limits and configuration do meanwhile, an order reaches
\* the worker only for a tradable signal with every approval on record.
THEOREM OnlyApprovedOrders == Spec => []OrdersApproved
<1>1. Init => ApprovalInv
  BY DEF Init, ApprovalInv
<1>2. IInv /\ ApprovalInv /\ [Next]_vars => ApprovalInv'
  BY ApprovalStep DEF IInv
<1>3. ApprovalInv => OrdersApproved
  BY DEF ApprovalInv, OrdersApproved, Approved
<1> QED
  BY <1>1, <1>2, <1>3, Invariance, PTL DEF Spec

-----------------------------------------------------------------------------
(* Books and broker.  What the place a request has reached says about its  *)
(* order, its row and the failures it met.                                 *)

Unanswered == {"refused", "rejected", "partial"}

BooksAt(r) ==
  /\ pc[r] \in Unreserved \cup {"blocked", "logValidation", "logPlace", "send"}
       => order[r] = "none"
  /\ pc[r] \in {"logResponse", "markExecuted", "markSignal"} => order[r] = "filled"
  /\ pc[r] = "markSignal" => trade[r] = "EXECUTED"
  /\ pc[r] \in {"failing", "markFailed"} /\ fault[r] = {} => order[r] \in Unanswered
  /\ pc[r] = "done" /\ fault[r] = {} /\ trade[r] # "EXECUTED"
       => order[r] \in Unanswered \cup {"none"}
  /\ pc[r] \in {"blocked", "done"} /\ trade[r] = "REQUESTED"
       => "write" \in fault[r] \/ "crash" \in fault[r]
  /\ trade[r] = "EXECUTED" => /\ order[r] = "filled"
                              /\ pc[r] \in {"markSignal", "done"} \/ "write" \in fault[r]

BooksInv == \A r \in Requests : BooksAt(r)

\* A failure is remembered with the earlier ones.
LEMMA FaultRecorded ==
  ASSUME TypeOK, NEW r \in Requests, NEW kind, Fails(r, kind)
  PROVE  kind \in fault'[r] /\ fault'[r] # {} /\ \A k \in fault[r] : k \in fault'[r]
BY DEF TypeOK, Fails

\* A step of one request leaves the books of the others alone.
LEMMA BooksOfOthers ==
  ASSUME TypeOK, BooksInv, NEW r \in Requests, BooksAt(r)',
         \A q \in Requests : q # r => /\ pc'[q] = pc[q] /\ order'[q] = order[q]
                                      /\ trade'[q] = trade[q] /\ fault'[q] = fault[q]
  PROVE  BooksInv'
<1> SUFFICES ASSUME NEW q \in Requests, q # r PROVE BooksAt(q)'
  BY DEF BooksInv
<1> QED
  BY DEF BooksInv, BooksAt

LEMMA BooksStep ==
  ASSUME TypeOK, NoRowYet, ReservationHeld, BooksInv, [Next]_vars
  PROVE  BooksInv'
<1> USE DEF TypeOK, Transition, dbVars, readVars
<1>1. ASSUME NEW r \in Requests, Request(r) \/ WrongConfirmation(r) \/ Crash(r)
      PROVE  BooksInv'
  <2>1. BooksAt(r)'
    <3>1. CASE Request(r) \/ WrongConfirmation(r)
      BY <3>1 DEF Request, WrongConfirmation, BooksInv, BooksAt, Unreserved, NoRowYet
    <3>2. CASE Crash(r)
      <4>1. "crash" \in fault'[r] /\ fault'[r] # {}
        BY <3>2, FaultRecorded DEF Crash
      <4>2. pc'[r] = "done" /\ order' = order /\ trade' = trade
        BY <3>2 DEF Crash
      <4> QED
        BY <4>1, <4>2 DEF BooksInv, BooksAt, Unreserved
    <3> QED
      BY <1>1, <3>1, <3>2
  <2> QED
    BY <1>1, <2>1, BooksOfOthers DEF Request, WrongConfirmation, Crash, Fails
<1>2. ASSUME NEW r \in Requests, Worker(r)
      PROVE  BooksInv'
  <2>1. BooksAt(r)'
    BY <1>2 DEF Worker, WorkerRefuses, WorkerFills, WorkerRejects, WorkerFillsPartly,
                WorkerAnswers, BooksInv, BooksAt, Unanswered
  <2> QED
    BY <1>2, <2>1, BooksOfOthers
       DEF Worker, WorkerRefuses, WorkerFills, WorkerRejects, WorkerFillsPartly, WorkerAnswers
<1>3. ASSUME NEW r \in Requests, Advance(r)
      PROVE  BooksInv'
  <2> USE DEF BooksInv, BooksAt, Unanswered, Unreserved, NoRowYet
  <2>1. CASE ReadConfig(r) \/ WrongUser(r) \/ TakeSnapshot(r) \/ Abort(r)
    BY <2>1, BooksOfOthers DEF ReadConfig, WrongUser, TakeSnapshot, Abort
  <2>2. CASE Commit(r)
    <3>1. BooksAt(r)'
      BY <2>2 DEF Commit
    <3> QED
      BY <2>2, <3>1, BooksOfOthers DEF Commit
  <2>3. CASE LogBlocked(r) \/ LogValidation(r) \/ LogPlaceOrder(r)
    <3>1. BooksAt(r)'
      <4>1. CASE LogBlocked(r)
        BY <4>1, FaultRecorded DEF LogBlocked, Write
      <4>2. CASE LogValidation(r)
        BY <4>2, FaultRecorded DEF LogValidation, Write
      <4>3. CASE LogPlaceOrder(r)
        BY <4>3, FaultRecorded DEF LogPlaceOrder, Write
      <4> QED
        BY <2>3, <4>1, <4>2, <4>3
    <3> QED
      BY <2>3, <3>1, BooksOfOthers DEF LogBlocked, LogValidation, LogPlaceOrder, Write, Fails
  <2>4. CASE SendOrder(r) \/ ReceiveAnswer(r) \/ Timeout(r)
    <3>1. BooksAt(r)'
      <4>1. CASE SendOrder(r)
        BY <4>1, FaultRecorded DEF SendOrder, Write
      <4>2. CASE ReceiveAnswer(r)
        BY <4>2, FaultRecorded DEF ReceiveAnswer, Write
      <4>3. CASE Timeout(r)
        BY <4>3, FaultRecorded DEF Timeout, Write
      <4> QED
        BY <2>4, <4>1, <4>2, <4>3
    <3> QED
      BY <2>4, <3>1, BooksOfOthers DEF SendOrder, ReceiveAnswer, Timeout, Write, Fails
  <2>5. CASE LogResponse(r) \/ LogFailed(r)
    <3>1. BooksAt(r)'
      BY <2>5, FaultRecorded DEF LogResponse, LogFailed, Write
    <3> QED
      BY <2>5, <3>1, BooksOfOthers DEF LogResponse, LogFailed, Write, Fails
  <2>6. CASE markLiveTradeExecuted(r) \/ MarkSignal(r) \/ markLiveTradeFailed(r)
    <3>1. BooksAt(r)'
      <4>1. CASE markLiveTradeExecuted(r)
        BY <4>1, FaultRecorded DEF markLiveTradeExecuted, Write
      <4>2. CASE MarkSignal(r)
        BY <4>2, FaultRecorded DEF MarkSignal, Write
      <4>3. CASE markLiveTradeFailed(r)
        BY <4>3, FaultRecorded DEF markLiveTradeFailed, Write
      <4> QED
        BY <2>6, <4>1, <4>2, <4>3
    <3> QED
      BY <2>6, <3>1, BooksOfOthers
         DEF markLiveTradeExecuted, MarkSignal, markLiveTradeFailed, Write, Fails
  <2> QED
    BY <1>3, <2>1, <2>2, <2>3, <2>4, <2>5, <2>6 DEF Advance
<1>4. CASE Environment \/ UNCHANGED vars
  BY <1>4 DEF Environment, Grant, updateStatus, updateConfig, updateLimits, Midnight, vars,
              BooksInv, BooksAt
<1> QED
  BY <1>1, <1>2, <1>3, <1>4 DEF Next

LEMMA BooksInvariance == Spec => []BooksInv
<1>1. Init => BooksInv
  BY DEF Init, BooksInv, BooksAt
<1>2. IInv /\ BooksInv /\ [Next]_vars => BooksInv'
  BY BooksStep DEF IInv
<1> QED
  BY <1>1, <1>2, Invariance, PTL DEF Spec

\* A row is EXECUTED only for a filled order; a filled order without an EXECUTED
\* row met a failure or was filled in part.
THEOREM BooksFollowBroker == Spec => []BooksMatchBroker
<1>1. BooksInv => BooksMatchBroker
  BY DEF BooksInv, BooksAt, BooksMatchBroker, Filled, Unanswered
<1> QED
  BY <1>1, BooksInvariance, PTL

\* Only a crash or a failed write leaves a reservation behind for good.
THEOREM OnlyFaultsStick == Spec => []StuckOnlyByFault
<1>1. BooksInv => StuckOnlyByFault
  BY DEF BooksInv, BooksAt, StuckOnlyByFault
<1> QED
  BY <1>1, BooksInvariance, PTL

-----------------------------------------------------------------------------
(* How a step can change a row.                                            *)

\* Every step leaves the signals alone and either leaves all rows alone or is
\* the commit, the confirmation or the failure of one row.
LEMMA RowSteps ==
  ASSUME TypeOK, NoRowYet, ReservationHeld, [Next]_vars
  PROVE  /\ sig' = sig
         /\ \/ trade' = trade
            \/ \E r \in Requests :
                 \/ /\ Commit(r)
                    /\ trade[r] = "none"
                    /\ trade' = [trade EXCEPT ![r] = "REQUESTED"]
                 \/ /\ IsActive(r)
                    /\ trade' = [trade EXCEPT ![r] = "EXECUTED"]
                 \/ /\ pc[r] = "markFailed"
                    /\ IsActive(r)
                    /\ trade' = [trade EXCEPT ![r] = "FAILED"]
<1> USE DEF TypeOK, Transition, dbVars, readVars, envVars
<1>1. ASSUME NEW r \in Requests, WrongConfirmation(r) \/ Request(r) \/ Crash(r) \/ Worker(r)
      PROVE  sig' = sig /\ trade' = trade
  BY <1>1 DEF WrongConfirmation, Request, Crash, Worker, WorkerRefuses, WorkerFills,
              WorkerRejects, WorkerFillsPartly, WorkerAnswers
<1>2. ASSUME NEW r \in Requests, Commit(r)
      PROVE  sig' = sig /\ trade[r] = "none" /\ trade' = [trade EXCEPT ![r] = "REQUESTED"]
  BY <1>2 DEF Commit, NoRowYet, Unreserved
<1>3. ASSUME NEW r \in Requests, markLiveTradeExecuted(r)
      PROVE  /\ sig' = sig
             /\ \/ trade' = trade
                \/ IsActive(r) /\ trade' = [trade EXCEPT ![r] = "EXECUTED"]
  BY <1>3 DEF markLiveTradeExecuted, Write, ReservationHeld, Working
<1>4. ASSUME NEW r \in Requests, markLiveTradeFailed(r)
      PROVE  /\ sig' = sig
             /\ \/ trade' = trade
                \/ /\ pc[r] = "markFailed"
                   /\ IsActive(r)
                   /\ trade' = [trade EXCEPT ![r] = "FAILED"]
  BY <1>4 DEF markLiveTradeFailed, ReservationHeld, Working
<1>5. ASSUME NEW r \in Requests, Advance(r), ~Commit(r), ~markLiveTradeExecuted(r),
             ~markLiveTradeFailed(r)
      PROVE  sig' = sig /\ trade' = trade
  BY <1>5 DEF Advance, ReadConfig, WrongUser, TakeSnapshot, Abort, LogBlocked, LogValidation,
              LogPlaceOrder, SendOrder, ReceiveAnswer, Timeout, LogResponse, MarkSignal,
              LogFailed
<1>6. CASE Environment \/ UNCHANGED vars
  BY <1>6 DEF Environment, Grant, updateStatus, updateConfig, updateLimits, Midnight, vars
<1> QED
  BY <1>1, <1>2, <1>3, <1>4, <1>5, <1>6 DEF Next

\* FAILED is final, and EXECUTED is lost only by a request that could not write.
THEOREM OutcomesStand == Spec => OutcomeStands
<1>1. ASSUME IInv, BooksInv, [Next]_vars, NEW r \in Requests
      PROVE  /\ trade[r] = "FAILED" => trade'[r] = "FAILED"
             /\ trade[r] = "EXECUTED" /\ trade'[r] # "EXECUTED" => "write" \in fault[r]
  BY <1>1, RowSteps DEF IInv, TypeOK, BooksInv, BooksAt, IsActive, Active
<1>2. IInv /\ BooksInv /\ [Next]_vars =>
        [\A r \in Requests :
           /\ trade[r] = "FAILED" => trade'[r] = "FAILED"
           /\ trade[r] = "EXECUTED" /\ trade'[r] # "EXECUTED" => "write" \in fault[r]]_vars
  BY <1>1
<1> QED
  BY <1>2, Invariance, BooksInvariance, PTL DEF Spec, OutcomeStands

-----------------------------------------------------------------------------
(* The limit of the day.  The active rows that a request about to commit   *)
(* counts, or would count now but for those it missed, are fewer than its  *)
(* limit.  A missed row of the day of its own row is a conflict: the two   *)
(* reservations each read the other's count.                               *)

Rows == {q \in Requests : trade[q] # "none"}

Stamped == \A q \in Rows : createdOn[q] >= since[q]

\* The rows that the count of r still stands for.
Kept(r) == {q \in Requests \ missed[r] : IsActive(q) /\ createdOn[q] >= since[r]}

RoomLeft == \A r \in Requests : pc[r] = "reserve" => Cardinality(Kept(r)) < quota[r]

QuotaInv == IsFiniteSet(Rows) /\ Stamped /\ RoomLeft

LEMMA KeptFinite ==
  ASSUME IsFiniteSet(Rows), NEW r \in Requests
  PROVE  IsFiniteSet(Kept(r))
<1>1. Kept(r) \subseteq Rows
  BY DEF Kept, Rows, IsActive, Active
<1> QED
  BY <1>1, FS_Subset

\* A limit that was kept is kept by fewer rows.
LEMMA FewerKept ==
  ASSUME IsFiniteSet(Rows), TypeOK, NEW r \in Requests, Cardinality(Kept(r)) < quota[r],
         NEW S, S \subseteq Kept(r)
  PROVE  Cardinality(S) < quota[r]
<1>1. IsFiniteSet(Kept(r)) /\ IsFiniteSet(S) /\ Cardinality(S) <= Cardinality(Kept(r))
  BY KeptFinite, FS_Subset
<1>2. Cardinality(S) \in Nat /\ Cardinality(Kept(r)) \in Nat /\ quota[r] \in Nat
  BY <1>1, FS_CardinalityType DEF TypeOK
<1> QED
  BY <1>1, <1>2

\* Rows are added one at a time and keep the day they were created on.
LEMMA RowsStep ==
  ASSUME IInv, IsFiniteSet(Rows), [Next]_vars
  PROVE  IsFiniteSet(Rows')
<1>1. Rows' \subseteq Rows \/ \E r \in Requests : Rows' \subseteq Rows \cup {r}
  BY RowSteps DEF IInv, TypeOK, Rows, IsActive, Active
<1>2. ASSUME NEW r \in Requests, Rows' \subseteq Rows \cup {r} PROVE IsFiniteSet(Rows')
  <2>1. IsFiniteSet(Rows \cup {r})
    BY FS_AddElement
  <2> QED
    BY <1>2, <2>1, FS_Subset
<1> QED
  BY <1>1, <1>2, FS_Subset

\* What a step other than a snapshot and a commit leaves alone.
LEMMA CountsStay ==
  ASSUME [Next]_vars, \A r \in Requests : ~TakeSnapshot(r) /\ ~Commit(r)
  PROVE  UNCHANGED <<createdOn, since, quota>>
<1> USE DEF dbVars, readVars
<1>1. ASSUME NEW r \in Requests, WrongConfirmation(r) \/ Request(r) \/ Crash(r) \/ Worker(r)
      PROVE  UNCHANGED <<createdOn, since, quota>>
  BY <1>1 DEF WrongConfirmation, Request, Crash, Worker, WorkerRefuses, WorkerFills,
              WorkerRejects, WorkerFillsPartly, WorkerAnswers
<1>2. ASSUME NEW r \in Requests, Advance(r)
      PROVE  UNCHANGED <<createdOn, since, quota>>
  BY <1>2 DEF Advance, ReadConfig, WrongUser, Abort, LogBlocked, LogValidation, LogPlaceOrder,
              SendOrder, ReceiveAnswer, Timeout, LogResponse, markLiveTradeExecuted, MarkSignal,
              LogFailed, markLiveTradeFailed
<1>3. CASE Environment \/ UNCHANGED vars
  BY <1>3 DEF Environment, Grant, updateStatus, updateConfig, updateLimits, Midnight, vars
<1> QED
  BY <1>1, <1>2, <1>3 DEF Next

\* Steps that are not one of the request's snapshots or commits.
LEMMA QuietWithoutCommit ==
  ASSUME IInv, [Next]_vars, \A r \in Requests : ~TakeSnapshot(r) /\ ~Commit(r)
  PROVE  Quiet
<1>1. ASSUME NEW r \in Requests, WrongConfirmation(r) \/ Request(r) \/ Crash(r) \/ Worker(r)
      PROVE  Quiet
  BY <1>1 DEF IInv, TypeOK, Quiet, IsActive, Transition, dbVars, readVars,
              WrongConfirmation, Request, Crash, Worker, WorkerRefuses, WorkerFills,
              WorkerRejects, WorkerFillsPartly, WorkerAnswers
<1>2. CASE Environment \/ UNCHANGED vars
  BY <1>2 DEF Environment, Grant, updateStatus, updateConfig, updateLimits, Midnight,
              Quiet, IsActive, vars, dbVars, readVars
<1>3. ASSUME NEW r \in Requests, Advance(r) PROVE Quiet
  BY <1>3, LaterStepQuiet DEF IInv
<1> QED
  BY <1>1, <1>2, <1>3 DEF Next

LEMMA QuotaSnapshot ==
  ASSUME IInv, QuotaInv, NEW r \in Requests, TakeSnapshot(r)
  PROVE  Stamped' /\ RoomLeft'
<1>0. /\ pc \in [Requests -> PCs] /\ since \in [Requests -> 0..MaxDay]
      /\ quota \in [Requests -> Nat] /\ TypeOK
  BY DEF IInv, TypeOK
<1>1. /\ pc[r] = "snapshot" /\ UNCHANGED <<trade, createdOn, missed>>
      /\ \A q \in Requests : q # r =>
           pc'[q] = pc[q] /\ since'[q] = since[q] /\ quota'[q] = quota[q]
  BY <1>0 DEF TakeSnapshot, Transition, dbVars
<1>2. Stamped'
  <2>1. r \notin Rows
    BY <1>1 DEF Rows, IInv, NoRowYet, Unreserved
  <2> QED
    BY <1>1, <2>1 DEF Stamped, Rows, QuotaInv
<1>3. ASSUME NEW q \in Requests, pc'[q] = "reserve" PROVE Cardinality(Kept(q)') < quota'[q]
  <2>1. CASE q = r
    <3>1. Permitted(r) /\ since'[r] = day /\ quota'[r] = limits.maxDaily
      BY <1>0, <1>1, <1>3, <2>1 DEF TakeSnapshot, Transition
    <3>2. Kept(r)' \subseteq ActiveSince(day)
      BY <1>1, <3>1 DEF Kept, ActiveSince, IsActive
    <3>3. IsFiniteSet(ActiveSince(day))
      <4>1. ActiveSince(day) \subseteq Rows
        BY DEF ActiveSince, Rows, IsActive, Active
      <4> QED
        BY <4>1, FS_Subset DEF QuotaInv
    <3>4. Cardinality(Kept(r)') <= Cardinality(ActiveSince(day)) /\ IsFiniteSet(Kept(r)')
      BY <3>2, <3>3, FS_Subset
    <3>5. Cardinality(ActiveSince(day)) < limits.maxDaily /\ limits.maxDaily \in Nat
      BY <3>1, LiveTradingAssumption DEF Permitted, IInv, TypeOK, LimitRows
    <3>6. Cardinality(Kept(r)') \in Nat /\ Cardinality(ActiveSince(day)) \in Nat
      BY <3>3, <3>4, FS_CardinalityType
    <3> QED
      BY <2>1, <3>1, <3>4, <3>5, <3>6
  <2>2. CASE q # r
    <3>1. Kept(q)' = Kept(q)
      BY <1>1, <2>2 DEF Kept, IsActive
    <3> QED
      BY <1>1, <1>3, <2>2, <3>1 DEF QuotaInv, RoomLeft
  <2> QED
    BY <2>1, <2>2
<1> QED
  BY <1>2, <1>3 DEF RoomLeft

LEMMA QuotaCommit ==
  ASSUME IInv, QuotaInv, NEW r \in Requests, Commit(r)
  PROVE  Stamped' /\ RoomLeft'
<1>0. /\ pc \in [Requests -> PCs] /\ since \in [Requests -> 0..MaxDay] /\ day \in 0..MaxDay
      /\ trade \in [Requests -> {"none", "REQUESTED", "EXECUTED", "FAILED"}]
      /\ createdOn \in [Requests -> 0..MaxDay] /\ TypeOK /\ MaxDay \in Nat
  BY LiveTradingAssumption DEF IInv, TypeOK
<1>1. PICK d \in CreationDays(r) : createdOn' = [createdOn EXCEPT ![r] = d]
  BY DEF Commit
<1>2. d >= since[r]
  BY <1>0 DEF CreationDays
<1>3. /\ pc[r] = "reserve" /\ pc'[r] = "logValidation" /\ UNCHANGED <<since, quota>>
      /\ trade' = [trade EXCEPT ![r] = "REQUESTED"]
      /\ \A q \in Requests : q # r =>
           /\ pc'[q] = pc[q] /\ trade'[q] = trade[q] /\ createdOn'[q] = createdOn[q]
           /\ pc[q] = "reserve" => missed'[q] = missed[q] \cup {r}
  BY <1>0, <1>1 DEF Commit, Transition
<1>4. Stamped'
  BY <1>0, <1>1, <1>2, <1>3 DEF Stamped, Rows, QuotaInv
<1>5. ASSUME NEW q \in Requests, pc'[q] = "reserve" PROVE Cardinality(Kept(q)') < quota'[q]
  <2>1. q # r
    BY <1>3, <1>5
  <2>2. Kept(q)' \subseteq Kept(q)
    BY <1>3, <1>5, <2>1 DEF Kept, IsActive
  <2> QED
    BY <1>0, <1>3, <1>5, <2>1, <2>2, FewerKept DEF QuotaInv, RoomLeft
<1> QED
  BY <1>4, <1>5 DEF RoomLeft

LEMMA QuotaQuiet ==
  ASSUME IInv, QuotaInv, [Next]_vars, \A r \in Requests : ~TakeSnapshot(r) /\ ~Commit(r)
  PROVE  Stamped' /\ RoomLeft'
<1>1. Quiet /\ UNCHANGED <<createdOn, since, quota>>
  BY QuietWithoutCommit, CountsStay
<1>2. Rows' \subseteq Rows
  BY RowSteps DEF IInv, TypeOK, Rows, IsActive, Active
<1>3. Stamped'
  BY <1>1, <1>2 DEF Stamped, Rows, QuotaInv
<1>4. ASSUME NEW r \in Requests, pc'[r] = "reserve" PROVE Cardinality(Kept(r)') < quota'[r]
  <2>1. pc[r] = "reserve" /\ Kept(r)' \subseteq Kept(r)
    BY <1>1, <1>4 DEF Quiet, Kept
  <2> QED
    BY <1>1, <2>1, FewerKept DEF IInv, QuotaInv, RoomLeft
<1> QED
  BY <1>3, <1>4 DEF RoomLeft

LEMMA QuotaStep == IInv /\ QuotaInv /\ [Next]_vars => QuotaInv'
<1> SUFFICES ASSUME IInv, QuotaInv, [Next]_vars PROVE QuotaInv'
  OBVIOUS
<1>1. Stamped' /\ RoomLeft'
  BY QuotaSnapshot, QuotaCommit, QuotaQuiet
<1>2. IsFiniteSet(Rows)'
  BY RowsStep DEF QuotaInv
<1> QED
  BY <1>1, <1>2 DEF QuotaInv

LEMMA QuotaInvariance == Spec => []QuotaInv
<1>1. Init => QuotaInv
  <2>1. ASSUME Init PROVE Rows = {}
    BY <2>1 DEF Init, Rows
  <2> QED
    BY <2>1, FS_EmptySet DEF Init, QuotaInv, Stamped, RoomLeft
<1> QED
  BY <1>1, QuotaStep, Invariance, PTL DEF Spec

\* The new row of a commit and the others of its day are within the limit.
LEMMA CommitWithinLimit ==
  ASSUME IInv, QuotaInv, NEW r \in Requests, Commit(r)
  PROVE  Cardinality({q \in Requests : trade'[q] \in Active
                                        /\ createdOn'[q] = createdOn'[r]}) <= quota[r]
<1> DEFINE Day == {q \in Requests : trade'[q] \in Active /\ createdOn'[q] = createdOn'[r]}
<1>0. /\ since \in [Requests -> 0..MaxDay] /\ day \in 0..MaxDay
      /\ trade \in [Requests -> {"none", "REQUESTED", "EXECUTED", "FAILED"}]
      /\ createdOn \in [Requests -> 0..MaxDay] /\ TypeOK /\ MaxDay \in Nat
  BY LiveTradingAssumption DEF IInv, TypeOK
<1>1. PICK d \in CreationDays(r) :
        ~Conflict(r, d) /\ createdOn' = [createdOn EXCEPT ![r] = d]
  BY DEF Commit
<1>2. d >= since[r] /\ createdOn'[r] = d
  BY <1>0, <1>1 DEF CreationDays
<1>3. pc[r] = "reserve" /\ trade' = [trade EXCEPT ![r] = "REQUESTED"]
  BY DEF Commit, Transition
<1>4. Day \ {r} \subseteq Kept(r)
  <2>1. ASSUME NEW q \in Day, q # r PROVE q \in Kept(r)
    <3>1. IsActive(q) /\ createdOn[q] = d
      BY <1>0, <1>1, <1>2, <1>3, <2>1 DEF IsActive
    <3>2. createdOn[q] >= since[q]
      BY <3>1 DEF QuotaInv, Stamped, Rows, IsActive, Active
    <3>3. q \notin missed[r]
      BY <1>1, <1>2, <3>1, <3>2 DEF Conflict, Reads
    <3> QED
      BY <1>2, <3>1, <3>3 DEF Kept
  <2> QED
    BY <2>1
<1>5. Cardinality(Day \ {r}) < quota[r]
  BY <1>0, <1>3, <1>4, FewerKept DEF QuotaInv, RoomLeft
<1>6. IsFiniteSet(Day \ {r})
  BY <1>4, KeptFinite, FS_Subset DEF QuotaInv
<1>7. r \in Day /\ Day = (Day \ {r}) \cup {r}
  BY <1>0, <1>3 DEF Active
<1>8. Cardinality(Day) = Cardinality(Day \ {r}) + 1
  BY <1>6, <1>7, FS_AddElement
<1>9. Cardinality(Day \ {r}) \in Nat /\ quota[r] \in Nat
  BY <1>0, <1>6, FS_CardinalityType DEF TypeOK
<1> QED
  BY <1>5, <1>8, <1>9

\* The trades of a day never exceed the limit that the reserving request read,
\* with any number of requests that count and insert at the same time.
THEOREM QuotaRespected == Spec => ReservationsWithinLimit
<1>1. ASSUME IInv, QuotaInv, [Next]_vars, NEW r \in Requests,
             trade[r] = "none", trade'[r] = "REQUESTED"
      PROVE  Cardinality({q \in Requests : trade'[q] \in Active
                                            /\ createdOn'[q] = createdOn'[r]}) <= quota[r]
  <2>1. Commit(r)
    BY <1>1, RowSteps DEF IInv, TypeOK, IsActive, Active
  <2> QED
    BY <1>1, <2>1, CommitWithinLimit
<1>2. IInv /\ QuotaInv /\ [Next]_vars =>
        [\A r \in Requests :
           trade[r] = "none" /\ trade'[r] = "REQUESTED" =>
             Cardinality({q \in Requests : trade'[q] \in Active
                                            /\ createdOn'[q] = createdOn'[r]}) <= quota[r]]_vars
  BY <1>1
<1> QED
  BY <1>2, Invariance, QuotaInvariance, PTL DEF Spec, ReservationsWithinLimit

-----------------------------------------------------------------------------
(* Refinement of LiveSlot.                                                 *)

\* Whoever is active on a symbol is its holder; without anyone it is free.
LEMMA HolderIsActive ==
  ASSUME OneActivePerSymbol, NEW r \in Requests, IsActive(r)
  PROVE  HolderOf(Symbol(r)) = r
<1>1. \A q \in Requests : IsActive(q) /\ Symbol(q) = Symbol(r) <=> q = r
  BY DEF OneActivePerSymbol
<1>2. (CHOOSE q \in Requests : IsActive(q) /\ Symbol(q) = Symbol(r)) = r
  BY <1>1
<1> QED
  BY <1>1, <1>2 DEF HolderOf

LEMMA FreeWithoutActive ==
  ASSUME NEW y, \A r \in Requests : IsActive(r) => Symbol(r) # y
  PROVE  HolderOf(y) = NoOne
BY DEF HolderOf

\* The holder of a symbol depends on who is active on which symbol only.
LEMMA HolderUnchanged ==
  ASSUME NEW y, \A r \in Requests :
           (IsActive(r) /\ Symbol(r) = y)' <=> IsActive(r) /\ Symbol(r) = y
  PROVE  HolderOf(y)' = HolderOf(y)
<1>1. (\E r \in Requests : IsActive(r) /\ Symbol(r) = y)'
        <=> \E r \in Requests : IsActive(r) /\ Symbol(r) = y
  OBVIOUS
<1>2. (CHOOSE r \in Requests : IsActive(r) /\ Symbol(r) = y)'
        = CHOOSE r \in Requests : IsActive(r) /\ Symbol(r) = y
  OBVIOUS
<1> QED
  BY <1>1, <1>2 DEF HolderOf

\* The first two facts, of the next state.
LEMMA NextHolder ==
  ASSUME NEW r \in Requests, NEW y,
         \A q \in Requests : (IsActive(q) /\ Symbol(q) = y)' <=> q = r
  PROVE  HolderOf(y)' = r
<1>1. (CHOOSE q \in Requests : IsActive(q) /\ Symbol(q) = y)'
        = CHOOSE q \in Requests : q = r
  OBVIOUS
<1>2. (\E q \in Requests : IsActive(q) /\ Symbol(q) = y)'
  OBVIOUS
<1> QED
  BY <1>1, <1>2 DEF HolderOf

LEMMA NextFree ==
  ASSUME NEW y, \A q \in Requests : ~(IsActive(q) /\ Symbol(q) = y)'
  PROVE  HolderOf(y)' = NoOne
BY DEF HolderOf

\* Nobody who is not active holds a symbol.
LEMMA HolderHasRow ==
  ASSUME NEW r \in Requests, NEW y, HolderOf(y) = r
  PROVE  IsActive(r)
<1>1. \E q \in Requests : IsActive(q) /\ Symbol(q) = y
  BY LiveTradingAssumption DEF HolderOf
<1> QED
  BY <1>1 DEF HolderOf

\* Every step of the service is a claim, a release or a stutter of LiveSlot.
LEMMA SlotStep ==
  ASSUME IInv, [Next]_vars
  PROVE  [Slot!Next]_(Slot!slotVars)
<1> USE DEF TypeOK, IsActive, Active, Symbol
<1>1. TypeOK /\ OneActivePerSymbol /\ SnapshotSound
  BY DEF IInv
<1>2. sig' = sig
  BY RowSteps DEF IInv
<1>3. ASSUME trade' = trade PROVE UNCHANGED Slot!slotVars
  <2>1. \A y \in Symbols : HolderOf(y)' = HolderOf(y)
    BY <1>2, <1>3, HolderUnchanged
  <2> QED
    BY <1>3, <2>1 DEF Slot!slotVars
<1>4. ASSUME NEW r \in Requests, IsActive(r), trade' = [trade EXCEPT ![r] = "EXECUTED"]
      PROVE  UNCHANGED Slot!slotVars
  <2>1. \A q \in Requests : IsActive(q)' <=> IsActive(q)
    BY <1>1, <1>4
  <2>2. \A y \in Symbols : HolderOf(y)' = HolderOf(y)
    BY <1>2, <2>1, HolderUnchanged
  <2>3. \A q \in Requests : trade'[q] = "FAILED" <=> trade[q] = "FAILED"
    BY <1>1, <1>4
  <2> QED
    BY <2>2, <2>3 DEF Slot!slotVars
<1>5. ASSUME NEW r \in Requests, Commit(r), trade[r] = "none",
             trade' = [trade EXCEPT ![r] = "REQUESTED"]
      PROVE  \E y \in Symbols : Slot!Claim(r, y)
  <2>1. PICK y \in Symbols : y = Symbol(r)
    BY <1>1, LiveTradingAssumption
  <2>2. \A q \in Requests : IsActive(q) => Symbol(q) # y
    BY <1>1, <1>5, <2>1, CommitFindsFree
  <2>3. HolderOf(y) = NoOne
    BY <2>2, FreeWithoutActive
  <2>4. \A q \in Requests : IsActive(q)' <=> IsActive(q) \/ q = r
    BY <1>1, <1>5
  <2>5. HolderOf(y)' = r
    <3>1. \A q \in Requests : (IsActive(q) /\ Symbol(q) = y)' <=> q = r
      BY <1>2, <2>1, <2>2, <2>4
    <3> QED
      BY <3>1, NextHolder
  <2>6. ASSUME NEW z \in Symbols, z # y PROVE HolderOf(z)' = HolderOf(z)
    BY <1>2, <2>1, <2>4, <2>6, HolderUnchanged
  <2>7. \A z \in Symbols : HolderOf(z) # r
    BY <1>5, HolderHasRow
  <2>8. [z \in Symbols |-> HolderOf(z)]'
          = [[z \in Symbols |-> HolderOf(z)] EXCEPT ![y] = r]
    BY <2>5, <2>6
  <2>9. {q \in Requests : trade[q] = "FAILED"}' = {q \in Requests : trade[q] = "FAILED"}
    BY <1>1, <1>5
  <2> HIDE DEF IsActive, Symbol
  <2> QED
    BY <1>5, <2>3, <2>7, <2>8, <2>9 DEF Slot!Claim
<1>6. ASSUME NEW r \in Requests, IsActive(r), trade' = [trade EXCEPT ![r] = "FAILED"]
      PROVE  \E y \in Symbols : Slot!Release(r, y)
  <2>1. PICK y \in Symbols : y = Symbol(r)
    BY <1>1, LiveTradingAssumption
  <2>2. HolderOf(y) = r
    BY <1>1, <1>6, <2>1, HolderIsActive
  <2>3. \A q \in Requests : IsActive(q)' <=> IsActive(q) /\ q # r
    BY <1>1, <1>6
  <2>4. HolderOf(y)' = NoOne
    <3>1. \A q \in Requests : IsActive(q) /\ q # r => Symbol(q) # y
      BY <1>1, <1>6, <2>1 DEF OneActivePerSymbol
    <3> QED
      BY <1>2, <2>3, <3>1, NextFree
  <2>5. ASSUME NEW z \in Symbols, z # y PROVE HolderOf(z)' = HolderOf(z)
    BY <1>2, <2>1, <2>3, <2>5, HolderUnchanged
  <2>6. [z \in Symbols |-> HolderOf(z)]'
          = [[z \in Symbols |-> HolderOf(z)] EXCEPT ![y] = NoOne]
    BY <2>4, <2>5
  <2>7. {q \in Requests : trade[q] = "FAILED"}'
          = {q \in Requests : trade[q] = "FAILED"} \cup {r}
    BY <1>1, <1>6
  <2> HIDE DEF IsActive, Symbol
  <2> QED
    BY <2>2, <2>6, <2>7 DEF Slot!Release
<1>7. \/ trade' = trade
      \/ \E r \in Requests :
           \/ Commit(r) /\ trade[r] = "none" /\ trade' = [trade EXCEPT ![r] = "REQUESTED"]
           \/ IsActive(r) /\ trade' = [trade EXCEPT ![r] = "EXECUTED"]
           \/ IsActive(r) /\ trade' = [trade EXCEPT ![r] = "FAILED"]
  BY RowSteps DEF IInv
<1> HIDE DEF TypeOK, IsActive, Symbol
<1>8. (\E r \in Requests, y \in Symbols : Slot!Claim(r, y) \/ Slot!Release(r, y))
        \/ UNCHANGED Slot!slotVars
  BY <1>3, <1>4, <1>5, <1>6, <1>7
<1> QED
  BY <1>8 DEF Slot!Next

\* The live-trading service implements LiveSlot: claims are exclusive, a symbol
\* is free before it changes hands, and a failed request never claims again.
THEOREM ImplementsSlot == Spec => SlotSpec
<1>1. Init => Slot!Init
  BY FreeWithoutActive DEF Init, Slot!Init, IsActive, Active
<1>2. IInv /\ [Next]_vars => [Slot!Next]_(Slot!slotVars)
  BY SlotStep
<1> QED
  BY <1>1, <1>2, Invariance, PTL DEF Spec, SlotSpec, Slot!Spec
=============================================================================
