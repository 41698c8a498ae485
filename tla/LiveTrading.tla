----------------------------- MODULE LiveTrading -----------------------------
(***************************************************************************)
(* Limited live execution: the live-trading service with its guard, the    *)
(* broker service and MT5 connector it calls, the MT5 worker's order       *)
(* endpoint, and the administrators' updates of the system configuration   *)
(* and of the live limits.                                                 *)
(*                                                                         *)
(* A request is one call of POST /live-trading/signals/:id/execute; the    *)
(* backend runs on several instances, so requests interleave at every      *)
(* await.  A request creates at most one LiveTrade row, so the table is a  *)
(* function of the request.  Two things are read by the guard at different *)
(* times: the system configuration through the plain Prisma client         *)
(* (ReadConfig), everything else in the snapshot of a Serializable         *)
(* transaction (TakeSnapshot) that Postgres commits only if no other       *)
(* reservation it conflicts with committed meanwhile (Commit).             *)
(***************************************************************************)
EXTENDS Naturals, FiniteSets

CONSTANTS
  Requests,       \* calls of the execute endpoint
  Signals,        \* trading signals
  Symbols,        \* broker symbols
  SymbolOf,       \* Signals -> Symbols: brokerSymbol ?? symbol of the instrument
  VolumeOf,       \* Signals -> Nat: position size of the approved risk assessment
  Tradable,       \* signals with a BUY or SELL direction, a stop loss and a take profit
  Approvals,      \* records the guard asks for: risk, supervisor and manual approval
  LimitSettings,  \* the rows an administrator may store as live limits
  MaxDay,         \* bound on the number of midnights that pass
  NoOne           \* stands for "no request" where a holder is named

\* The rows a live-limits update can store.
LimitRows ==
  [active : BOOLEAN, maxDaily : Nat, maxLoss : Nat, maxVolume : Nat,
   allowed : SUBSET Symbols]

ASSUME LiveTradingAssumption ==
  /\ SymbolOf \in [Signals -> Symbols]
  /\ VolumeOf \in [Signals -> Nat]
  /\ Tradable \subseteq Signals
  /\ LimitSettings \subseteq LimitRows
  /\ MaxDay \in Nat
  /\ NoOne \notin Requests

VARIABLES
  pc,             \* where each request is
  sig,            \* the signal each request is for
  trade,          \* status of the LiveTrade row of each request
  createdOn,      \* day of the row's createdAt
  since,          \* the dayStart the guard computed for the request
  quota,          \* the maxDailyLiveTrades the guard read for the request
  missed,         \* reservations committed since the request's snapshot
  order,          \* what became of the order of each request at the worker
  fault,          \* kinds of failure the request met
  liveExecuted,   \* signals whose status is LIVE_EXECUTED
  granted,        \* signal -> approvals on record
  config,         \* the SystemConfig row
  limits,         \* the LiveTradingLimits row
  flags,          \* environment flags of the backend and of the worker
  day             \* local day

dbVars == <<trade, createdOn, liveExecuted>>
readVars == <<since, quota, missed>>
envVars == <<granted, config, limits, flags, day>>
vars == <<pc, sig, dbVars, readVars, order, fault, envVars>>

Active == {"REQUESTED", "EXECUTED"}
Filled == {"filled", "partial"}

PCs == {"idle", "config", "snapshot", "reserve", "blocked", "logValidation",
        "logPlace", "send", "await", "logResponse", "markExecuted",
        "markSignal", "failing", "markFailed", "done"}

\* A request that owns a reservation and has not finished with it.
Working == {"logValidation", "logPlace", "send", "await", "logResponse",
            "markExecuted", "markSignal", "failing", "markFailed"}

TypeOK ==
  /\ pc \in [Requests -> PCs]
  /\ sig \in [Requests -> Signals]
  /\ trade \in [Requests -> {"none", "REQUESTED", "EXECUTED", "FAILED"}]
  /\ createdOn \in [Requests -> 0..MaxDay]
  /\ since \in [Requests -> 0..MaxDay]
  /\ quota \in [Requests -> Nat]
  /\ missed \in [Requests -> SUBSET Requests]
  /\ order \in [Requests -> {"none", "sent", "refused", "rejected"} \cup Filled]
  /\ fault \in [Requests -> SUBSET {"write", "net", "crash"}]
  /\ liveExecuted \subseteq Signals
  /\ granted \in [Signals -> SUBSET Approvals]
  /\ config \in [killSwitch : BOOLEAN, liveMode : BOOLEAN]
  /\ limits \in LimitSettings
  /\ flags \in [backend : BOOLEAN, worker : BOOLEAN]
  /\ day \in 0..MaxDay

Init ==
  /\ pc = [r \in Requests |-> "idle"]
  /\ sig \in [Requests -> Signals]
  /\ trade = [r \in Requests |-> "none"]
  /\ createdOn = [r \in Requests |-> 0]
  /\ since = [r \in Requests |-> 0]
  /\ quota = [r \in Requests |-> 0]
  /\ missed = [r \in Requests |-> {}]
  /\ order = [r \in Requests |-> "none"]
  /\ fault = [r \in Requests |-> {}]
  /\ liveExecuted = {}
  /\ granted = [s \in Signals |-> {}]
  /\ config = [killSwitch |-> FALSE, liveMode |-> TRUE]
  /\ limits \in LimitSettings
  /\ flags \in [backend : BOOLEAN, worker : BOOLEAN]
  /\ day = 0

-----------------------------------------------------------------------------
(* Helpers                                                                 *)

Symbol(r) == SymbolOf[sig[r]]
IsActive(r) == trade[r] \in Active

Transition(r, from, to) ==
  /\ pc[r] = from
  /\ pc' = [pc EXCEPT ![r] = to]

Fails(r, kind) == fault' = [fault EXCEPT ![r] = @ \cup {kind}]

\* A database write of the request: it goes through and the request moves to
\* next, or it throws and the enclosing catch, at handler, takes over.
Write(r, from, next, handler) ==
  \/ Transition(r, from, next) /\ UNCHANGED fault
  \/ Transition(r, from, handler) /\ Fails(r, "write")

\* Variant: the count takes the rows after the first moment of the next day.
ActiveAfter(d) == {q \in Requests : IsActive(q) /\ createdOn[q] > d}

ActiveSince(d) == {q \in Requests : IsActive(q) /\ createdOn[q] >= d}

\* The loss of the day sums the rows with status CLOSED; no statement of the
\* program writes that status, so the sum is over no rows.
DailyLoss == 0

\* The reads of the guard inside the transaction.
Permitted(r) ==
  /\ sig[r] \notin liveExecuted
  /\ sig[r] \in Tradable
  /\ granted[sig[r]] = Approvals
  /\ \A q \in Requests : IsActive(q) => sig[q] # sig[r]
  /\ limits.active
  /\ Symbol(r) \in limits.allowed
  /\ VolumeOf[sig[r]] <= limits.maxVolume
  /\ \A q \in Requests : IsActive(q) => Symbol(q) # Symbol(r)
  /\ Cardinality(ActiveSince(day)) < limits.maxDaily
  /\ DailyLoss < limits.maxLoss

\* The predicates r's transaction read with match the row q created on day d.
Reads(r, q, d) == sig[q] = sig[r] \/ Symbol(q) = Symbol(r) \/ d >= since[r]

\* Variant: the transaction runs at the default isolation level.
ReadCommittedConflict(r, d) == FALSE

\* Postgres cannot order r's transaction, with its row created on day d, among
\* the committed ones: it and a reservation made meanwhile each missed a row
\* the other wrote.
Conflict(r, d) ==
  \E q \in missed[r] : Reads(r, q, createdOn[q]) /\ Reads(q, r, d)

-----------------------------------------------------------------------------
(* The request, up to its reservation                                      *)

\* The confirmation text is wrong: a BLOCKED entry is logged and the call ends.
WrongConfirmation(r) ==
  /\ Transition(r, "idle", "done")
  /\ UNCHANGED <<sig, dbVars, readVars, order, fault, envVars>>

Request(r) ==
  /\ Transition(r, "idle", "config")
  /\ UNCHANGED <<sig, dbVars, readVars, order, fault, envVars>>

\* Environment flags and system configuration, read outside the transaction.
ReadConfig(r) ==
  /\ \/ /\ flags.backend /\ ~config.killSwitch /\ config.liveMode
        /\ Transition(r, "config", "snapshot")
     \/ /\ ~(flags.backend /\ ~config.killSwitch /\ config.liveMode)
        /\ Transition(r, "config", "blocked")
  /\ UNCHANGED <<sig, dbVars, readVars, order, fault, envVars>>

\* The user is unknown or no administrator any more.
WrongUser(r) ==
  /\ Transition(r, "snapshot", "blocked")
  /\ UNCHANGED <<sig, dbVars, readVars, order, fault, envVars>>

\* All other reads of the guard, in the snapshot of the transaction.
TakeSnapshot(r) ==
  /\ \/ /\ Permitted(r)
        /\ Transition(r, "snapshot", "reserve")
        /\ since' = [since EXCEPT ![r] = day]
        /\ quota' = [quota EXCEPT ![r] = limits.maxDaily]
     \/ /\ ~Permitted(r)
        /\ Transition(r, "snapshot", "blocked")
        /\ UNCHANGED <<since, quota>>
  /\ UNCHANGED <<sig, dbVars, missed, order, fault, envVars>>

\* The days the row's createdAt may fall on, and a variant that stamps it in the
\* time of a zone that is ahead.
CreationDaysAhead(r) == (since[r] + 1)..(day + 1)
CreationDays(r) == since[r]..day

\* The row is created and the transaction commits.  createdAt is taken when
\* the row is created, on a day between the snapshot's and today.
Commit(r) ==
  /\ Transition(r, "reserve", "logValidation")
  /\ \E d \in CreationDays(r) :
       /\ ~Conflict(r, d)
       /\ createdOn' = [createdOn EXCEPT ![r] = d]
  /\ trade' = [trade EXCEPT ![r] = "REQUESTED"]
  /\ missed' = [q \in Requests |->
                  IF q = r THEN {}
                  ELSE IF pc[q] = "reserve" THEN missed[q] \cup {r}
                  ELSE missed[q]]
  /\ UNCHANGED <<sig, liveExecuted, since, quota, order, fault, envVars>>

\* Postgres aborts the transaction: P2034, which it must report on a conflict
\* and may report without one.
Abort(r) ==
  /\ Transition(r, "reserve", "blocked")
  /\ missed' = [missed EXCEPT ![r] = {}]
  /\ UNCHANGED <<sig, dbVars, since, quota, order, fault, envVars>>

\* The catch of the reservation: the BLOCKED entry is logged and the error
\* thrown; when the entry cannot be logged another error is.
LogBlocked(r) ==
  /\ Write(r, "blocked", "done", "done")
  /\ UNCHANGED <<sig, dbVars, readVars, order, envVars>>

\* The VALIDATION entry is logged inside the same try, after the commit.
LogValidation(r) ==
  /\ Write(r, "logValidation", "logPlace", "blocked")
  /\ UNCHANGED <<sig, dbVars, readVars, order, envVars>>

\* The PLACE_ORDER entry is logged outside of both tries.
LogPlaceOrder(r) ==
  /\ Write(r, "logPlace", "send", "done")
  /\ UNCHANGED <<sig, dbVars, readVars, order, envVars>>

-----------------------------------------------------------------------------
(* The broker                                                              *)

\* The connector posts the order: it reaches the worker, or the worker is
\* unreachable.
SendOrder(r) ==
  /\ \/ /\ Transition(r, "send", "await")
        /\ order' = [order EXCEPT ![r] = "sent"]
        /\ UNCHANGED fault
     \/ /\ Transition(r, "send", "failing")
        /\ Fails(r, "net")
        /\ UNCHANGED order
  /\ UNCHANGED <<sig, dbVars, readVars, envVars>>

\* The worker handles a posted order, whether or not the caller still waits.
WorkerAnswers(r, outcome) ==
  /\ order[r] = "sent"
  /\ order' = [order EXCEPT ![r] = outcome]
  /\ UNCHANGED <<pc, sig, dbVars, readVars, fault, envVars>>

WorkerRefuses(r) == ~flags.worker /\ WorkerAnswers(r, "refused")
WorkerFills(r)   == flags.worker /\ WorkerAnswers(r, "filled")
WorkerRejects(r) == flags.worker /\ WorkerAnswers(r, "rejected")

\* A return code other than DONE is reported as a rejection, also the terminal's
\* "only part of the request was completed".
WorkerFillsPartly(r) == flags.worker /\ WorkerAnswers(r, "partial")

\* Variant: every answer that arrives is taken for an executed order.
ReceiveAnyAnswer(r) ==
  /\ order[r] \notin {"none", "sent"}
  /\ Write(r, "await", "logResponse", "failing")
  /\ UNCHANGED <<sig, dbVars, readVars, order, envVars>>

\* The answer arrives in time.  Only a filled order is answered with executed;
\* the broker service then logs the call, and treats a failure to log it as a
\* failure of the call.
ReceiveAnswer(r) ==
  /\ \/ order[r] = "filled" /\ Write(r, "await", "logResponse", "failing")
     \/ /\ order[r] \in {"refused", "rejected", "partial"}
        /\ Transition(r, "await", "failing")
        /\ UNCHANGED fault
  /\ UNCHANGED <<sig, dbVars, readVars, order, envVars>>

\* Variant: a timeout that the catch does not see.
TimeoutUncaught(r) ==
  /\ Transition(r, "await", "done")
  /\ Fails(r, "net")
  /\ UNCHANGED <<sig, dbVars, readVars, order, envVars>>

\* No answer in time, or the connection breaks.
Timeout(r) ==
  /\ Transition(r, "await", "failing")
  /\ Fails(r, "net")
  /\ UNCHANGED <<sig, dbVars, readVars, order, envVars>>

-----------------------------------------------------------------------------
(* The request, after the broker answered                                  *)

LogResponse(r) ==
  /\ Write(r, "logResponse", "markExecuted", "failing")
  /\ UNCHANGED <<sig, dbVars, readVars, order, envVars>>

markLiveTradeExecuted(r) ==
  /\ Write(r, "markExecuted", "markSignal", "failing")
  /\ trade' = [trade EXCEPT ![r] =
                 IF pc'[r] = "markSignal" THEN "EXECUTED" ELSE @]
  /\ UNCHANGED <<sig, createdOn, liveExecuted, readVars, order, envVars>>

\* Variant: the update of a signal that is LIVE_EXECUTED already throws.
MarkSignalOnce(r) ==
  /\ Transition(r, "markSignal", IF sig[r] \in liveExecuted THEN "failing" ELSE "done")
  /\ liveExecuted' = liveExecuted \cup {sig[r]}
  /\ UNCHANGED <<sig, trade, createdOn, readVars, order, fault, envVars>>

MarkSignal(r) ==
  /\ Write(r, "markSignal", "done", "failing")
  /\ liveExecuted' = IF pc'[r] = "done" THEN liveExecuted \cup {sig[r]}
                                        ELSE liveExecuted
  /\ UNCHANGED <<sig, trade, createdOn, readVars, order, envVars>>

\* Variants: the row is marked before the entry is logged; the entry is logged
\* and the row forgotten.
MarkThenLogFailed(r) ==
  /\ Transition(r, "failing", "markFailed")
  /\ trade' = [trade EXCEPT ![r] = "FAILED"]
  /\ UNCHANGED <<sig, createdOn, liveExecuted, readVars, order, fault, envVars>>
LogFailedOnly(r) ==
  /\ Transition(r, "failing", "done")
  /\ UNCHANGED <<sig, dbVars, readVars, order, fault, envVars>>

\* The catch of the execution: the FAILED entry is logged, then the row marked.
LogFailed(r) ==
  /\ Write(r, "failing", "markFailed", "done")
  /\ UNCHANGED <<sig, dbVars, readVars, order, envVars>>

markLiveTradeFailed(r) ==
  /\ \/ /\ Transition(r, "markFailed", "done")
        /\ trade' = [trade EXCEPT ![r] = "FAILED"]
        /\ UNCHANGED fault
     \/ /\ Transition(r, "markFailed", "done")
        /\ Fails(r, "write")
        /\ UNCHANGED trade
  /\ UNCHANGED <<sig, createdOn, liveExecuted, readVars, order, envVars>>

\* The instance that runs r dies; nothing resumes a request.
Crash(r) ==
  /\ pc[r] \notin {"idle", "done"}
  /\ pc' = [pc EXCEPT ![r] = "done"]
  /\ missed' = [missed EXCEPT ![r] = {}]
  /\ Fails(r, "crash")
  /\ UNCHANGED <<sig, dbVars, since, quota, order, envVars>>

-----------------------------------------------------------------------------
(* Everyone else                                                           *)

\* Another module stores an approval of the signal.
Grant(s, a) ==
  /\ a \notin granted[s]
  /\ granted' = [granted EXCEPT ![s] = @ \cup {a}]
  /\ UNCHANGED <<pc, sig, dbVars, readVars, order, fault, config, limits, flags, day>>

\* The signals endpoint and the agents write any status over any other.
updateStatus(s) ==
  /\ \/ s \in liveExecuted /\ liveExecuted' = liveExecuted \ {s}
     \/ s \notin liveExecuted /\ liveExecuted' = liveExecuted \cup {s}
  /\ UNCHANGED <<pc, sig, trade, createdOn, readVars, order, fault, envVars>>

updateConfig(killSwitch, liveMode) ==
  /\ config' = [killSwitch |-> killSwitch, liveMode |-> liveMode]
  /\ config' # config
  /\ UNCHANGED <<pc, sig, dbVars, readVars, order, fault, granted, limits, flags, day>>

updateLimits(l) ==
  /\ limits' = l
  /\ limits' # limits
  /\ UNCHANGED <<pc, sig, dbVars, readVars, order, fault, granted, config, flags, day>>

Midnight ==
  /\ day < MaxDay
  /\ day' = day + 1
  /\ UNCHANGED <<pc, sig, dbVars, readVars, order, fault, granted, config, limits, flags>>

-----------------------------------------------------------------------------
\* What the process that runs r does next, when it does not die.
Advance(r) ==
  \/ ReadConfig(r) \/ WrongUser(r) \/ TakeSnapshot(r) \/ Commit(r) \/ Abort(r)
  \/ LogBlocked(r) \/ LogValidation(r) \/ LogPlaceOrder(r)
  \/ SendOrder(r) \/ ReceiveAnswer(r) \/ Timeout(r)
  \/ LogResponse(r) \/ markLiveTradeExecuted(r) \/ MarkSignal(r)
  \/ LogFailed(r) \/ markLiveTradeFailed(r)

Worker(r) ==
  WorkerRefuses(r) \/ WorkerFills(r) \/ WorkerRejects(r) \/ WorkerFillsPartly(r)

Environment ==
  \/ \E s \in Signals, a \in Approvals : Grant(s, a)
  \/ \E s \in Signals : updateStatus(s)
  \/ \E killSwitch, liveMode \in BOOLEAN : updateConfig(killSwitch, liveMode)
  \/ \E l \in LimitSettings : updateLimits(l)
  \/ Midnight

Next ==
  \/ \E r \in Requests :
       WrongConfirmation(r) \/ Request(r) \/ Advance(r) \/ Crash(r) \/ Worker(r)
  \/ Environment

Spec == Init /\ [][Next]_vars

\* A started handler keeps running: every await of it settles, that of the
\* broker at the latest by the connector's timeout.  Nothing is assumed of the
\* worker, the administrators or the callers.
Fairness == \A r \in Requests : WF_vars(Advance(r))

FairSpec == Spec /\ Fairness

-----------------------------------------------------------------------------
(* Safety                                                                  *)

\* Two requests never both own a REQUESTED or EXECUTED trade on one symbol (so
\* never on one signal), whatever the order of their reads and commits: the
\* guard's checks and the insert are separate statements of one Serializable
\* transaction.
OneActivePerSymbol ==
  \A r, q \in Requests :
    IsActive(r) /\ IsActive(q) /\ Symbol(r) = Symbol(q) => r = q

\* From its reservation until it ends, a request keeps its row active: no
\* other request, and no path of its own, frees the symbol while it may still
\* place or confirm an order.
ReservationHeld == \A r \in Requests : pc[r] \in Working => IsActive(r)

\* An order reaches the worker only for a signal with every approval on record
\* and behind a LiveTrade row, also when approvals, limits and configuration
\* change while the request runs.
OrdersApproved ==
  \A r \in Requests :
    order[r] # "none" => /\ granted[sig[r]] = Approvals
                         /\ sig[r] \in Tradable
                         /\ trade[r] # "none"

\* The books and the broker disagree only after a failure the request met: a
\* row is EXECUTED only for a filled order, and a row that is not EXECUTED
\* although its request ended with a filled order saw a lost answer, a failed
\* write or a crash, or the fill was partial.
BooksMatchBroker ==
  \A r \in Requests :
    /\ trade[r] = "EXECUTED" => order[r] = "filled"
    /\ pc[r] = "done" /\ order[r] \in Filled /\ trade[r] # "EXECUTED"
         => order[r] = "partial" \/ fault[r] # {}

\* A reservation outlives its request only when the process died or a write
\* failed; a broker failure alone (refusal, rejection, timeout, unreachable)
\* always frees the symbol.
StuckOnlyByFault ==
  \A r \in Requests :
    pc[r] = "done" /\ trade[r] = "REQUESTED" => fault[r] \cap {"write", "crash"} # {}

\* A reservation never takes the active trades of its day beyond the limit its
\* guard read, although the count and the insert are two statements, limits
\* change and midnight may pass between them.
ReservationsWithinLimit ==
  [][\A r \in Requests :
       trade[r] = "none" /\ trade'[r] = "REQUESTED" =>
         Cardinality({q \in Requests : trade'[q] \in Active
                                        /\ createdOn'[q] = createdOn'[r]}) <= quota[r]]_vars

\* A trade that was reported FAILED is never revived, and an EXECUTED trade is
\* turned into anything else only by a request that could not write.
OutcomeStands ==
  [][\A r \in Requests :
       /\ trade[r] = "FAILED" => trade'[r] = "FAILED"
       /\ trade[r] = "EXECUTED" /\ trade'[r] # "EXECUTED" => "write" \in fault[r]]_vars

(* Liveness                                                                *)

\* A reservation is eventually confirmed or given up unless the process died or
\* a write failed.
ReservationsResolved ==
  \A r \in Requests :
    trade[r] = "REQUESTED" ~>
      trade[r] # "REQUESTED" \/ fault[r] \cap {"write", "crash"} # {}

(* What the documents say                                                  *)

\* README: "El kill switch corta ejecucion", the kill switch cuts execution: no
\* order is sent to the broker while it is on.
KillSwitchCutsExecution ==
  [][\A r \in Requests :
       order[r] = "none" /\ order'[r] = "sent" => ~config.killSwitch]_vars

\* The guard's "There is already an open live trade for this symbol": an order
\* is not sent on a symbol on which an earlier order opened a position (live
\* trades are never closed by the program).
OnePositionPerSymbol ==
  [][\A r, q \in Requests :
       /\ order[r] = "none" /\ order'[r] = "sent"
       /\ order[q] \in Filled
       => Symbol(r) # Symbol(q)]_vars

-----------------------------------------------------------------------------
(* The reservation implements the slots of LiveSlot: the holder of a symbol  *)
(* is the request whose row on it is active, and a claim is given up when    *)
(* the row is FAILED.                                                        *)

HolderOf(y) ==
  IF \E r \in Requests : IsActive(r) /\ Symbol(r) = y
  THEN CHOOSE r \in Requests : IsActive(r) /\ Symbol(r) = y
  ELSE NoOne

Slot == INSTANCE LiveSlot WITH
  holder  <- [y \in Symbols |-> HolderOf(y)],
  givenUp <- {r \in Requests : trade[r] = "FAILED"}

\* The live-trading service, with every crash, failed write and race, behaves
\* as LiveSlot: claims are exclusive and final.
SlotSpec == Slot!Spec
=============================================================================
