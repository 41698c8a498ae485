---------------------------- MODULE DecisionFlow ----------------------------
(***************************************************************************)
(* How one signal is decided: the risk agent, the supervisor agent and the *)
(* assisted-trading service, the queues and the in-process event bus       *)
(* between them.                                                           *)
(*                                                                         *)
(*   SIGNAL_CREATED -> risk job -> assessment, RISK_EVALUATED              *)
(*   -> supervisor job -> decision                                         *)
(*   -> paper job (paper mode), or a manual decision (assisted mode)       *)
(*                                                                         *)
(* Signals do not interact here, except through open trades, economic      *)
(* events and the confidence the supervisor weighs, which are a            *)
(* nondeterministic choice; so the module is about one signal.  An         *)
(* activity is a run of a service method: a call of an HTTP endpoint, or   *)
(* the job of a queue.  Every read and write of an activity is a step.     *)
(*                                                                         *)
(* Administrators change the system configuration at any time, so what a   *)
(* read of it returns is a choice; "OFF" stands for the kill switch and    *)
(* for every mode that allows no trading.                                  *)
(***************************************************************************)
EXTENDS Naturals

CONSTANTS
  RiskCalls,        \* calls of POST /agents/risk/evaluate
  SupervisorCalls,  \* calls of POST /agents/supervisor/decide
  ManualCalls,      \* calls of the approve and reject endpoints
  RiskJob,          \* the activity of the risk-evaluation job
  SupervisorJob,    \* the activity of the supervisor-decision job
  Settings,         \* what administrators set the system configuration to
  Overrides,        \* statuses that users write with PATCH /signals/:id/status
  MaxAttempts,      \* attempts of a job
  MaxStalls,        \* dead workers a job survives
  MaxExtras         \* bound on what happens beside the flow: interruptions, lost
                    \* events, calls of the enqueue endpoints, status overrides

Jobs       == {RiskJob, SupervisorJob}
Evaluators == RiskCalls \cup {RiskJob}
Deciders   == SupervisorCalls \cup {SupervisorJob}
Activities == Evaluators \cup Deciders \cup ManualCalls

Queues    == {"risk", "supervisor"}
Events    == {"SIGNAL_CREATED", "RISK_EVALUATED"}
Modes     == {"PAPER", "ASSISTED", "OFF"}
Decisions == {"none", "OPERATE", "WAIT", "BLOCK"}
Plans     == {"PAPER", "DRY_RUN", "NONE", "REJECT"}
Statuses  == {"CREATED", "UNDER_REVIEW", "APPROVED", "REJECTED", "PENDING",
              "MANUALLY_APPROVED", "MANUALLY_REJECTED", "DRY_RUN_EXECUTED",
              "EXECUTED_PAPER"}

ASSUME DecisionFlowAssumption ==
  /\ RiskJob # SupervisorJob
  /\ Jobs \cap (RiskCalls \cup SupervisorCalls \cup ManualCalls) = {}
  /\ RiskCalls \cap (SupervisorCalls \cup ManualCalls) = {}
  /\ SupervisorCalls \cap ManualCalls = {}
  /\ Settings \subseteq Modes
  /\ Overrides \subseteq Statuses
  /\ MaxAttempts \in Nat \ {0}
  /\ MaxStalls \in Nat
  /\ MaxExtras \in Nat

VARIABLES
  pc,           \* where each activity is
  view,         \* what each activity read, and decided, so far
  plan,         \* what each manual call asks for
  interrupted,  \* activities that ended halfway: after their row, before their last step
  job,          \* queue -> the job with the signal's job id
  tries,        \* queue -> attempts of that job that threw
  stalls,       \* queue -> attempts of that job whose process died
  events,       \* event -> emitted and not yet through its listener
  lost,         \* events whose listener failed to add the job
  hasty,        \* whether a decision was enqueued before there was an assessment
  extras,       \* how much happened beside the flow so far
  status,       \* status of the signal
  assessed,     \* decisions of the signal's RiskAssessment rows
  latest,       \* decision of the newest one
  supervisor,   \* the SupervisorDecision row, with the mode in its metadata
  agents,       \* the AgentDecision rows that approve
  manual,       \* the ManualTradingDecision row of each manual call
  paperJob      \* whether the paper queue was asked for a trade of the signal

callVars  == <<view, plan, interrupted>>
queueVars == <<job, tries, stalls, events, lost, hasty, extras>>
rowVars   == <<status, assessed, latest, supervisor, agents, manual, paperJob>>
vars == <<pc, callVars, queueVars, rowVars>>

Blank == [risk |-> "none", mode |-> "OFF", decision |-> "none"]
NoDecision == [decision |-> "none", mode |-> "OFF"]

PCs == {"idle", "done", "finish", "evaluate", "assess", "riskAgent", "riskStatus", "emit",
        "check", "readRisk", "readConfig", "decide", "agent", "status", "enqueue",
        "pending", "config", "approved", "existing", "record", "mark", "execute", "dryRun"}

TypeOK ==
  /\ pc \in [Activities -> PCs]
  /\ view \in [Activities -> [risk : {"none", "APPROVED", "REJECTED"},
                              mode : Modes, decision : Decisions]]
  /\ plan \in [ManualCalls -> Plans]
  /\ interrupted \subseteq Activities
  /\ job \in [Queues -> {"none", "waiting", "active", "failed"}]
  /\ tries \in [Queues -> 0..MaxAttempts]
  /\ stalls \in [Queues -> 0..MaxStalls + 1]
  /\ events \in [Events -> Nat]
  /\ lost \subseteq Events
  /\ hasty \in BOOLEAN
  /\ extras \in 0..MaxExtras
  /\ status \in Statuses
  /\ assessed \subseteq {"APPROVED", "REJECTED"}
  /\ latest \in {"none", "APPROVED", "REJECTED"}
  /\ supervisor \in [decision : Decisions, mode : Modes]
  /\ agents \subseteq {"risk", "supervisor"}
  /\ manual \in [ManualCalls -> {"none", "APPROVE", "REJECT"}]
  /\ paperJob \in BOOLEAN

\* The signal was just created and the event emitted.
Init ==
  /\ pc = [c \in Activities |-> "idle"]
  /\ view = [c \in Activities |-> Blank]
  /\ plan = [c \in ManualCalls |-> "NONE"]
  /\ interrupted = {}
  /\ job = [q \in Queues |-> "none"]
  /\ tries = [q \in Queues |-> 0]
  /\ stalls = [q \in Queues |-> 0]
  /\ events = [e \in Events |-> IF e = "SIGNAL_CREATED" THEN 1 ELSE 0]
  /\ lost = {}
  /\ hasty = FALSE
  /\ extras = 0
  /\ status = "CREATED"
  /\ assessed = {}
  /\ latest = "none"
  /\ supervisor = NoDecision
  /\ agents = {}
  /\ manual = [c \in ManualCalls |-> "none"]
  /\ paperJob = FALSE

-----------------------------------------------------------------------------
(* Queues                                                                  *)

\* A step beside the flow.
Extra == extras < MaxExtras /\ extras' = extras + 1

QueueOf(c) == IF c = RiskJob THEN "risk" ELSE "supervisor"

\* The job id is built from the signal's: the add of an id the queue still
\* holds, also as a failed job, does nothing.
Add(q) ==
  /\ job' = [job EXCEPT ![q] = IF @ = "none" THEN "waiting" ELSE @]
  /\ tries' = [tries EXCEPT ![q] = IF job[q] = "none" THEN 0 ELSE @]
  /\ stalls' = [stalls EXCEPT ![q] = IF job[q] = "none" THEN 0 ELSE @]

FirstStep(c) ==
  IF c \in Evaluators THEN "evaluate" ELSE IF c \in Deciders THEN "check" ELSE "pending"

Step(c, from, to) ==
  /\ pc[c] = from
  /\ pc' = [pc EXCEPT ![c] = to]

\* The activity ends; a job is left in the queue in the given state.
Leave(c, outcome) ==
  /\ pc' = [pc EXCEPT ![c] = IF c \in Jobs THEN "idle" ELSE "done"]
  /\ view' = [view EXCEPT ![c] = Blank]
  /\ job' = IF c \in Jobs THEN [job EXCEPT ![QueueOf(c)] = outcome] ELSE job

\* A BadRequest, NotFound or Forbidden exception, or the unrecoverable error
\* the processor makes of it: the job has failed and stays in the queue.
Refuse(c) == Leave(c, "failed")

\* The activity goes on when ok holds, and is refused otherwise.
Check(c, from, ok, to) ==
  \/ ok /\ Step(c, from, to) /\ UNCHANGED <<view, job>>
  \/ ~ok /\ pc[c] = from /\ Refuse(c)

\* A request arrives.
Call(c) ==
  /\ c \notin Jobs
  /\ Step(c, "idle", FirstStep(c))
  /\ IF c \in ManualCalls THEN \E p \in Plans : plan' = [plan EXCEPT ![c] = p]
                          ELSE UNCHANGED plan
  /\ UNCHANGED <<view, interrupted, queueVars, rowVars>>

\* A worker takes the job.
TakeJob(c) ==
  /\ job[QueueOf(c)] = "waiting"
  /\ job' = [job EXCEPT ![QueueOf(c)] = "active"]
  /\ Step(c, "idle", FirstStep(c))
  /\ UNCHANGED <<callVars, tries, stalls, events, lost, hasty, extras, rowVars>>

\* The job completes and is removed; the response of a call is sent.
Finish(c) ==
  /\ pc[c] = "finish"
  /\ Leave(c, "none")
  /\ UNCHANGED <<plan, interrupted, tries, stalls, events, lost, hasty, extras, rowVars>>

\* An error that is not an exception of the program's own: a job waits for its
\* next attempt, or has used up its attempts.
Throws(c) ==
  /\ tries' = IF c \in Jobs THEN [tries EXCEPT ![QueueOf(c)] = @ + 1] ELSE tries
  /\ Leave(c, IF tries[QueueOf(c)] + 1 < MaxAttempts THEN "waiting" ELSE "failed")
  /\ UNCHANGED <<plan, stalls, events, lost, hasty, rowVars>>

\* The process dies.  The queue finds the job stalled and puts it back; that uses
\* up no attempt, but a job that stalls too often fails.
Dies(c) ==
  /\ stalls' = IF c \in Jobs THEN [stalls EXCEPT ![QueueOf(c)] = @ + 1] ELSE stalls
  /\ Leave(c, IF stalls[QueueOf(c)] < MaxStalls THEN "waiting" ELSE "failed")
  /\ UNCHANGED <<plan, tries, events, lost, hasty, rowVars>>

\* The activity wrote its assessment, decision or manual decision, and what belongs
\* to that row is still to be done.
Halfway(c) == pc[c] \in {"riskAgent", "riskStatus", "emit", "agent", "status", "enqueue",
                         "mark", "execute", "dryRun"}

\* The statement the activity is at throws, or its process dies before or after
\* the statement.
Interrupt(c) ==
  /\ pc[c] \notin {"idle", "done"}
  /\ Extra
  /\ Throws(c) \/ Dies(c)
  /\ interrupted' = IF Halfway(c) THEN interrupted \cup {c} ELSE interrupted

\* The listeners of the event bus add a job and nobody awaits them.
Deliver(e) ==
  /\ events[e] > 0
  /\ events' = [events EXCEPT ![e] = @ - 1]
  /\ Add(IF e = "SIGNAL_CREATED" THEN "risk" ELSE "supervisor")
  /\ UNCHANGED <<pc, callVars, lost, hasty, extras, rowVars>>

Lose(e) ==
  /\ events[e] > 0
  /\ Extra
  /\ events' = [events EXCEPT ![e] = @ - 1]
  /\ lost' = lost \cup {e}
  /\ UNCHANGED <<pc, callVars, job, tries, stalls, hasty, rowVars>>

\* The two enqueue endpoints.
Enqueue(q) ==
  /\ Extra
  /\ Add(q)
  /\ hasty' = (hasty \/ (q = "supervisor" /\ job[q] = "none" /\ latest = "none"))
  /\ UNCHANGED <<pc, callVars, events, lost, rowVars>>

-----------------------------------------------------------------------------
(* The risk agent                                                          *)

\* What the activity knows from now on.
Learn(c, risk, mode, decision) ==
  view' = [view EXCEPT ![c] = [risk |-> risk, mode |-> mode, decision |-> decision]]

\* Signal and active profile are read, and the decision made from them; the
\* profile may be missing, the stop loss unusable.
Evaluate(c) ==
  /\ \/ \E d \in {"APPROVED", "REJECTED"} :
          /\ Step(c, "evaluate", "assess")
          /\ Learn(c, d, "OFF", "none")
          /\ UNCHANGED job
     \/ pc[c] = "evaluate" /\ Refuse(c)
  /\ UNCHANGED <<plan, interrupted, tries, stalls, events, lost, hasty, extras, rowVars>>

\* Variant: the event is emitted as soon as the assessment is stored.
CreateAndEmit(c) ==
  /\ Step(c, "assess", "riskAgent")
  /\ assessed' = assessed \cup {view[c].risk}
  /\ latest' = view[c].risk
  /\ events' = [events EXCEPT !["RISK_EVALUATED"] = @ + 1]
  /\ UNCHANGED <<callVars, job, tries, stalls, lost, hasty, extras, status, supervisor, agents,
                  manual, paperJob>>

CreateAssessment(c) ==
  /\ Step(c, "assess", "riskAgent")
  /\ assessed' = assessed \cup {view[c].risk}
  /\ latest' = view[c].risk
  /\ UNCHANGED <<callVars, queueVars, status, supervisor, agents, manual, paperJob>>

\* Variant: an evaluation that comes after the decision records no approval.
RecordUndecided(c) ==
  /\ Step(c, "riskAgent", "riskStatus")
  /\ agents' = IF view[c].risk = "APPROVED" /\ supervisor.decision = "none"
               THEN agents \cup {"risk"} ELSE agents
  /\ UNCHANGED <<callVars, queueVars, status, assessed, latest, supervisor, manual, paperJob>>

RecordRiskAgent(c) ==
  /\ Step(c, "riskAgent", "riskStatus")
  /\ agents' = IF view[c].risk = "APPROVED" THEN agents \cup {"risk"} ELSE agents
  /\ UNCHANGED <<callVars, queueVars, status, assessed, latest, supervisor, manual, paperJob>>

\* Variant: the status is given the name of the agent's action.
UpdateRiskAction(c) ==
  /\ Step(c, "riskStatus", "emit")
  /\ status' = IF view[c].risk = "APPROVED" THEN "APPROVE" ELSE "REJECT"
  /\ UNCHANGED <<callVars, queueVars, assessed, latest, supervisor, agents, manual, paperJob>>

\* Whatever the status is by now.
UpdateRiskStatus(c) ==
  /\ Step(c, "riskStatus", "emit")
  /\ status' = view[c].risk
  /\ UNCHANGED <<callVars, queueVars, assessed, latest, supervisor, agents, manual, paperJob>>

\* Variant: the supervisor's producer listens for approvals only.
EmitApproved(c) ==
  /\ Step(c, "emit", "finish")
  /\ events' = [events EXCEPT !["RISK_EVALUATED"] =
                  IF view[c].risk = "APPROVED" THEN @ + 1 ELSE @]
  /\ UNCHANGED <<callVars, job, tries, stalls, lost, hasty, extras, rowVars>>

EmitEvaluated(c) ==
  /\ Step(c, "emit", "finish")
  /\ events' = [events EXCEPT !["RISK_EVALUATED"] = @ + 1]
  /\ UNCHANGED <<callVars, job, tries, stalls, lost, hasty, extras, rowVars>>

-----------------------------------------------------------------------------
(* The supervisor agent                                                    *)

CheckUndecided(c) ==
  /\ Check(c, "check", supervisor.decision = "none", "readRisk")
  /\ UNCHANGED <<plan, interrupted, tries, stalls, events, lost, hasty, extras, rowVars>>

\* The newest assessment; without one the decision is refused.
ReadRisk(c) ==
  /\ \/ /\ latest # "none"
        /\ Step(c, "readRisk", "readConfig")
        /\ Learn(c, latest, "OFF", "none")
        /\ UNCHANGED job
     \/ latest = "none" /\ pc[c] = "readRisk" /\ Refuse(c)
  /\ UNCHANGED <<plan, interrupted, tries, stalls, events, lost, hasty, extras, rowVars>>

\* Variant: only the configuration decides.
ReadConfigAlone(c) ==
  /\ Step(c, "readConfig", "decide")
  /\ \E m \in Settings :
       \E d \in IF m = "OFF" THEN {"BLOCK"} ELSE {"OPERATE", "WAIT", "BLOCK"} :
         Learn(c, view[c].risk, m, d)
  /\ UNCHANGED <<plan, interrupted, queueVars, rowVars>>

\* The configuration is read once; open trades, drawdown, confidence and
\* economic events decide between the outcomes that are left.
ReadConfig(c) ==
  /\ Step(c, "readConfig", "decide")
  /\ \E m \in Settings :
       \E d \in IF m = "OFF" \/ view[c].risk # "APPROVED" THEN {"BLOCK"}
                ELSE {"OPERATE", "WAIT", "BLOCK"} :
         Learn(c, view[c].risk, m, d)
  /\ UNCHANGED <<plan, interrupted, queueVars, rowVars>>

\* Variant: the decision is written over one that is there.
CreateDecisionOver(c) ==
  /\ Step(c, "decide", "agent")
  /\ supervisor' = [decision |-> view[c].decision, mode |-> view[c].mode]
  /\ UNCHANGED <<callVars, queueVars, status, assessed, latest, agents, manual, paperJob>>

\* signalId is unique: a second decision is an error of the database.
CreateDecision(c) ==
  \/ /\ supervisor.decision = "none"
     /\ Step(c, "decide", "agent")
     /\ supervisor' = [decision |-> view[c].decision, mode |-> view[c].mode]
     /\ UNCHANGED <<callVars, queueVars, status, assessed, latest, agents, manual, paperJob>>
  \/ supervisor.decision # "none" /\ pc[c] = "decide" /\ Throws(c)
     /\ UNCHANGED <<interrupted, extras>>

RecordSupervisorAgent(c) ==
  /\ Step(c, "agent", "status")
  /\ agents' = IF view[c].decision = "OPERATE" THEN agents \cup {"supervisor"} ELSE agents
  /\ UNCHANGED <<callVars, queueVars, status, assessed, latest, supervisor, manual, paperJob>>

UpdateDecidedStatus(c) ==
  /\ Step(c, "status", "enqueue")
  /\ status' = IF view[c].decision # "OPERATE" THEN status
               ELSE IF view[c].mode = "PAPER" THEN "APPROVED" ELSE "PENDING"
  /\ UNCHANGED <<callVars, queueVars, assessed, latest, supervisor, agents, manual, paperJob>>

\* Variant: no OPERATE is put in the paper queue.
EnqueueNone(c) ==
  /\ Step(c, "enqueue", "finish")
  /\ UNCHANGED <<callVars, queueVars, rowVars>>

\* The processor, or the controller, goes on with the decision it got back.
EnqueueOperate(c) ==
  /\ Step(c, "enqueue", "finish")
  /\ paperJob' = (paperJob \/ (view[c].decision = "OPERATE" /\ view[c].mode = "PAPER"))
  /\ UNCHANGED <<callVars, queueVars, status, assessed, latest, supervisor, agents, manual>>

-----------------------------------------------------------------------------
(* Assisted trading                                                        *)

Approving(c) == plan[c] # "REJECT"

\* Status and supervisor decision, read together.  A rejection needs any decision;
\* an approval looks at the decision it read after two more reads.
CheckPending(c) ==
  /\ \/ /\ Approving(c) /\ status = "PENDING"
        /\ Step(c, "pending", "config")
        /\ Learn(c, "none", "OFF", supervisor.decision)
        /\ UNCHANGED job
     \/ /\ ~Approving(c) /\ status = "PENDING" /\ supervisor.decision # "none"
        /\ Step(c, "pending", "existing")
        /\ UNCHANGED <<view, job>>
     \/ /\ status = "PENDING" => ~Approving(c) /\ supervisor.decision = "none"
        /\ pc[c] = "pending" /\ Refuse(c)
  /\ UNCHANGED <<plan, interrupted, tries, stalls, events, lost, hasty, extras, rowVars>>

CheckAssisted(c) ==
  /\ \E m \in Settings : Check(c, "config", m = "ASSISTED", "approved")
  /\ UNCHANGED <<plan, interrupted, tries, stalls, events, lost, hasty, extras, rowVars>>

\* Any approved assessment will do, not the newest.
CheckAssessed(c) ==
  /\ Check(c, "approved", "APPROVED" \in assessed /\ view[c].decision = "OPERATE", "existing")
  /\ UNCHANGED <<plan, interrupted, tries, stalls, events, lost, hasty, extras, rowVars>>

ensureNoManualDecision(c) ==
  /\ Check(c, "existing", \A m \in ManualCalls : manual[m] = "none", "record")
  /\ UNCHANGED <<plan, interrupted, tries, stalls, events, lost, hasty, extras, rowVars>>

CreateManualDecision(c) ==
  /\ Step(c, "record", "mark")
  /\ manual' = [manual EXCEPT ![c] = IF Approving(c) THEN "APPROVE" ELSE "REJECT"]
  /\ UNCHANGED <<callVars, queueVars, status, assessed, latest, supervisor, agents, paperJob>>

\* Variant: a rejection leaves the signal as it is.
UpdateApprovedStatus(c) ==
  /\ Step(c, "mark", IF Approving(c) THEN "execute" ELSE "finish")
  /\ status' = IF Approving(c) THEN "MANUALLY_APPROVED" ELSE status
  /\ UNCHANGED <<callVars, queueVars, assessed, latest, supervisor, agents, manual, paperJob>>

UpdateManualStatus(c) ==
  /\ Step(c, "mark", IF Approving(c) THEN "execute" ELSE "finish")
  /\ status' = IF Approving(c) THEN "MANUALLY_APPROVED" ELSE "MANUALLY_REJECTED"
  /\ UNCHANGED <<callVars, queueVars, assessed, latest, supervisor, agents, manual, paperJob>>

\* The approved decision is executed: a paper job, a dry run by the broker that
\* is marked afterwards, or nothing.
executeApprovedDecision(c) ==
  /\ Step(c, "execute", IF plan[c] = "DRY_RUN" THEN "dryRun" ELSE "finish")
  /\ paperJob' = (paperJob \/ plan[c] = "PAPER")
  /\ UNCHANGED <<callVars, queueVars, status, assessed, latest, supervisor, agents, manual>>

MarkDryRun(c) ==
  /\ Step(c, "dryRun", "finish")
  /\ status' = "DRY_RUN_EXECUTED"
  /\ UNCHANGED <<callVars, queueVars, assessed, latest, supervisor, agents, manual, paperJob>>

-----------------------------------------------------------------------------
(* Everyone else                                                           *)

\* The signals endpoint writes any status over any other.
updateStatus(st) ==
  /\ Extra
  /\ status # st
  /\ status' = st
  /\ UNCHANGED <<pc, callVars, job, tries, stalls, events, lost, hasty, assessed,
                  latest, supervisor, agents, manual, paperJob>>

-----------------------------------------------------------------------------
Evaluating(c) ==
  \/ Evaluate(c) \/ CreateAssessment(c) \/ RecordRiskAgent(c)
  \/ UpdateRiskStatus(c) \/ EmitEvaluated(c)

Deciding(c) ==
  \/ CheckUndecided(c) \/ ReadRisk(c) \/ ReadConfig(c) \/ CreateDecision(c)
  \/ RecordSupervisorAgent(c) \/ UpdateDecidedStatus(c) \/ EnqueueOperate(c)

Assisting(c) ==
  \/ CheckPending(c) \/ CheckAssisted(c) \/ CheckAssessed(c)
  \/ ensureNoManualDecision(c) \/ CreateManualDecision(c) \/ UpdateManualStatus(c)
  \/ executeApprovedDecision(c) \/ MarkDryRun(c)

\* What a running activity does next when nothing interrupts it.
Advance(c) ==
  \/ c \in Evaluators /\ Evaluating(c)
  \/ c \in Deciders /\ Deciding(c)
  \/ c \in ManualCalls /\ Assisting(c)
  \/ Finish(c)

Environment ==
  \/ \E q \in Queues : Enqueue(q)
  \/ \E e \in Events : Lose(e)
  \/ \E st \in Overrides : updateStatus(st)

Next ==
  \/ \E c \in Activities : Call(c) \/ Advance(c) \/ Interrupt(c)
  \/ \E c \in Jobs : TakeJob(c)
  \/ \E e \in Events : Deliver(e)
  \/ Environment

Spec == Init /\ [][Next]_vars

-----------------------------------------------------------------------------
(* Safety                                                                  *)

\* A paper job needs an approved assessment, the supervisor's OPERATE, and
\* either paper mode when it decided or a manual approval for paper trading,
\* however evaluations, decisions and changes of the mode interleave.
PaperJobJustified ==
  paperJob =>
    /\ "APPROVED" \in assessed
    /\ supervisor.decision = "OPERATE"
    /\ \/ supervisor.mode = "PAPER" /\ "supervisor" \in agents
       \/ \E c \in ManualCalls : manual[c] = "APPROVE" /\ plan[c] = "PAPER"

\* The AgentDecision that the paper engine reads as the supervisor's approval
\* exists only beside a SupervisorDecision OPERATE, also when a call and a job
\* decide at once and come to different results.
AgentMatchesDecision == "supervisor" \in agents => supervisor.decision = "OPERATE"

(* No decision is lost.  Everything the flow starts ends, so what must        *)
(* eventually happen has happened when nothing is left to do.                *)

Quiet ==
  /\ \A c \in Activities : pc[c] \in {"idle", "done"}
  /\ \A q \in Queues : job[q] \in {"none", "failed"}
  /\ \A e \in Events : events[e] = 0

\* The job ran out of attempts or stalled too often.
Exhausted(q) == tries[q] = MaxAttempts \/ stalls[q] > MaxStalls

\* A signal with an assessment is decided, unless the event was lost; or the
\* evaluation that stored it ended before it emitted the event, and was a call or a
\* job that failed in the end; or the supervisor's job failed because it was enqueued
\* before there was an assessment, or ran out of attempts.
EvaluatedIsDecided ==
  Quiet /\ latest # "none" =>
    \/ supervisor.decision # "none"
    \/ "RISK_EVALUATED" \in lost
    \/ interrupted \cap RiskCalls # {}
    \/ RiskJob \in interrupted /\ job["risk"] = "failed"
    \/ job["supervisor"] = "failed" /\ (hasty \/ Exhausted("supervisor"))

\* An OPERATE in paper mode reaches the paper queue whoever decided, however many
\* decided at once, and whatever ended before it wrote a decision; unless a decider
\* ended between its decision and the queue.
OperateIsCarriedOut ==
  Quiet /\ supervisor = [decision |-> "OPERATE", mode |-> "PAPER"] =>
    paperJob \/ interrupted \cap Deciders # {}

\* The approvals that the paper engine asks for are recorded after the rows they
\* repeat.  A trade whose approvals are missing was asked for while the evaluation
\* that approved, or the decider, was about to record its own, or one of them was
\* interrupted; never because of an evaluation that came to another result.
ApprovalsRecorded ==
  paperJob =>
    /\ \/ "risk" \in agents
       \/ \E c \in Evaluators : pc[c] = "riskAgent" /\ view[c].risk = "APPROVED"
       \/ interrupted \cap Evaluators # {}
    /\ \/ "supervisor" \in agents
       \/ \E c \in Deciders : pc[c] = "agent" /\ view[c].decision = "OPERATE"
       \/ interrupted \cap Deciders # {}

\* Nobody evaluated or decided beside the two jobs, and nothing went wrong.
Undisturbed == extras = 0 /\ \A c \in RiskCalls \cup SupervisorCalls : pc[c] = "idle"

\* The jobs alone leave the signal with the status of its decision: evaluation and
\* supervisor write it one after the other, although each writes it blindly and
\* after the row that lets the other one go on.
StatusShowsDecision ==
  Quiet /\ Undisturbed /\ (\A c \in ManualCalls : manual[c] = "none") =>
    status = IF latest = "none" THEN "CREATED"
             ELSE IF supervisor.decision = "OPERATE" /\ supervisor.mode = "ASSISTED"
                  THEN "PENDING"
             ELSE latest

\* A signal that has a manual decision is not left waiting for one, unless a user put
\* the status back, and an approval for paper trading is in the paper queue; unless
\* the call ended between its decision and the queue.
ManualDecisionSettles ==
  \A c \in ManualCalls :
    Quiet /\ manual[c] # "none" =>
      \/ c \in interrupted
      \/ /\ status # "PENDING" \/ "PENDING" \in Overrides
         /\ manual[c] = "APPROVE" /\ plan[c] = "PAPER" => paperJob

(* What the tests say                                                      *)

\* "does not allow duplicate manual decisions": a signal has one at most.
OneManualDecision ==
  \A m, n \in ManualCalls : manual[m] # "none" /\ manual[n] # "none" => m = n

-----------------------------------------------------------------------------
(* What the flow promises from outside is TradeConsent.                    *)

Consent == INSTANCE TradeConsent WITH
  approved <- "APPROVED" \in assessed,
  decision <- supervisor,
  consented <- \E c \in ManualCalls : manual[c] = "APPROVE" /\ plan[c] = "PAPER",
  requested <- paperJob

\* Evaluations, deciders and manual calls together only ever approve, decide,
\* consent and request in the order of TradeConsent.
ConsentSpec == Consent!Spec
=============================================================================
