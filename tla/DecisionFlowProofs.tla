------------------------- MODULE DecisionFlowProofs -------------------------
(***************************************************************************)
(* Proofs about DecisionFlow, for any number of calls, attempts and        *)
(* interruptions: the types, that no agent decision contradicts the        *)
(* supervisor's, that no paper job is unjustified, that an assessed        *)
(* signal, an OPERATE and a manual decision lead somewhere, that the       *)
(* approvals of a trade are recorded or about to be, that all of it        *)
(* implements TradeConsent, and that the jobs alone leave the right status.*)
(*                                                                         *)
(* None of these is inductive.  An activity works with what it read some   *)
(* steps ago, so the invariant IInv says for every place of an activity    *)
(* what is still true of its readings.  What is true when nothing is left  *)
(* to do needs an invariant of every state: Owed says what is under way to *)
(* pay a debt, Recorded who is about to record an approval, and InLine     *)
(* how the jobs follow each other when nobody disturbs them.               *)
(***************************************************************************)
EXTENDS DecisionFlow, TLAPS

USE DecisionFlowAssumption

\* An attempt ends with an error that leaves the job another one, or fails it.
Fails(c) == Throws(c) \/ Dies(c)

\* Each kind of activity has its own places, so that a step says whose it is.
Places ==
  /\ \A c \in Evaluators :
       pc[c] \in {"idle", "done", "finish", "evaluate", "assess", "riskAgent",
                  "riskStatus", "emit"}
  /\ \A c \in Deciders :
       pc[c] \in {"idle", "done", "finish", "check", "readRisk", "readConfig", "decide",
                  "agent", "status", "enqueue"}
  /\ \A c \in ManualCalls :
       pc[c] \in {"idle", "done", "finish", "pending", "config", "approved", "existing",
                  "record", "mark", "execute", "dryRun"}

\* A job runs only while the queue holds it as active, with an attempt left.
JobHeld ==
  /\ \A c \in Jobs : pc[c] # "idle" => job[QueueOf(c)] = "active"
  /\ \A q \in Queues :
       job[q] \in {"waiting", "active"} => tries[q] < MaxAttempts /\ stalls[q] <= MaxStalls

\* What an evaluation decided is a decision when it is written.
EvaluationSound ==
  \A c \in Evaluators :
    pc[c] \in {"assess", "riskAgent", "riskStatus", "emit"} => view[c].risk # "none"

\* The newest assessment is one of the assessments, and an OPERATE has an
\* approved one.
RowsSound ==
  /\ latest # "none" => latest \in assessed
  /\ supervisor.decision = "OPERATE" => "APPROVED" \in assessed

\* What a decider read is still there, its decision follows from it, and once
\* written the row is its own.
Deliberated(c) ==
  /\ pc[c] \in {"readConfig", "decide", "agent", "status", "enqueue"} =>
       view[c].risk \in assessed
  /\ pc[c] \in {"decide", "agent", "status", "enqueue"} =>
       /\ view[c].decision # "none"
       /\ view[c].decision = "OPERATE" => view[c].risk = "APPROVED" /\ view[c].mode # "OFF"
  /\ pc[c] \in {"agent", "status", "enqueue"} =>
       supervisor = [decision |-> view[c].decision, mode |-> view[c].mode]
  /\ pc[c] \in {"status", "enqueue"} /\ view[c].decision = "OPERATE" =>
       "supervisor" \in agents

DecisionSound == \A c \in Deciders : Deliberated(c)

\* A manual decision belongs to a call that got past its checks.
Consented(c) ==
  /\ pc[c] \in {"config", "approved"} => view[c].decision \in {"none", supervisor.decision}
  /\ pc[c] \in {"existing", "record", "mark", "execute", "dryRun"}
       /\ plan[c] # "REJECT" => supervisor.decision = "OPERATE"
  /\ pc[c] = "mark" /\ plan[c] # "REJECT" => manual[c] = "APPROVE"
  /\ pc[c] = "execute" => manual[c] = "APPROVE" /\ plan[c] # "REJECT"
  /\ pc[c] \in {"mark", "execute", "dryRun"} => manual[c] # "none"
  /\ manual[c] # "none" => pc[c] \in {"mark", "execute", "dryRun", "finish", "done"}

ManualSound == \A c \in ManualCalls : Consented(c)

IInv ==
  /\ TypeOK /\ Places /\ JobHeld /\ EvaluationSound /\ RowsSound
  /\ DecisionSound /\ ManualSound
  /\ AgentMatchesDecision /\ PaperJobJustified

-----------------------------------------------------------------------------
LEMMA InitIInv == Init => IInv
<1> SUFFICES ASSUME Init PROVE IInv
  OBVIOUS
<1> USE DEF Init, Queues, Events
<1>1. TypeOK
  <2>1. /\ pc \in [Activities -> PCs]
        /\ plan \in [ManualCalls -> Plans]
        /\ manual \in [ManualCalls -> {"none", "APPROVE", "REJECT"}]
    BY DEF PCs, Plans
  <2>2. view \in [Activities -> [risk : {"none", "APPROVED", "REJECTED"},
                                mode : Modes, decision : Decisions]]
    BY DEF Blank, Modes, Decisions
  <2>3. /\ job \in [Queues -> {"none", "waiting", "active", "failed"}]
        /\ tries \in [Queues -> 0..MaxAttempts]
        /\ stalls \in [Queues -> 0..MaxStalls + 1]
        /\ events \in [Events -> Nat]
        /\ extras \in 0..MaxExtras
    OBVIOUS
  <2>4. /\ supervisor \in [decision : Decisions, mode : Modes]
        /\ status \in Statuses
    BY DEF NoDecision, Decisions, Modes, Statuses
  <2> QED
    BY <2>1, <2>2, <2>3, <2>4 DEF TypeOK
<1>2. \A c \in Evaluators \cup Deciders \cup ManualCalls \cup Jobs : pc[c] = "idle"
  BY DEF Activities, Evaluators, Deciders, Jobs
<1>4. Places /\ EvaluationSound /\ DecisionSound
  BY <1>2 DEF Places, EvaluationSound, DecisionSound, Deliberated
<1>5. JobHeld /\ ManualSound
  BY <1>2 DEF JobHeld, ManualSound, Consented
<1>3. RowsSound /\ AgentMatchesDecision /\ PaperJobJustified
  BY DEF RowsSound, AgentMatchesDecision, PaperJobJustified, NoDecision
<1> QED
  BY <1>1, <1>3, <1>4, <1>5 DEF IInv

-----------------------------------------------------------------------------
(* The steps the actions are built from keep the types.                    *)

LEMMA StepType ==
  ASSUME TypeOK, NEW c \in Activities, NEW from, NEW to \in PCs, Step(c, from, to)
  PROVE  pc' \in [Activities -> PCs]
BY DEF TypeOK, Step

LEMMA LeaveType ==
  ASSUME TypeOK, NEW c \in Activities, NEW outcome \in {"none", "waiting", "failed"},
         Leave(c, outcome)
  PROVE  /\ pc' \in [Activities -> PCs]
         /\ view' \in [Activities -> [risk : {"none", "APPROVED", "REJECTED"},
                                      mode : Modes, decision : Decisions]]
         /\ job' \in [Queues -> {"none", "waiting", "active", "failed"}]
<1>1. pc' \in [Activities -> PCs]
  BY DEF TypeOK, Leave, PCs
<1>2. Blank \in [risk : {"none", "APPROVED", "REJECTED"}, mode : Modes, decision : Decisions]
  BY DEF Blank, Modes, Decisions
<1>3. QueueOf(c) \in Queues
  BY DEF QueueOf, Queues
<1> QED
  BY <1>1, <1>2, <1>3 DEF TypeOK, Leave, Queues

LEMMA LearnType ==
  ASSUME TypeOK, NEW c \in Activities, NEW risk \in {"none", "APPROVED", "REJECTED"},
         NEW mode \in Modes, NEW decision \in Decisions, Learn(c, risk, mode, decision)
  PROVE  view' \in [Activities -> [risk : {"none", "APPROVED", "REJECTED"},
                                   mode : Modes, decision : Decisions]]
BY DEF TypeOK, Learn

LEMMA CheckType ==
  ASSUME TypeOK, NEW c \in Activities, NEW from, NEW ok, NEW to \in PCs,
         Check(c, from, ok, to)
  PROVE  /\ pc' \in [Activities -> PCs]
         /\ view' \in [Activities -> [risk : {"none", "APPROVED", "REJECTED"},
                                      mode : Modes, decision : Decisions]]
         /\ job' \in [Queues -> {"none", "waiting", "active", "failed"}]
<1>1. CASE Step(c, from, to) /\ UNCHANGED <<view, job>>
  BY <1>1, StepType DEF TypeOK, Queues
<1>2. CASE Refuse(c)
  BY <1>2, LeaveType DEF Refuse
<1> QED
  BY <1>1, <1>2 DEF Check

LEMMA FailsType ==
  ASSUME TypeOK, JobHeld, NEW c \in Activities, pc[c] # "idle", Fails(c)
  PROVE  /\ pc' \in [Activities -> PCs]
         /\ view' \in [Activities -> [risk : {"none", "APPROVED", "REJECTED"},
                                      mode : Modes, decision : Decisions]]
         /\ job' \in [Queues -> {"none", "waiting", "active", "failed"}]
         /\ tries' \in [Queues -> 0..MaxAttempts]
         /\ stalls' \in [Queues -> 0..MaxStalls + 1]
<1>1. QueueOf(c) \in Queues
  BY DEF QueueOf, Queues
<1>2. c \in Jobs => /\ tries[QueueOf(c)] + 1 \in 0..MaxAttempts
                    /\ stalls[QueueOf(c)] + 1 \in 0..MaxStalls + 1
  BY <1>1 DEF TypeOK, JobHeld
<1>3. CASE Throws(c)
  <2>1. PICK o \in {"waiting", "failed"} : Leave(c, o)
    BY <1>3 DEF Throws
  <2> QED
    BY <1>1, <1>2, <1>3, <2>1, LeaveType DEF TypeOK, Throws
<1>4. CASE Dies(c)
  <2>1. PICK o \in {"waiting", "failed"} : Leave(c, o)
    BY <1>4 DEF Dies
  <2> QED
    BY <1>1, <1>2, <1>4, <2>1, LeaveType DEF TypeOK, Dies
<1> QED
  BY <1>3, <1>4 DEF Fails

\* The state is well typed in every reachable state.
LEMMA TypeStep == IInv /\ [Next]_vars => TypeOK'
<1> SUFFICES ASSUME TypeOK, JobHeld, EvaluationSound, [Next]_vars PROVE TypeOK'
  BY DEF IInv
<1> USE DEF Queues, Events
<1>1. ASSUME NEW c \in Activities, Call(c) PROVE TypeOK'
  BY <1>1 DEF TypeOK, PCs, Plans, Call, Step, FirstStep, queueVars, rowVars
<1>2. ASSUME NEW c \in Activities, Advance(c) PROVE TypeOK'
  <2>1. CASE c \in Evaluators /\ Evaluating(c)
    <3>1. CASE Evaluate(c)
      <4>1. CASE \E d \in {"APPROVED", "REJECTED"} :
                   /\ Step(c, "evaluate", "assess")
                   /\ Learn(c, d, "OFF", "none")
                   /\ UNCHANGED job
        <5>1. PICK d \in {"APPROVED", "REJECTED"} :
                /\ Step(c, "evaluate", "assess")
                /\ Learn(c, d, "OFF", "none")
                /\ UNCHANGED job
          BY <4>1
        <5>2. "assess" \in PCs /\ "OFF" \in Modes /\ "none" \in Decisions
          BY DEF PCs, Modes, Decisions
        <5> QED
          BY <3>1, <5>1, <5>2, StepType, LearnType DEF Evaluate, TypeOK, rowVars
      <4>2. CASE Refuse(c)
        BY <3>1, <4>2, LeaveType DEF Evaluate, Refuse, TypeOK, rowVars
      <4> QED
        BY <3>1, <4>1, <4>2 DEF Evaluate
    <3>2. CASE CreateAssessment(c)
      <4>1. view[c].risk \in {"APPROVED", "REJECTED"}
        BY <2>1, <3>2 DEF CreateAssessment, Step, EvaluationSound, TypeOK
      <4> QED
        BY <3>2, <4>1 DEF CreateAssessment, Step, TypeOK, PCs, callVars, queueVars
    <3>3. CASE RecordRiskAgent(c)
      BY <3>3 DEF RecordRiskAgent, Step, TypeOK, PCs, callVars, queueVars
    <3>4. CASE UpdateRiskStatus(c)
      <4>1. view[c].risk \in {"APPROVED", "REJECTED"}
        BY <2>1, <3>4 DEF UpdateRiskStatus, Step, EvaluationSound, TypeOK
      <4> QED
        BY <3>4, <4>1 DEF UpdateRiskStatus, Step, TypeOK, PCs, Statuses, callVars, queueVars
    <3>5. CASE EmitEvaluated(c)
      BY <3>5 DEF EmitEvaluated, Step, TypeOK, PCs, callVars, rowVars
    <3> QED
      BY <2>1, <3>1, <3>2, <3>3, <3>4, <3>5 DEF Evaluating
  <2>2. CASE c \in Deciders /\ Deciding(c)
    <3>1. CASE CheckUndecided(c)
      <4>1. "readRisk" \in PCs
        BY DEF PCs
      <4> QED
        BY <3>1, <4>1, CheckType DEF CheckUndecided, TypeOK, rowVars
    <3>2. CASE ReadRisk(c)
      <4>1. CASE Step(c, "readRisk", "readConfig") /\ Learn(c, latest, "OFF", "none")
                 /\ UNCHANGED job
        <5>1. "readConfig" \in PCs /\ "OFF" \in Modes /\ "none" \in Decisions
          BY DEF PCs, Modes, Decisions
        <5> QED
          BY <3>2, <4>1, <5>1, StepType, LearnType DEF ReadRisk, TypeOK, rowVars
      <4>2. CASE Refuse(c)
        BY <3>2, <4>2, LeaveType DEF ReadRisk, Refuse, TypeOK, rowVars
      <4> QED
        BY <3>2, <4>1, <4>2 DEF ReadRisk
    <3>3. CASE ReadConfig(c)
      <4>1. PICK m \in Settings, d \in {"OPERATE", "WAIT", "BLOCK"} :
              Learn(c, view[c].risk, m, d)
        BY <3>3 DEF ReadConfig
      <4>2. m \in Modes /\ d \in Decisions /\ "decide" \in PCs
        BY DEF Decisions, PCs
      <4>3. view[c].risk \in {"none", "APPROVED", "REJECTED"}
        BY DEF TypeOK
      <4> QED
        BY <3>3, <4>1, <4>2, <4>3, StepType, LearnType
        DEF ReadConfig, TypeOK, queueVars, rowVars
    <3>4. CASE CreateDecision(c)
      <4>1. CASE /\ Step(c, "decide", "agent")
                 /\ supervisor' = [decision |-> view[c].decision, mode |-> view[c].mode]
                 /\ UNCHANGED <<callVars, queueVars, status, assessed, latest, agents, manual,
                                paperJob>>
        BY <4>1 DEF Step, TypeOK, PCs, callVars, queueVars
      <4>2. CASE pc[c] = "decide" /\ Throws(c) /\ UNCHANGED <<interrupted, extras>>
        <5>1. pc[c] # "idle" /\ Fails(c)
          BY <4>2 DEF Fails
        <5> QED
          BY <4>2, <5>1, FailsType DEF Throws, TypeOK, rowVars
      <4> QED
        BY <3>4, <4>1, <4>2 DEF CreateDecision
    <3>5. CASE RecordSupervisorAgent(c) \/ UpdateDecidedStatus(c) \/ EnqueueOperate(c)
      <4>1. CASE RecordSupervisorAgent(c)
        <5>1. "status" \in PCs
          BY DEF PCs
        <5> QED
          BY <4>1, <5>1, StepType DEF RecordSupervisorAgent, TypeOK, callVars, queueVars
      <4>2. CASE UpdateDecidedStatus(c)
        <5>1. "enqueue" \in PCs /\ "APPROVED" \in Statuses /\ "PENDING" \in Statuses
          BY DEF PCs, Statuses
        <5> QED
          BY <4>2, <5>1, StepType DEF UpdateDecidedStatus, TypeOK, callVars, queueVars
      <4>3. CASE EnqueueOperate(c)
        <5>1. "finish" \in PCs /\ paperJob' \in BOOLEAN
          BY <4>3, Zenon DEF EnqueueOperate, PCs, TypeOK
        <5> QED
          BY <4>3, <5>1, StepType DEF EnqueueOperate, TypeOK, callVars, queueVars
      <4> QED
        BY <3>5, <4>1, <4>2, <4>3
    <3> QED
      BY <2>2, <3>1, <3>2, <3>3, <3>4, <3>5 DEF Deciding
  <2>3. CASE c \in ManualCalls /\ Assisting(c)
    <3>1. CASE CheckPending(c) \/ CheckAssisted(c) \/ CheckAssessed(c)
               \/ ensureNoManualDecision(c)
      <4>1. {"config", "approved", "existing", "record"} \subseteq PCs
        BY DEF PCs
      <4>2. /\ pc' \in [Activities -> PCs]
            /\ view' \in [Activities -> [risk : {"none", "APPROVED", "REJECTED"},
                                         mode : Modes, decision : Decisions]]
            /\ job' \in [Queues -> {"none", "waiting", "active", "failed"}]
        <5>1. CASE CheckPending(c)
          <6>1. CASE Refuse(c)
            <7>1. Leave(c, "failed")
              BY <6>1 DEF Refuse
            <7> QED
              BY <7>1, LeaveType
          <6>2. ASSUME NEW x \in {"config", "existing"}, Step(c, "pending", x)
                PROVE  pc' \in [Activities -> PCs]
            BY <4>1, <6>2, StepType
          <6>3. ASSUME view' = view \/ Learn(c, "none", "OFF", supervisor.decision)
                PROVE  view' \in [Activities -> [risk : {"none", "APPROVED", "REJECTED"},
                                                 mode : Modes, decision : Decisions]]
            <7>1. "OFF" \in Modes /\ supervisor.decision \in Decisions
              BY DEF TypeOK, Modes
            <7> QED
              BY <6>3, <7>1, LearnType DEF TypeOK
          <6>4. \/ Refuse(c)
                \/ /\ \E x \in {"config", "existing"} : Step(c, "pending", x) /\ UNCHANGED job
                   /\ view' = view \/ Learn(c, "none", "OFF", supervisor.decision)
            BY <5>1 DEF CheckPending
          <6> QED
            BY <6>1, <6>2, <6>3, <6>4 DEF TypeOK
        <5>2. CASE CheckAssisted(c)
          BY <4>1, <5>2, CheckType DEF CheckAssisted
        <5>3. CASE CheckAssessed(c)
          BY <4>1, <5>3, CheckType DEF CheckAssessed
        <5>4. CASE ensureNoManualDecision(c)
          BY <4>1, <5>4, CheckType DEF ensureNoManualDecision
        <5> QED
          BY <3>1, <5>1, <5>2, <5>3, <5>4
      <4> QED
        BY <3>1, <4>2
        DEF CheckPending, CheckAssisted, CheckAssessed, ensureNoManualDecision, TypeOK, rowVars
    <3>2. CASE CreateManualDecision(c) \/ UpdateManualStatus(c)
               \/ executeApprovedDecision(c) \/ MarkDryRun(c)
      <4>1. {"mark", "execute", "finish", "dryRun"} \subseteq PCs
        BY DEF PCs
      <4>2. CASE CreateManualDecision(c)
        <5>1. pc' \in [Activities -> PCs]
          BY <4>1, <4>2, StepType DEF CreateManualDecision
        <5>2. manual' \in [ManualCalls -> {"none", "APPROVE", "REJECT"}]
          BY <2>3, <4>2 DEF CreateManualDecision, TypeOK
        <5> QED
          BY <4>2, <5>1, <5>2 DEF CreateManualDecision, TypeOK, callVars, queueVars
      <4>3. CASE UpdateManualStatus(c)
        <5>1. pc' \in [Activities -> PCs]
          BY <4>1, <4>3, StepType DEF UpdateManualStatus
        <5>2. status' \in Statuses
          BY <4>3 DEF UpdateManualStatus, Statuses
        <5> QED
          BY <4>3, <5>1, <5>2 DEF UpdateManualStatus, TypeOK, callVars, queueVars
      <4>4. CASE executeApprovedDecision(c)
        <5>1. pc' \in [Activities -> PCs]
          BY <4>1, <4>4, StepType DEF executeApprovedDecision
        <5>2. paperJob' \in BOOLEAN
          BY <4>4, Zenon DEF executeApprovedDecision, TypeOK
        <5> QED
          BY <4>4, <5>1, <5>2 DEF executeApprovedDecision, TypeOK, callVars, queueVars
      <4>5. CASE MarkDryRun(c)
        <5>1. pc' \in [Activities -> PCs] /\ status' \in Statuses
          BY <4>1, <4>5, StepType DEF MarkDryRun, Statuses
        <5> QED
          BY <4>5, <5>1 DEF MarkDryRun, TypeOK, callVars, queueVars
      <4> QED
        BY <3>2, <4>2, <4>3, <4>4, <4>5
    <3> QED
      BY <2>3, <3>1, <3>2 DEF Assisting
  <2>4. CASE Finish(c)
    BY <2>4, LeaveType DEF Finish, TypeOK, rowVars
  <2> QED
    BY <1>2, <2>1, <2>2, <2>3, <2>4 DEF Advance
<1>3. ASSUME NEW c \in Activities, Interrupt(c) PROVE TypeOK'
  <2>1. pc[c] # "idle" /\ Fails(c) /\ extras' \in 0..MaxExtras
    BY <1>3 DEF Interrupt, Extra, Fails, TypeOK
  <2>2. interrupted' \subseteq Activities
    BY <1>3 DEF Interrupt, TypeOK
  <2>3. UNCHANGED <<plan, events, lost, hasty, rowVars>>
    BY <1>3 DEF Interrupt, Throws, Dies
  <2> QED
    BY <2>1, <2>2, <2>3, FailsType DEF TypeOK, rowVars
<1>4. ASSUME NEW c \in Jobs, TakeJob(c) PROVE TypeOK'
  BY <1>4 DEF TakeJob, Step, FirstStep, QueueOf, TypeOK, PCs, callVars, rowVars, Jobs,
              Activities, Evaluators, Deciders
<1>5. ASSUME NEW q \in Queues, Add(q)
      PROVE  /\ job' \in [Queues -> {"none", "waiting", "active", "failed"}]
             /\ tries' \in [Queues -> 0..MaxAttempts]
             /\ stalls' \in [Queues -> 0..MaxStalls + 1]
  <2>1. stalls' \in [Queues -> 0..MaxStalls + 1]
    BY <1>5 DEF Add, TypeOK
  <2> QED
    BY <1>5, <2>1 DEF Add, TypeOK
<1>6. ASSUME NEW e \in Events, Deliver(e) PROVE TypeOK'
  BY <1>5, <1>6 DEF Deliver, TypeOK, callVars, rowVars
<1>7. ASSUME NEW e \in Events, Lose(e) PROVE TypeOK'
  BY <1>7 DEF Lose, Extra, TypeOK, callVars, rowVars
<1>8. ASSUME NEW q \in Queues, Enqueue(q) PROVE TypeOK'
  BY <1>5, <1>8 DEF Enqueue, Extra, TypeOK, callVars, rowVars
<1>9. ASSUME NEW st \in Overrides, updateStatus(st) PROVE TypeOK'
  BY <1>9 DEF updateStatus, Extra, TypeOK, callVars
<1>10. CASE UNCHANGED vars
  BY <1>10 DEF TypeOK, vars, callVars, queueVars, rowVars
<1> QED
  BY <1>1, <1>2, <1>3, <1>4, <1>6, <1>7, <1>8, <1>9, <1>10 DEF Next, Environment

-----------------------------------------------------------------------------
(* What a step leaves alone.                                               *)

LEMMA Kinds ==
  /\ Evaluators \cup Deciders \cup ManualCalls \cup Jobs \subseteq Activities
  /\ Evaluators \cap Deciders = {}
  /\ Evaluators \cap ManualCalls = {}
  /\ Deciders \cap ManualCalls = {}
  /\ Jobs \cap ManualCalls = {}
BY DEF Evaluators, Deciders, Jobs, Activities

\* A running activity moves to another place, or ends.
LEMMA AdvanceShape ==
  ASSUME NEW c \in Activities, Advance(c)
  PROVE  /\ pc[c] \notin {"idle", "done"}
         /\ \/ /\ \E x \in PCs \ {"idle", "done"} : pc' = [pc EXCEPT ![c] = x]
               /\ UNCHANGED <<job, tries, stalls>>
            \/ (Leave(c, "none") \/ Leave(c, "failed")) /\ UNCHANGED <<tries, stalls>>
            \/ Fails(c)
<1> USE DEF Step, PCs
<1>1. CASE Evaluating(c)
  BY <1>1 DEF Evaluating, Evaluate, CreateAssessment, RecordRiskAgent, UpdateRiskStatus,
              EmitEvaluated, Refuse, queueVars
<1>2. CASE Deciding(c)
  BY <1>2 DEF Deciding, CheckUndecided, ReadRisk, ReadConfig, CreateDecision,
              RecordSupervisorAgent, UpdateDecidedStatus, EnqueueOperate, Check, Refuse, queueVars,
              Fails
<1>3. CASE Assisting(c)
  <2>1. CASE CheckPending(c) \/ CheckAssisted(c) \/ CheckAssessed(c) \/ ensureNoManualDecision(c)
    BY <2>1 DEF CheckPending, CheckAssisted, CheckAssessed, ensureNoManualDecision, Check, Refuse,
                Learn
  <2>2. CASE CreateManualDecision(c) \/ UpdateManualStatus(c) \/ executeApprovedDecision(c)
             \/ MarkDryRun(c)
    BY <2>2 DEF CreateManualDecision, UpdateManualStatus, executeApprovedDecision, MarkDryRun,
                queueVars
  <2> QED
    BY <1>3, <2>1, <2>2 DEF Assisting
<1>4. CASE Finish(c)
  BY <1>4 DEF Finish
<1> QED
  BY <1>1, <1>2, <1>3, <1>4 DEF Advance

\* What an activity read, and where it is, changes by its own steps alone.
LEMMA OthersStay ==
  ASSUME TypeOK, NEW c \in Activities, Call(c) \/ Advance(c) \/ Interrupt(c),
         NEW d \in Activities, d # c
  PROVE  pc'[d] = pc[d] /\ view'[d] = view[d]
<1> USE DEF TypeOK, Step, Leave
<1>1. CASE Call(c)
  BY <1>1 DEF Call
<1>2. CASE Interrupt(c)
  BY <1>2 DEF Interrupt, Fails, Throws, Dies
<1>3. CASE Evaluating(c)
  BY <1>3 DEF Evaluating, Evaluate, CreateAssessment, RecordRiskAgent, UpdateRiskStatus,
              EmitEvaluated, Refuse, Learn, callVars
<1>4. CASE Deciding(c)
  BY <1>4 DEF Deciding, CheckUndecided, ReadRisk, ReadConfig, CreateDecision, Fails, Throws, Dies,
              RecordSupervisorAgent, UpdateDecidedStatus, EnqueueOperate, Check, Refuse, Learn,
              callVars
<1>5. CASE Assisting(c)
  <2>1. CASE CheckPending(c) \/ CheckAssisted(c) \/ CheckAssessed(c) \/ ensureNoManualDecision(c)
    BY <2>1 DEF CheckPending, CheckAssisted, CheckAssessed, ensureNoManualDecision, Check, Refuse,
                Learn
  <2>2. CASE CreateManualDecision(c) \/ UpdateManualStatus(c) \/ executeApprovedDecision(c)
             \/ MarkDryRun(c)
    BY <2>2 DEF CreateManualDecision, UpdateManualStatus, executeApprovedDecision, MarkDryRun,
                callVars
  <2> QED
    BY <1>5, <2>1, <2>2 DEF Assisting
<1>6. CASE Finish(c)
  BY <1>6 DEF Finish
<1> QED
  BY <1>1, <1>2, <1>3, <1>4, <1>5, <1>6 DEF Advance

\* Steps that are not of an activity touch nothing an activity read or decided.
LEMMA FlowStep ==
  ASSUME [Next]_vars,
         \A c \in Activities : ~(Call(c) \/ Advance(c) \/ Interrupt(c)),
         \A c \in Jobs : ~TakeJob(c)
  PROVE  UNCHANGED <<pc, callVars, assessed, latest, supervisor, agents, manual, paperJob>>
BY DEF Next, Environment, Deliver, Lose, Enqueue, updateStatus, vars, callVars, rowVars

-----------------------------------------------------------------------------
(* One lemma for each part of the invariant.                               *)

LEMMA PlacesStep == IInv /\ [Next]_vars => Places'
<1> SUFFICES ASSUME TypeOK, Places, [Next]_vars PROVE Places'
  BY DEF IInv
<1> USE Kinds DEF Places, Step
<1>0. pc \in [Activities -> PCs]
  BY DEF TypeOK
<1>1. ASSUME NEW c \in Activities, Call(c) PROVE Places'
  BY <1>0, <1>1 DEF Call, FirstStep, Activities
<1>2. ASSUME NEW c \in Activities, NEW x \in {"idle", "done"}, pc' = [pc EXCEPT ![c] = x]
      PROVE  Places'
  BY <1>0, <1>2
<1>3. ASSUME NEW c \in Activities, Advance(c) PROVE Places'
  <2>1. CASE Finish(c) \/ Refuse(c) \/ Fails(c)
    BY <1>2, <2>1 DEF Finish, Refuse, Fails, Throws, Dies, Leave
  <2>2. CASE c \in Evaluators /\ Evaluating(c) /\ ~Refuse(c)
    <3>1. PICK x \in {"finish", "assess", "riskAgent", "riskStatus", "emit"} :
            pc' = [pc EXCEPT ![c] = x]
      BY <2>2 DEF Evaluating, Evaluate, CreateAssessment, RecordRiskAgent, UpdateRiskStatus,
                  EmitEvaluated
    <3> QED
      BY <1>0, <2>2, <3>1
  <2>3. CASE c \in Deciders /\ Deciding(c) /\ ~Refuse(c) /\ ~Fails(c)
    <3>1. PICK x \in {"finish", "readRisk", "readConfig", "decide", "agent", "status",
                      "enqueue"} :
            pc' = [pc EXCEPT ![c] = x]
      BY <2>3 DEF Deciding, CheckUndecided, ReadRisk, ReadConfig, CreateDecision,
                  RecordSupervisorAgent, UpdateDecidedStatus, EnqueueOperate, Check, Fails
    <3> QED
      BY <1>0, <2>3, <3>1
  <2>4. CASE c \in ManualCalls /\ Assisting(c) /\ ~Refuse(c)
    <3>1. PICK x \in {"finish", "config", "approved", "existing", "record", "mark", "execute",
                      "dryRun"} :
            pc' = [pc EXCEPT ![c] = x]
      BY <2>4 DEF Assisting, CheckPending, CheckAssisted, CheckAssessed,
                  ensureNoManualDecision, CreateManualDecision, UpdateManualStatus,
                  executeApprovedDecision, MarkDryRun, Check
    <3> QED
      BY <1>0, <2>4, <3>1
  <2> QED
    BY <1>3, <2>1, <2>2, <2>3, <2>4 DEF Advance
<1>4. ASSUME NEW c \in Activities, Interrupt(c) PROVE Places'
  BY <1>2, <1>4 DEF Interrupt, Fails, Throws, Dies, Leave
<1>5. ASSUME NEW c \in Jobs, TakeJob(c) PROVE Places'
  BY <1>0, <1>5 DEF TakeJob, FirstStep, Jobs, Evaluators, Deciders
<1>6. CASE UNCHANGED pc
  BY <1>6
<1> QED
  BY <1>1, <1>3, <1>4, <1>5, <1>6, FlowStep

LEMMA JobStep == IInv /\ [Next]_vars => JobHeld'
<1> SUFFICES ASSUME TypeOK, JobHeld, [Next]_vars PROVE JobHeld'
  BY DEF IInv
<1> USE Kinds
<1>0. /\ pc \in [Activities -> PCs]
      /\ job \in [Queues -> {"none", "waiting", "active", "failed"}]
      /\ tries \in [Queues -> 0..MaxAttempts]
      /\ stalls \in [Queues -> 0..MaxStalls + 1]
  BY DEF TypeOK
<1>1. \A c \in Jobs : QueueOf(c) \in Queues /\ \A d \in Jobs : QueueOf(c) = QueueOf(d) => c = d
  BY DEF Jobs, QueueOf, Queues
<1>2. ASSUME NEW c \in Activities, Leave(c, "none") \/ Leave(c, "failed"), UNCHANGED <<tries, stalls>>
      PROVE  JobHeld'
  BY <1>0, <1>1, <1>2 DEF JobHeld, Leave, Queues
<1>3. ASSUME NEW c \in Activities, pc[c] # "idle", Fails(c) PROVE JobHeld'
  <2>1. CASE c \in Jobs
    <3>1. PICK o \in {"waiting", "failed"} : Leave(c, o)
      BY <1>3 DEF Fails, Throws, Dies
    <3>2. /\ pc' = [pc EXCEPT ![c] = "idle"]
          /\ job' = [job EXCEPT ![QueueOf(c)] = o]
      BY <2>1, <3>1 DEF Leave
    <3>3. \A q \in Queues : q # QueueOf(c) => tries'[q] = tries[q] /\ stalls'[q] = stalls[q]
      BY <1>0, <1>1, <1>3, <2>1 DEF Fails, Throws, Dies
    <3>4. \A d \in Jobs : pc'[d] # "idle" => job'[QueueOf(d)] = "active"
      BY <1>0, <1>1, <2>1, <3>2 DEF JobHeld
    <3>5. pc[c] # "idle" => tries[QueueOf(c)] < MaxAttempts /\ stalls[QueueOf(c)] <= MaxStalls
      BY <1>1, <2>1 DEF JobHeld
    <3>6. ASSUME job'[QueueOf(c)] = "waiting"
          PROVE  tries'[QueueOf(c)] < MaxAttempts /\ stalls'[QueueOf(c)] <= MaxStalls
      <4>1. QueueOf(c) \in Queues /\ o = "waiting"
        BY <1>0, <1>1, <2>1, <3>2, <3>6
      <4>2. CASE Throws(c)
        <5>1. tries[QueueOf(c)] + 1 < MaxAttempts
          BY <1>0, <2>1, <3>6, <4>1, <4>2 DEF Throws, Leave
        <5> QED
          BY <1>0, <1>3, <2>1, <3>5, <4>1, <4>2, <5>1 DEF Throws
      <4>3. CASE Dies(c)
        <5>1. stalls[QueueOf(c)] < MaxStalls
          BY <1>0, <2>1, <3>6, <4>1, <4>3 DEF Dies, Leave
        <5> QED
          BY <1>0, <1>3, <2>1, <3>5, <4>1, <4>3, <5>1 DEF Dies
      <4> QED
        BY <1>3, <4>2, <4>3 DEF Fails
    <3> QED
      BY <1>0, <1>1, <2>1, <3>2, <3>3, <3>4, <3>6 DEF JobHeld
  <2>3. CASE c \notin Jobs
    BY <1>0, <1>1, <1>3, <2>3 DEF JobHeld, Fails, Throws, Dies, Leave
  <2> QED
    BY <2>1, <2>3
<1>4. ASSUME NEW q \in Queues, Add(q), UNCHANGED pc PROVE JobHeld'
  BY <1>0, <1>1, <1>4 DEF JobHeld, Add, Queues
<1>5. ASSUME NEW c \in Activities, Call(c) PROVE JobHeld'
  BY <1>0, <1>1, <1>5 DEF JobHeld, Call, Step, queueVars
<1>6. ASSUME NEW c \in Activities, Advance(c) PROVE JobHeld'
  <2>1. CASE (\E x \in PCs \ {"idle", "done"} : pc' = [pc EXCEPT ![c] = x])
             /\ pc[c] # "idle" /\ UNCHANGED <<job, tries, stalls>>
    BY <1>0, <1>1, <2>1 DEF JobHeld
  <2> QED
    BY <1>2, <1>3, <1>6, <2>1, AdvanceShape
<1>7. ASSUME NEW c \in Activities, Interrupt(c) PROVE JobHeld'
  BY <1>3, <1>7 DEF Interrupt, Fails
<1>8. ASSUME NEW c \in Jobs, TakeJob(c) PROVE JobHeld'
  BY <1>0, <1>1, <1>8 DEF JobHeld, TakeJob, Step
<1>9. ASSUME NEW e \in Events, Deliver(e) \/ Lose(e) PROVE JobHeld'
  BY <1>4, <1>9 DEF Deliver, Lose, JobHeld, Queues
<1>10. ASSUME NEW q \in Queues, Enqueue(q) PROVE JobHeld'
  BY <1>4, <1>10 DEF Enqueue
<1>11. CASE UNCHANGED <<pc, job, tries, stalls>>
  BY <1>11 DEF JobHeld
<1> QED
  BY <1>5, <1>6, <1>7, <1>8, <1>9, <1>10, <1>11
  DEF Next, Environment, updateStatus, vars, queueVars

LEMMA EvaluationStep == IInv /\ [Next]_vars => EvaluationSound'
<1> SUFFICES ASSUME TypeOK, Places, EvaluationSound, [Next]_vars,
                    NEW d \in Evaluators,
                    pc'[d] \in {"assess", "riskAgent", "riskStatus", "emit"}
             PROVE  view'[d].risk # "none"
  BY DEF IInv, EvaluationSound
<1> USE Kinds DEF TypeOK, Step, Activities
<1>1. CASE pc'[d] = pc[d] /\ view'[d] = view[d]
  BY <1>1 DEF EvaluationSound
<1>2. CASE Advance(d)
  <2>1. CASE Leave(d, "none") \/ Leave(d, "failed") \/ Fails(d)
    BY <2>1 DEF Fails, Throws, Dies, Leave
  <2>2. CASE Evaluating(d)
    BY <2>1, <2>2 DEF Evaluating, Evaluate, CreateAssessment, RecordRiskAgent,
         UpdateRiskStatus, EmitEvaluated, Refuse, Learn, EvaluationSound, callVars
  <2> QED
    BY <1>2, <2>1, <2>2 DEF Advance, Finish
<1>3. CASE Call(d) \/ Interrupt(d)
  BY <1>3 DEF Call, FirstStep, Interrupt, Fails, Throws, Dies, Leave
<1>4. ASSUME NEW c \in Jobs, TakeJob(c) PROVE view'[d].risk # "none"
  BY <1>1, <1>4 DEF TakeJob, FirstStep, Jobs, Evaluators, Deciders, callVars
<1>5. CASE UNCHANGED <<pc, callVars>>
  BY <1>1, <1>5 DEF callVars
<1> QED
  BY <1>1, <1>2, <1>3, <1>4, <1>5, OthersStay, FlowStep

\* Decisions and assessments stay.
LEMMA RowsStay ==
  ASSUME TypeOK, [Next]_vars
  PROVE  /\ assessed \subseteq assessed'
         /\ agents \subseteq agents'
         /\ supervisor.decision # "none" => supervisor' = supervisor
<1> USE DEF TypeOK
<1>1. ASSUME NEW c \in Activities, Advance(c)
      PROVE  /\ assessed \subseteq assessed'
             /\ agents \subseteq agents'
             /\ supervisor.decision # "none" => supervisor' = supervisor
  <2>1. CASE Evaluating(c)
    BY <2>1 DEF Evaluating, Evaluate, CreateAssessment, RecordRiskAgent, UpdateRiskStatus,
                EmitEvaluated, rowVars
  <2>2. CASE Deciding(c)
    BY <2>2 DEF Deciding, CheckUndecided, ReadRisk, ReadConfig, CreateDecision, Fails, Throws, Dies,
                RecordSupervisorAgent, UpdateDecidedStatus, EnqueueOperate, rowVars
  <2>3. CASE Assisting(c)
    BY <2>3 DEF Assisting, CheckPending, CheckAssisted, CheckAssessed, ensureNoManualDecision,
                CreateManualDecision, UpdateManualStatus, executeApprovedDecision, MarkDryRun,
                rowVars
  <2>4. CASE Finish(c)
    BY <2>4 DEF Finish, rowVars
  <2> QED
    BY <1>1, <2>1, <2>2, <2>3, <2>4 DEF Advance
<1>2. ASSUME NEW c \in Activities, Call(c) \/ Interrupt(c) PROVE UNCHANGED <<assessed, agents, supervisor>>
  BY <1>2 DEF Call, Interrupt, Fails, Throws, Dies, rowVars
<1>3. ASSUME NEW c \in Jobs, TakeJob(c) PROVE UNCHANGED <<assessed, agents, supervisor>>
  BY <1>3 DEF TakeJob, rowVars
<1> QED
  BY <1>1, <1>2, <1>3, FlowStep

LEMMA RowsStep == IInv /\ [Next]_vars => RowsSound' /\ AgentMatchesDecision'
<1> SUFFICES ASSUME TypeOK, RowsSound, DecisionSound, AgentMatchesDecision, [Next]_vars
             PROVE  RowsSound' /\ AgentMatchesDecision'
  BY DEF IInv
<1> USE DEF RowsSound, AgentMatchesDecision
<1>1. ASSUME NEW c \in Deciders, CreateDecision(c) PROVE RowsSound' /\ AgentMatchesDecision'
  <2>1. view[c].decision = "OPERATE" /\ pc[c] = "decide" => "APPROVED" \in assessed
    BY DEF DecisionSound, Deliberated
  <2> QED
    BY <1>1, <2>1 DEF CreateDecision, Fails, Throws, Dies, Step, rowVars
<1>2. ASSUME NEW c \in Deciders, RecordSupervisorAgent(c)
      PROVE  RowsSound' /\ AgentMatchesDecision'
  BY <1>2 DEF RecordSupervisorAgent, Step, DecisionSound, Deliberated
<1>3. ASSUME NEW c \in Evaluators, CreateAssessment(c) PROVE RowsSound' /\ AgentMatchesDecision'
  BY <1>3 DEF CreateAssessment
<1>4. ASSUME NEW c \in Evaluators, RecordRiskAgent(c) PROVE RowsSound' /\ AgentMatchesDecision'
  BY <1>4 DEF RecordRiskAgent
<1>5. CASE UNCHANGED <<assessed, latest, supervisor, agents>>
  BY <1>5
<1>6. ASSUME NEW c \in Activities, Advance(c) PROVE RowsSound' /\ AgentMatchesDecision'
  <2>1. CASE c \in Evaluators /\ Evaluating(c)
    BY <1>3, <1>4, <1>5, <2>1 DEF Evaluating, Evaluate, UpdateRiskStatus, EmitEvaluated, rowVars
  <2>2. CASE c \in Deciders /\ Deciding(c)
    BY <1>1, <1>2, <1>5, <2>2 DEF Deciding, CheckUndecided, ReadRisk, ReadConfig,
         UpdateDecidedStatus, EnqueueOperate, rowVars
  <2>3. CASE Assisting(c)
    BY <1>5, <2>3 DEF Assisting, CheckPending, CheckAssisted, CheckAssessed,
         ensureNoManualDecision, CreateManualDecision, UpdateManualStatus,
         executeApprovedDecision, MarkDryRun, rowVars
  <2>4. CASE Finish(c)
    BY <1>5, <2>4 DEF Finish, rowVars
  <2> QED
    BY <1>6, <2>1, <2>2, <2>3, <2>4 DEF Advance
<1>7. ASSUME NEW c \in Activities, Call(c) \/ Interrupt(c)
      PROVE  RowsSound' /\ AgentMatchesDecision'
  BY <1>5, <1>7 DEF Call, Interrupt, Fails, Throws, Dies, rowVars
<1>8. ASSUME NEW c \in Jobs, TakeJob(c) PROVE RowsSound' /\ AgentMatchesDecision'
  BY <1>5, <1>8 DEF TakeJob, rowVars
<1> QED
  BY <1>5, <1>6, <1>7, <1>8, FlowStep

LEMMA OwnDecisionStep ==
  ASSUME IInv, NEW c \in Deciders, Deciding(c)
  PROVE  Deliberated(c)'
<1> USE DEF Deliberated
<1>1. /\ pc \in [Activities -> PCs]
      /\ view \in [Activities -> [risk : {"none", "APPROVED", "REJECTED"},
                                  mode : Modes, decision : Decisions]]
      /\ c \in Activities
      /\ latest # "none" => latest \in assessed
      /\ Deliberated(c)
  BY Kinds DEF IInv, TypeOK, RowsSound, DecisionSound
<1>2. CASE Refuse(c) \/ Fails(c)
  BY <1>1, <1>2 DEF Refuse, Fails, Throws, Dies, Leave
<1>3. CASE CheckUndecided(c) /\ ~Refuse(c)
  BY <1>1, <1>3 DEF CheckUndecided, Check, Step
<1>4. CASE ReadRisk(c) /\ ~Refuse(c)
  BY <1>1, <1>4 DEF ReadRisk, Step, Learn, rowVars
<1>5. CASE ReadConfig(c)
  <2>1. PICK m \in Settings,
             d \in {"OPERATE", "WAIT", "BLOCK"} :
          /\ d = "OPERATE" => view[c].risk = "APPROVED" /\ m # "OFF"
          /\ Learn(c, view[c].risk, m, d)
    BY <1>5 DEF ReadConfig
  <2>2. /\ pc' = [pc EXCEPT ![c] = "decide"] /\ pc[c] = "readConfig"
        /\ assessed' = assessed
    BY <1>5 DEF ReadConfig, Step, rowVars
  <2>3. view'[c] = [risk |-> view[c].risk, mode |-> m, decision |-> d]
    BY <1>1, <2>1 DEF Learn
  <2> QED
    BY <1>1, <2>1, <2>2, <2>3
<1>6. CASE CreateDecision(c) /\ ~Throws(c)
  BY <1>1, <1>6 DEF CreateDecision, Step, callVars
<1>7. CASE RecordSupervisorAgent(c)
  BY <1>1, <1>7 DEF RecordSupervisorAgent, Step, callVars
<1>8. CASE UpdateDecidedStatus(c) \/ EnqueueOperate(c)
  BY <1>1, <1>8 DEF UpdateDecidedStatus, EnqueueOperate, Step, callVars
<1> QED
  BY <1>2, <1>3, <1>4, <1>5, <1>6, <1>7, <1>8 DEF Deciding, Fails

LEMMA DecisionStep == IInv /\ [Next]_vars => DecisionSound'
<1> SUFFICES ASSUME IInv, [Next]_vars, NEW d \in Deciders PROVE Deliberated(d)'
  BY DEF DecisionSound
<1>1. TypeOK /\ Deliberated(d) /\ d \in Activities
  BY Kinds DEF IInv, DecisionSound
<1>2. CASE pc'[d] = pc[d] /\ view'[d] = view[d]
  <2>1. /\ assessed \subseteq assessed'
        /\ agents \subseteq agents'
        /\ supervisor.decision # "none" => supervisor' = supervisor
    BY <1>1, RowsStay
  <2> QED
    BY <1>1, <1>2, <2>1 DEF Deliberated
<1>3. CASE Advance(d)
  <2>1. CASE Leave(d, "none")
    BY <1>1, <2>1 DEF Leave, Deliberated, TypeOK
  <2> QED
    BY <1>3, <2>1, OwnDecisionStep, Kinds DEF Advance, Finish
<1>4. CASE Call(d) \/ Interrupt(d)
  BY <1>1, <1>4, Kinds DEF Call, FirstStep, Step, Interrupt, Fails, Throws, Dies, Leave, Deliberated, TypeOK
<1>5. ASSUME NEW c \in Jobs, TakeJob(c) PROVE Deliberated(d)'
  <2>1. CASE c = d
    BY <1>1, <1>5, <2>1, Kinds DEF TakeJob, FirstStep, Step, Deliberated, TypeOK
  <2>2. CASE c # d
    BY <1>1, <1>2, <1>5, <2>2, Kinds DEF TakeJob, Step, TypeOK, callVars
  <2> QED
    BY <2>1, <2>2
<1>6. CASE UNCHANGED <<pc, callVars>>
  BY <1>2, <1>6 DEF callVars
<1> QED
  BY <1>1, <1>2, <1>3, <1>4, <1>5, <1>6, OthersStay, FlowStep

LEMMA OwnManualStep ==
  ASSUME IInv, NEW c \in ManualCalls, Assisting(c)
  PROVE  Consented(c)'
<1> USE DEF Consented
<1>1. /\ pc \in [Activities -> PCs]
      /\ manual \in [ManualCalls -> {"none", "APPROVE", "REJECT"}]
      /\ view \in [Activities -> [risk : {"none", "APPROVED", "REJECTED"},
                                  mode : Modes, decision : Decisions]]
      /\ c \in Activities
      /\ Consented(c)
  BY Kinds DEF IInv, TypeOK, ManualSound
<1>2. CASE Refuse(c) /\ UNCHANGED <<plan, rowVars>>
  BY <1>1, <1>2, Kinds DEF Refuse, Leave, rowVars
<1>3. CASE CheckPending(c) /\ ~Refuse(c)
  BY <1>1, <1>3 DEF CheckPending, Learn, Step, Approving, rowVars
<1>4. CASE (CheckAssisted(c) \/ CheckAssessed(c) \/ ensureNoManualDecision(c)) /\ ~Refuse(c)
  BY <1>1, <1>4 DEF CheckAssisted, CheckAssessed, ensureNoManualDecision, Check, Step, rowVars
<1>5. CASE CreateManualDecision(c)
  BY <1>1, <1>5 DEF CreateManualDecision, Step, Approving, callVars
<1>6. CASE UpdateManualStatus(c)
  BY <1>1, <1>6 DEF UpdateManualStatus, Step, Approving, callVars
<1>7. CASE executeApprovedDecision(c) \/ MarkDryRun(c)
  BY <1>1, <1>7 DEF executeApprovedDecision, MarkDryRun, Step, callVars
<1> QED
  BY <1>2, <1>3, <1>4, <1>5, <1>6, <1>7
  DEF Assisting, CheckPending, CheckAssisted, CheckAssessed, ensureNoManualDecision

\* Plans and manual decisions change by the steps of their calls alone.
LEMMA ManualStays ==
  ASSUME TypeOK, [Next]_vars, NEW d \in ManualCalls,
         ~Call(d), ~Assisting(d)
  PROVE  plan'[d] = plan[d] /\ manual'[d] = manual[d]
<1> USE Kinds DEF TypeOK
<1>1. ASSUME NEW c \in Activities, Advance(c) PROVE plan'[d] = plan[d] /\ manual'[d] = manual[d]
  <2>1. CASE c \in Evaluators /\ Evaluating(c)
    BY <2>1 DEF Evaluating, Evaluate, CreateAssessment, RecordRiskAgent, UpdateRiskStatus,
                EmitEvaluated, callVars, rowVars
  <2>2. CASE c \in Deciders /\ Deciding(c)
    BY <2>2 DEF Deciding, CheckUndecided, ReadRisk, ReadConfig, CreateDecision, Fails, Throws, Dies,
                RecordSupervisorAgent, UpdateDecidedStatus, EnqueueOperate, callVars, rowVars
  <2>3. CASE c \in ManualCalls /\ Assisting(c)
    BY <2>3 DEF Assisting, CheckPending, CheckAssisted, CheckAssessed, ensureNoManualDecision,
                CreateManualDecision, UpdateManualStatus, executeApprovedDecision, MarkDryRun,
                callVars, rowVars
  <2>4. CASE Finish(c)
    BY <2>4 DEF Finish, rowVars
  <2> QED
    BY <1>1, <2>1, <2>2, <2>3, <2>4 DEF Advance
<1>2. ASSUME NEW c \in Activities, Call(c) \/ Interrupt(c)
      PROVE  plan'[d] = plan[d] /\ manual'[d] = manual[d]
  BY <1>2 DEF Call, Interrupt, Fails, Throws, Dies, rowVars
<1>3. ASSUME NEW c \in Jobs, TakeJob(c) PROVE plan'[d] = plan[d] /\ manual'[d] = manual[d]
  BY <1>3 DEF TakeJob, callVars, rowVars
<1> QED
  BY <1>1, <1>2, <1>3, FlowStep DEF callVars

LEMMA ManualStep == IInv /\ [Next]_vars => ManualSound'
<1> SUFFICES ASSUME IInv, [Next]_vars, NEW d \in ManualCalls PROVE Consented(d)'
  BY DEF ManualSound
<1>1. TypeOK /\ Consented(d) /\ d \in Activities /\ d \notin Jobs
  BY Kinds DEF IInv, ManualSound
<1>2. supervisor.decision # "none" => supervisor' = supervisor
  BY <1>1, RowsStay
<1>3. CASE Assisting(d)
  BY <1>3, OwnManualStep
<1>4. CASE Call(d)
  BY <1>1, <1>2, <1>4, Kinds DEF Call, FirstStep, Step, Consented, TypeOK, rowVars
<1>5. CASE (Finish(d) \/ Interrupt(d)) /\ ~Assisting(d)
  BY <1>1, <1>2, <1>5 DEF Finish, Interrupt, Fails, Throws, Dies, Leave, Consented, TypeOK, rowVars
<1>6. CASE ~Call(d) /\ ~Assisting(d) /\ pc'[d] = pc[d] /\ view'[d] = view[d]
  BY <1>1, <1>2, <1>6, ManualStays DEF Consented
<1>7. ASSUME NEW c \in Jobs, TakeJob(c) PROVE pc'[d] = pc[d] /\ view'[d] = view[d]
  BY <1>1, <1>7, Kinds DEF TakeJob, Step, TypeOK, callVars
<1>8. CASE ~Call(d) /\ ~Advance(d) /\ ~Interrupt(d)
  BY <1>1, <1>6, <1>7, <1>8, OthersStay, FlowStep DEF Advance, callVars
<1> QED
  BY <1>1, <1>3, <1>4, <1>5, <1>8, Kinds DEF Advance

\* A paper job is justified when it is asked for, and stays so.
LEMMA JustifiedStep == IInv /\ [Next]_vars => PaperJobJustified'
<1> SUFFICES ASSUME IInv, [Next]_vars, paperJob' PROVE PaperJobJustified'
  BY DEF PaperJobJustified
<1>1. /\ TypeOK /\ PaperJobJustified
      /\ supervisor.decision = "OPERATE" => "APPROVED" \in assessed
  BY DEF IInv, RowsSound
<1>2. /\ assessed \subseteq assessed'
      /\ agents \subseteq agents'
      /\ supervisor.decision # "none" => supervisor' = supervisor
  BY <1>1, RowsStay
<1>3. CASE paperJob
  <2>1. ASSUME NEW c \in ManualCalls, manual[c] = "APPROVE", plan[c] = "PAPER"
        PROVE  manual'[c] = "APPROVE" /\ plan'[c] = "PAPER"
    <3>1. pc[c] \in {"mark", "execute", "dryRun", "finish", "done"}
      BY <2>1 DEF IInv, ManualSound, Consented
    <3>2. ~Call(c)
      BY <3>1 DEF Call, Step
    <3>3. CASE Assisting(c)
      BY <2>1, <3>1, <3>3 DEF Assisting, CheckPending, CheckAssisted, CheckAssessed,
           ensureNoManualDecision, CreateManualDecision, UpdateManualStatus,
           executeApprovedDecision, MarkDryRun, Check, Step, callVars, rowVars
    <3> QED
      BY <1>1, <2>1, <3>2, <3>3, ManualStays
  <2> QED
    BY <1>1, <1>2, <1>3, <2>1 DEF PaperJobJustified
<1>4. ASSUME NEW c \in Deciders, EnqueueOperate(c), ~paperJob PROVE PaperJobJustified'
  <2>1. Deliberated(c) /\ pc[c] = "enqueue" /\ view[c].decision = "OPERATE" /\ view[c].mode = "PAPER"
    BY <1>4 DEF IInv, DecisionSound, EnqueueOperate, Step
  <2> QED
    BY <1>1, <1>2, <2>1 DEF Deliberated, PaperJobJustified
<1>5. ASSUME NEW c \in ManualCalls, executeApprovedDecision(c), ~paperJob
      PROVE  PaperJobJustified'
  <2>1. Consented(c) /\ pc[c] = "execute" /\ plan[c] = "PAPER"
    BY <1>5 DEF IInv, ManualSound, executeApprovedDecision, Step
  <2>2. manual'[c] = "APPROVE" /\ plan'[c] = "PAPER" /\ supervisor.decision = "OPERATE"
    BY <1>5, <2>1 DEF Consented, executeApprovedDecision, callVars
  <2> QED
    BY <1>1, <1>2, <2>2 DEF PaperJobJustified
<1>6. ASSUME NEW c \in Activities, Advance(c), ~paperJob PROVE PaperJobJustified'
  <2>1. CASE c \in Evaluators /\ Evaluating(c)
    BY <1>6, <2>1 DEF Evaluating, Evaluate, CreateAssessment, RecordRiskAgent,
         UpdateRiskStatus, EmitEvaluated, rowVars
  <2>2. CASE c \in Deciders /\ Deciding(c)
    BY <1>4, <1>6, <2>2 DEF Deciding, CheckUndecided, ReadRisk, ReadConfig, CreateDecision,
         Fails, Throws, Dies, RecordSupervisorAgent, UpdateDecidedStatus, rowVars
  <2>3. CASE c \in ManualCalls /\ Assisting(c)
    BY <1>5, <1>6, <2>3 DEF Assisting, CheckPending, CheckAssisted, CheckAssessed,
         ensureNoManualDecision, CreateManualDecision, UpdateManualStatus, MarkDryRun, rowVars
  <2>4. CASE Finish(c)
    BY <1>6, <2>4 DEF Finish, rowVars
  <2> QED
    BY <1>6, <2>1, <2>2, <2>3, <2>4 DEF Advance
<1>7. ASSUME NEW c \in Activities, Call(c) \/ Interrupt(c) PROVE paperJob' = paperJob
  BY <1>7 DEF Call, Interrupt, Fails, Throws, Dies, rowVars
<1>8. ASSUME NEW c \in Jobs, TakeJob(c) PROVE paperJob' = paperJob
  BY <1>8 DEF TakeJob, rowVars
<1> QED
  BY <1>3, <1>6, <1>7, <1>8, FlowStep

-----------------------------------------------------------------------------
LEMMA FlowInvariant == Spec => []IInv
<1>1. IInv /\ [Next]_vars => IInv'
  BY TypeStep, PlacesStep, JobStep, EvaluationStep, RowsStep, DecisionStep, ManualStep,
     JustifiedStep DEF IInv
<1> QED
  BY <1>1, InitIInv, PTL DEF Spec

\* The state is well typed; above all no job uses more attempts than it has.
THEOREM FlowTyped == Spec => []TypeOK
<1>1. IInv => TypeOK
  BY DEF IInv
<1> QED
  BY <1>1, FlowInvariant, PTL

\* The approval of the supervisor that the paper engine looks for in the agent
\* decisions never stands beside a decision that is not OPERATE, however many
\* calls and attempts decide at once.
THEOREM NoFalseApproval == Spec => []AgentMatchesDecision
<1>1. IInv => AgentMatchesDecision
  BY DEF IInv
<1> QED
  BY <1>1, FlowInvariant, PTL

\* A trade is asked of the paper engine only for a signal with an approved
\* assessment and an OPERATE, and outside of paper mode only when a person
\* approved it for paper trading.
THEOREM NoUnjustifiedTrade == Spec => []PaperJobJustified
<1>1. IInv => PaperJobJustified
  BY DEF IInv
<1> QED
  BY <1>1, FlowInvariant, PTL

-----------------------------------------------------------------------------
(* What the flow owes.  A property that speaks of the quiet states only is *)
(* made inductive by naming, for the states in between, who still has to   *)
(* do what.                                                                *)

\* A decider that wrote its decision and has not acted on it yet.
Writing(c) == pc[c] \in {"agent", "status", "enqueue"}

OneWriter == \A c, d \in Deciders : Writing(c) /\ Writing(d) => c = d

\* An OPERATE in paper mode is in the paper queue, or on its way to it.
OperateCarried ==
  supervisor = [decision |-> "OPERATE", mode |-> "PAPER"] =>
    paperJob \/ interrupted \cap Deciders # {} \/ \E c \in Deciders : Writing(c)

\* The signal waits for a manual decision, or did while a call checked it.
Asked ==
  \/ status = "PENDING"
  \/ \E c \in ManualCalls :
       pc[c] \in {"config", "approved", "existing", "record"} \/ manual[c] # "none"

\* Then the status the supervisor's decision asks for is not written any more.
AskedOnce ==
  "PENDING" \notin Overrides /\ Asked =>
    supervisor.decision # "none" /\ \A c \in Deciders : pc[c] \notin {"agent", "status"}

\* A manual decision is about to be marked where it has not been, and an approval
\* for paper trading to be executed.
Marked(c) ==
  manual[c] # "none" =>
    status # "PENDING" \/ pc[c] = "mark" \/ c \in interrupted \/ "PENDING" \in Overrides

Executed(c) ==
  manual[c] = "APPROVE" /\ plan[c] = "PAPER" =>
    paperJob \/ pc[c] \in {"mark", "execute"} \/ c \in interrupted

AllMarked == \A c \in ManualCalls : Marked(c) /\ Executed(c)

\* The job the queue holds as active is being run, and may be run again.
JobRuns ==
  \A c \in Jobs : pc[c] # "done" /\ (job[QueueOf(c)] = "active" => pc[c] # "idle")

\* The supervisor's job completes with the signal decided.
JobDecided == pc[SupervisorJob] = "finish" => supervisor.decision # "none"

\* A reason why nothing more is owed to an assessed signal ...
Settled ==
  \/ supervisor.decision # "none"
  \/ "RISK_EVALUATED" \in lost
  \/ interrupted \cap RiskCalls # {}
  \/ RiskJob \in interrupted /\ job["risk"] = "failed"
  \/ job["supervisor"] = "failed"

\* ... or what will lead to one: an evaluation that has not emitted its event, the
\* event, another attempt of the evaluation, an attempt of the supervisor's job.
Underway ==
  \/ events["RISK_EVALUATED"] > 0
  \/ \E c \in Evaluators : pc[c] \in {"riskAgent", "riskStatus", "emit"}
  \/ /\ RiskJob \in interrupted
     /\ job["risk"] = "waiting" \/ pc[RiskJob] \in {"evaluate", "assess"}
  \/ job["supervisor"] = "waiting"
  \/ pc[SupervisorJob] \in {"check", "readRisk", "readConfig", "decide"}

DecisionDue == latest # "none" => Settled \/ Underway

\* Without an assessment the supervisor is not asked, but by a hasty call.
NothingEarly ==
  /\ \A c \in Evaluators : pc[c] \in {"riskAgent", "riskStatus", "emit"} => latest # "none"
  /\ latest = "none" =>
       events["RISK_EVALUATED"] = 0 /\ (job["supervisor"] = "none" \/ hasty)

\* Why the supervisor's job fails.
FailedFor ==
  job["supervisor"] = "failed" =>
    supervisor.decision # "none" \/ hasty \/ Exhausted("supervisor")

Owed ==
  /\ OneWriter /\ OperateCarried /\ AskedOnce /\ AllMarked
  /\ JobRuns /\ JobDecided /\ DecisionDue /\ NothingEarly /\ FailedFor

LEMMA InitOwed == Init => Owed
<1> SUFFICES ASSUME Init PROVE Owed
  OBVIOUS
<1>1. /\ \A c \in Activities : pc[c] = "idle"
      /\ \A c \in ManualCalls : manual[c] = "none"
      /\ \A q \in Queues : job[q] = "none"
      /\ supervisor.decision = "none" /\ status = "CREATED" /\ latest = "none"
  BY DEF Init, NoDecision
<1>2. \A c \in Jobs : QueueOf(c) \in Queues
  BY DEF QueueOf, Queues
<1>3. OneWriter /\ OperateCarried
  BY <1>1, Kinds DEF OneWriter, Writing, OperateCarried
<1>4. AskedOnce /\ AllMarked
  BY <1>1, Kinds DEF AskedOnce, Asked, AllMarked, Marked, Executed
<1>5. JobRuns /\ JobDecided /\ DecisionDue
  BY <1>1, <1>2, Kinds DEF JobRuns, JobDecided, DecisionDue, Jobs
<1>6. NothingEarly /\ FailedFor
  BY <1>1, Kinds DEF Init, NothingEarly, FailedFor, Events, Queues
<1> QED
  BY <1>3, <1>4, <1>5, <1>6 DEF Owed

\* A decider comes to write by storing the first decision, in a step that moves
\* nobody else.
LEMMA WritersEnter ==
  ASSUME IInv, [Next]_vars, NEW d \in Deciders, Writing(d)', ~Writing(d)
  PROVE  /\ supervisor.decision = "none"
         /\ supervisor'.decision # "none"
         /\ \A c \in Activities : c # d => pc'[c] = pc[c]
<1>1. /\ TypeOK /\ d \in Activities /\ pc'[d] # pc[d] /\ pc'[d] \notin {"idle", "done"}
  BY Kinds DEF IInv, Writing
<1>2. pc \in [Activities -> PCs]
  BY <1>1 DEF TypeOK
<1>3. CASE Advance(d)
  <2>1. ~Leave(d, "none") /\ ~Leave(d, "failed") /\ ~Fails(d)
    BY <1>1, <1>2 DEF Fails, Throws, Dies, Leave
  <2>2. Deciding(d)
    BY <1>3, <2>1, Kinds DEF Advance, Finish
  <2>3. CreateDecision(d)
    BY <1>1, <1>2, <2>1, <2>2 DEF Deciding, CheckUndecided, ReadRisk, ReadConfig,
         RecordSupervisorAgent, UpdateDecidedStatus, EnqueueOperate, Check, Refuse, Step, Writing
  <2>4. view[d].decision # "none"
    BY <2>3, <2>1 DEF CreateDecision, Step, IInv, DecisionSound, Deliberated
  <2> QED
    BY <1>2, <2>1, <2>3, <2>4 DEF CreateDecision, Step, Fails
<1>4. ~Call(d) /\ ~Interrupt(d)
  BY <1>1, <1>2, Kinds DEF Call, FirstStep, Step, Interrupt, Fails, Throws, Dies, Leave, Writing
<1>5. \A c \in Jobs : ~TakeJob(c)
  BY <1>1, <1>2, Kinds DEF TakeJob, FirstStep, Step, Writing
<1> QED
  BY <1>1, <1>3, <1>4, <1>5, OthersStay, FlowStep

LEMMA WriterStep == IInv /\ OneWriter /\ [Next]_vars => OneWriter'
<1> SUFFICES ASSUME IInv, OneWriter, [Next]_vars,
                    NEW c \in Deciders, NEW d \in Deciders, Writing(c)', Writing(d)', c # d
             PROVE  FALSE
  BY DEF OneWriter
<1>1. c \in Activities /\ d \in Activities
  BY Kinds
<1>2. ASSUME NEW e \in Deciders, Writing(e) PROVE supervisor.decision # "none"
  BY <1>2 DEF Writing, IInv, DecisionSound, Deliberated
<1>3. CASE ~Writing(c)
  BY <1>1, <1>2, <1>3, WritersEnter DEF Writing
<1>4. CASE ~Writing(d)
  BY <1>1, <1>2, <1>4, WritersEnter DEF Writing
<1> QED
  BY <1>3, <1>4 DEF OneWriter

\* Interruptions are remembered.
LEMMA InterruptedStays == ASSUME [Next]_vars PROVE interrupted \subseteq interrupted'
<1>1. ASSUME NEW c \in Activities, Advance(c) PROVE interrupted \subseteq interrupted'
  <2>1. CASE Evaluating(c)
    BY <2>1 DEF Evaluating, Evaluate, CreateAssessment, RecordRiskAgent, UpdateRiskStatus,
                EmitEvaluated, callVars
  <2>2. CASE Deciding(c)
    BY <2>2 DEF Deciding, CheckUndecided, ReadRisk, ReadConfig, CreateDecision, Fails, Throws, Dies,
                RecordSupervisorAgent, UpdateDecidedStatus, EnqueueOperate, callVars
  <2>3. CASE Assisting(c)
    BY <2>3 DEF Assisting, CheckPending, CheckAssisted, CheckAssessed, ensureNoManualDecision,
                CreateManualDecision, UpdateManualStatus, executeApprovedDecision, MarkDryRun,
                callVars
  <2>4. CASE Finish(c)
    BY <2>4 DEF Finish
  <2> QED
    BY <1>1, <2>1, <2>2, <2>3, <2>4 DEF Advance
<1>2. ASSUME NEW c \in Activities, Call(c) \/ Interrupt(c) PROVE interrupted \subseteq interrupted'
  BY <1>2 DEF Call, Interrupt, Fails, Throws, Dies
<1>3. ASSUME NEW c \in Jobs, TakeJob(c) PROVE interrupted \subseteq interrupted'
  BY <1>3 DEF TakeJob, callVars
<1> QED
  BY <1>1, <1>2, <1>3, FlowStep DEF callVars

\* The paper queue is not un-asked.
LEMMA PaperJobStays == ASSUME [Next]_vars, paperJob PROVE paperJob'
<1>1. ASSUME NEW c \in Activities, Advance(c) PROVE paperJob'
  <2>1. CASE Evaluating(c)
    BY <2>1 DEF Evaluating, Evaluate, CreateAssessment, RecordRiskAgent, UpdateRiskStatus,
                EmitEvaluated, rowVars
  <2>2. CASE Deciding(c)
    BY <2>2 DEF Deciding, CheckUndecided, ReadRisk, ReadConfig, CreateDecision, Fails, Throws, Dies,
                RecordSupervisorAgent, UpdateDecidedStatus, EnqueueOperate, rowVars
  <2>3. CASE Assisting(c)
    BY <2>3 DEF Assisting, CheckPending, CheckAssisted, CheckAssessed, ensureNoManualDecision,
                CreateManualDecision, UpdateManualStatus, executeApprovedDecision, MarkDryRun,
                rowVars
  <2>4. CASE Finish(c)
    BY <2>4 DEF Finish, rowVars
  <2> QED
    BY <1>1, <2>1, <2>2, <2>3, <2>4 DEF Advance
<1>2. ASSUME NEW c \in Activities, Call(c) \/ Interrupt(c) PROVE paperJob'
  BY <1>2 DEF Call, Interrupt, Fails, Throws, Dies, rowVars
<1>3. ASSUME NEW c \in Jobs, TakeJob(c) PROVE paperJob'
  BY <1>3 DEF TakeJob, rowVars
<1> QED
  BY <1>1, <1>2, <1>3, FlowStep

\* How a decider that wrote stops to owe anything: it asks the paper queue, or is
\* interrupted.
LEMMA WritersLeave ==
  ASSUME IInv, [Next]_vars, NEW d \in Deciders, Writing(d), ~Writing(d)'
  PROVE  EnqueueOperate(d) \/ d \in interrupted'
<1>1. TypeOK /\ d \in Activities /\ pc'[d] # pc[d]
  BY Kinds DEF IInv, Writing
<1>2. pc \in [Activities -> PCs]
  BY <1>1 DEF TypeOK
<1>3. CASE Advance(d)
  <2>1. Deciding(d)
    BY <1>3, Kinds DEF Advance, Finish, Writing
  <2> QED
    BY <1>1, <1>2, <2>1 DEF Deciding, CheckUndecided, ReadRisk, ReadConfig, CreateDecision,
         RecordSupervisorAgent, UpdateDecidedStatus, Check, Step, Writing
<1>4. CASE Interrupt(d)
  BY <1>4 DEF Interrupt, Halfway, Writing
<1>5. ~Call(d)
  BY DEF Call, Step, Writing
<1>6. \A c \in Jobs : ~TakeJob(c)
  BY <1>1, <1>2, Kinds DEF TakeJob, Step, Writing
<1> QED
  BY <1>1, <1>3, <1>4, <1>5, <1>6, OthersStay, FlowStep

LEMMA CarriedStep == IInv /\ OperateCarried /\ [Next]_vars => OperateCarried'
<1> SUFFICES ASSUME IInv, OperateCarried, [Next]_vars,
                    supervisor' = [decision |-> "OPERATE", mode |-> "PAPER"], ~paperJob',
                    interrupted' \cap Deciders = {}
             PROVE  \E c \in Deciders : Writing(c)'
  BY DEF OperateCarried
<1>1. TypeOK
  BY DEF IInv
<1>2. CASE supervisor = supervisor'
  <2>1. PICK c \in Deciders : Writing(c)
    BY <1>2, PaperJobStays, InterruptedStays DEF OperateCarried
  <2>2. ~EnqueueOperate(c)
    <3>1. CASE EnqueueOperate(c)
      <4>1. pc[c] = "enqueue" /\ ~(view[c].decision = "OPERATE" /\ view[c].mode = "PAPER")
        BY <3>1 DEF EnqueueOperate, Step
      <4>2. supervisor = [decision |-> view[c].decision, mode |-> view[c].mode]
        BY <4>1 DEF IInv, DecisionSound, Deliberated
      <4> QED
        BY <1>2, <4>1, <4>2
    <3> QED
      BY <3>1
  <2> QED
    BY <2>1, <2>2, WritersLeave
<1>3. CASE supervisor # supervisor'
  <2>1. PICK c \in Deciders : CreateDecision(c) /\ ~Throws(c)
    <3>1. ASSUME NEW c \in Activities, Advance(c)
          PROVE  \E d \in Deciders : CreateDecision(d) /\ ~Throws(d)
      BY <1>3, <3>1 DEF Advance, Evaluating, Evaluate, CreateAssessment, RecordRiskAgent,
           UpdateRiskStatus, EmitEvaluated, Deciding, CheckUndecided, ReadRisk, ReadConfig,
           RecordSupervisorAgent, UpdateDecidedStatus, EnqueueOperate, CreateDecision, Fails, Throws, Dies,
           Assisting, CheckPending, CheckAssisted, CheckAssessed, ensureNoManualDecision,
           CreateManualDecision, UpdateManualStatus, executeApprovedDecision, MarkDryRun,
           Finish, rowVars
    <3>2. ASSUME NEW c \in Activities PROVE ~Call(c) /\ ~Interrupt(c)
      BY <1>3 DEF Call, Interrupt, Fails, Throws, Dies, rowVars
    <3>3. ASSUME NEW c \in Jobs PROVE ~TakeJob(c)
      BY <1>3 DEF TakeJob, rowVars
    <3> QED
      BY <1>3, <3>1, <3>2, <3>3, FlowStep
  <2> QED
    BY <1>1, <2>1, Kinds DEF CreateDecision, Step, Writing, TypeOK
<1> QED
  BY <1>2, <1>3

\* Only the supervisor, and users, put a signal up for a manual decision.
LEMMA PendingBy ==
  ASSUME IInv, [Next]_vars, status # "PENDING", status' = "PENDING"
  PROVE  "PENDING" \in Overrides \/ \E c \in Deciders : UpdateDecidedStatus(c)
<1>1. ASSUME NEW c \in Activities, Advance(c) PROVE \E d \in Deciders : UpdateDecidedStatus(d)
  <2>1. CASE c \in Evaluators /\ Evaluating(c)
    <3>1. ~UpdateRiskStatus(c)
      <4>1. view[c].risk # "PENDING"
        BY Kinds, <2>1 DEF IInv, TypeOK
      <4> QED
        BY <4>1 DEF UpdateRiskStatus
    <3> QED
      BY <2>1, <3>1 DEF Evaluating, Evaluate, CreateAssessment, RecordRiskAgent,
           EmitEvaluated, rowVars
  <2>2. CASE c \in Deciders /\ Deciding(c)
    BY <2>2 DEF Deciding, CheckUndecided, ReadRisk, ReadConfig, CreateDecision, Fails, Throws, Dies,
                RecordSupervisorAgent, EnqueueOperate, rowVars
  <2>3. CASE Assisting(c)
    BY <2>3 DEF Assisting, CheckPending, CheckAssisted, CheckAssessed, ensureNoManualDecision,
                CreateManualDecision, UpdateManualStatus, executeApprovedDecision, MarkDryRun,
                rowVars
  <2>4. CASE Finish(c)
    BY <2>4 DEF Finish, rowVars
  <2> QED
    BY <1>1, <2>1, <2>2, <2>3, <2>4 DEF Advance
<1>2. ASSUME NEW c \in Activities PROVE ~Call(c) /\ ~Interrupt(c)
  BY DEF Call, Interrupt, Fails, Throws, Dies, rowVars
<1>3. ASSUME NEW c \in Jobs PROVE ~TakeJob(c)
  BY DEF TakeJob, rowVars
<1>4. ASSUME NEW st \in Overrides, updateStatus(st) PROVE "PENDING" \in Overrides
  BY <1>4 DEF updateStatus
<1> QED
  BY <1>1, <1>2, <1>3, <1>4
  DEF Next, Environment, Deliver, Lose, Enqueue, vars, rowVars

\* A manual call gets past its first check, and decides, only on a signal that
\* was put up for a decision before.
LEMMA AskedBefore ==
  ASSUME IInv, [Next]_vars, NEW c \in ManualCalls,
         \/ pc'[c] \in {"config", "approved", "existing", "record"}
         \/ manual'[c] # "none"
  PROVE  Asked
<1> SUFFICES ASSUME pc[c] \notin {"config", "approved", "existing", "record"},
                    manual[c] = "none", status # "PENDING"
             PROVE  FALSE
  BY DEF Asked
<1>1. /\ TypeOK /\ c \in Activities /\ c \notin Jobs /\ c \notin Evaluators /\ c \notin Deciders
  BY Kinds DEF IInv
<1>2. pc \in [Activities -> PCs]
  BY <1>1 DEF TypeOK
<1>3. CASE Assisting(c)
  <2>1. pc'[c] \notin {"config", "approved", "existing", "record"}
    BY <1>1, <1>2, <1>3 DEF Assisting, CheckPending, CheckAssisted, CheckAssessed,
         ensureNoManualDecision, CreateManualDecision, UpdateManualStatus,
         executeApprovedDecision, MarkDryRun, Check, Refuse, Leave, Step
  <2>2. manual' = manual
    BY <1>1, <1>2, <1>3 DEF Assisting, CheckPending, CheckAssisted, CheckAssessed,
         ensureNoManualDecision, CreateManualDecision, UpdateManualStatus,
         executeApprovedDecision, MarkDryRun, Step, rowVars
  <2> QED
    BY <2>1, <2>2
<1>4. CASE Call(c)
  BY <1>1, <1>2, <1>4 DEF Call, FirstStep, Step, rowVars
<1>5. CASE ~Call(c) /\ ~Assisting(c)
  <2>1. pc'[c] \in {"config", "approved", "existing", "record"}
    BY <1>1, <1>5, ManualStays
  <2>2. ~Finish(c) /\ ~Interrupt(c)
    BY <1>2, <2>1 DEF Finish, Interrupt, Fails, Throws, Dies, Leave
  <2>3. \A d \in Jobs : ~TakeJob(d)
    BY <1>1, <1>2, <2>1, Kinds DEF TakeJob, Step
  <2> QED
    BY <1>1, <1>5, <2>1, <2>2, <2>3, OthersStay, FlowStep DEF Advance
<1> QED
  BY <1>3, <1>4, <1>5

\* A decider at its last write does not go back.
LEMMA LastWrite ==
  ASSUME IInv, [Next]_vars, NEW d \in Deciders, pc[d] = "enqueue"
  PROVE  pc'[d] \notin {"agent", "status"}
<1>1. TypeOK /\ d \in Activities
  BY Kinds DEF IInv
<1>2. pc \in [Activities -> PCs]
  BY <1>1 DEF TypeOK
<1>3. CASE Advance(d)
  BY <1>1, <1>2, <1>3, Kinds DEF Advance, Finish, Deciding, CheckUndecided, ReadRisk,
       ReadConfig, CreateDecision, RecordSupervisorAgent, UpdateDecidedStatus, EnqueueOperate,
       Check, Step
<1>4. CASE Interrupt(d)
  BY <1>1, <1>2, <1>4 DEF Interrupt, Fails, Throws, Dies, Leave
<1>5. ~Call(d) /\ \A c \in Jobs : c = d => ~TakeJob(c)
  BY DEF Call, TakeJob, Step
<1>6. ASSUME NEW c \in Jobs, c # d, TakeJob(c) PROVE pc'[d] = pc[d]
  BY <1>1, <1>2, <1>6, Kinds DEF TakeJob, Step
<1> QED
  BY <1>1, <1>3, <1>4, <1>5, <1>6, OthersStay, FlowStep

LEMMA AskedStep == IInv /\ OneWriter /\ AskedOnce /\ [Next]_vars => AskedOnce'
<1> SUFFICES ASSUME IInv, OneWriter, AskedOnce, [Next]_vars, "PENDING" \notin Overrides, Asked'
             PROVE  /\ supervisor'.decision # "none"
                    /\ \A d \in Deciders : pc'[d] \notin {"agent", "status"}
  BY DEF AskedOnce
<1>1. TypeOK
  BY DEF IInv
<1>2. supervisor.decision # "none" => supervisor'.decision # "none"
  BY <1>1, RowsStay
<1>3. CASE Asked
  <2>1. supervisor.decision # "none" /\ \A d \in Deciders : pc[d] \notin {"agent", "status"}
    BY <1>3 DEF AskedOnce
  <2>2. ASSUME NEW d \in Deciders, pc'[d] \in {"agent", "status"} PROVE FALSE
    <3>1. pc[d] = "enqueue"
      BY <2>1, <2>2, WritersEnter DEF Writing
    <3> QED
      BY <2>2, <3>1, LastWrite
  <2> QED
    BY <1>2, <2>1, <2>2
<1>4. CASE ~Asked
  <2>1. PICK c \in Deciders : UpdateDecidedStatus(c)
    BY <1>4, AskedBefore, PendingBy DEF Asked
  <2>2. c \in Activities /\ pc[c] = "status" /\ pc' = [pc EXCEPT ![c] = "enqueue"]
    BY <2>1, Kinds DEF UpdateDecidedStatus, Step
  <2>3. supervisor.decision # "none"
    BY <2>2 DEF IInv, DecisionSound, Deliberated
  <2>4. ASSUME NEW d \in Deciders PROVE pc'[d] \notin {"agent", "status"}
    BY <1>1, <2>2, Kinds DEF TypeOK, OneWriter, Writing
  <2> QED
    BY <1>2, <2>3, <2>4
<1> QED
  BY <1>3, <1>4

LEMMA MarkStep ==
  IInv /\ AskedOnce /\ AllMarked /\ [Next]_vars => \A c \in ManualCalls : Marked(c)'
<1> SUFFICES ASSUME IInv, AskedOnce, AllMarked, [Next]_vars, NEW c \in ManualCalls,
                    manual'[c] # "none", status' = "PENDING", pc'[c] # "mark",
                    c \notin interrupted', "PENDING" \notin Overrides
             PROVE  FALSE
  BY DEF Marked
<1>1. /\ TypeOK /\ c \in Activities /\ c \notin Jobs /\ c \notin Evaluators /\ c \notin Deciders
  BY Kinds DEF IInv
<1>2. pc \in [Activities -> PCs]
  BY <1>1 DEF TypeOK
<1>3. CASE manual[c] = "none"
  <2>1. ~Call(c)
    BY <1>3 DEF Call, rowVars
  <2>2. CreateManualDecision(c)
    <3>1. Assisting(c)
      BY <1>1, <1>3, <2>1, ManualStays
    <3> QED
      BY <1>3, <3>1 DEF Assisting, CheckPending, CheckAssisted, CheckAssessed,
           ensureNoManualDecision, UpdateManualStatus, executeApprovedDecision, MarkDryRun,
           rowVars
  <2> QED
    BY <1>1, <1>2, <2>2 DEF CreateManualDecision, Step
<1>4. CASE manual[c] # "none" /\ status # "PENDING"
  <2>1. PICK d \in Deciders : UpdateDecidedStatus(d)
    BY <1>4, PendingBy
  <2>2. pc[d] = "status"
    BY <2>1 DEF UpdateDecidedStatus, Step
  <2> QED
    BY <1>4, <2>2 DEF AskedOnce, Asked
<1>5. CASE pc[c] = "mark"
  <2>1. ~Advance(c)
    BY <1>1, <1>2, <1>5 DEF Advance, Finish, Assisting, CheckPending, CheckAssisted,
         CheckAssessed, ensureNoManualDecision, CreateManualDecision, UpdateManualStatus,
         executeApprovedDecision, MarkDryRun, Check, Step
  <2>2. ~Interrupt(c) /\ ~Call(c)
    BY <1>1, <1>5 DEF Interrupt, Halfway, Call, Step
  <2>3. \A d \in Jobs : ~TakeJob(d)
    BY <1>1, <1>2, <1>5, Kinds DEF TakeJob, Step
  <2> QED
    BY <1>1, <1>5, <2>1, <2>2, <2>3, OthersStay, FlowStep
<1>6. c \notin interrupted
  BY InterruptedStays
<1> QED
  BY <1>3, <1>4, <1>5, <1>6 DEF AllMarked, Marked

LEMMA ExecuteStep ==
  IInv /\ AllMarked /\ [Next]_vars => \A c \in ManualCalls : Executed(c)'
<1> SUFFICES ASSUME IInv, AllMarked, [Next]_vars, NEW c \in ManualCalls,
                    manual'[c] = "APPROVE", plan'[c] = "PAPER", ~paperJob',
                    pc'[c] \notin {"mark", "execute"}, c \notin interrupted'
             PROVE  FALSE
  BY DEF Executed
<1>1. /\ TypeOK /\ c \in Activities /\ c \notin Jobs /\ c \notin Evaluators /\ c \notin Deciders
      /\ Consented(c) /\ Executed(c)
  BY Kinds DEF IInv, ManualSound, AllMarked
<1>2. /\ pc \in [Activities -> PCs]
      /\ manual \in [ManualCalls -> {"none", "APPROVE", "REJECT"}]
  BY <1>1 DEF TypeOK
<1>3. CASE Assisting(c)
  <2>1. plan' = plan /\ pc[c] \notin {"idle", "done", "finish"}
    BY <1>3 DEF Assisting, CheckPending, CheckAssisted, CheckAssessed, ensureNoManualDecision,
         CreateManualDecision, UpdateManualStatus, executeApprovedDecision, MarkDryRun, Check,
         Step, callVars
  <2>2. ~CreateManualDecision(c) /\ ~UpdateManualStatus(c)
    BY <1>1, <1>2, <2>1 DEF CreateManualDecision, UpdateManualStatus, Step, Approving
  <2>3. ~executeApprovedDecision(c)
    BY <2>1 DEF executeApprovedDecision
  <2>4. manual' = manual
    BY <1>3, <2>2, <2>3 DEF Assisting, CheckPending, CheckAssisted, CheckAssessed,
         ensureNoManualDecision, MarkDryRun, rowVars
  <2>5. pc[c] \notin {"mark", "execute"}
    BY <1>3, <2>2, <2>3 DEF Assisting, CheckPending, CheckAssisted, CheckAssessed,
         ensureNoManualDecision, MarkDryRun, Check, Step
  <2> QED
    BY <1>1, <2>1, <2>4, <2>5, PaperJobStays, InterruptedStays DEF Executed
<1>4. CASE ~Assisting(c)
  <2>1. ~Call(c)
    BY <1>1, <1>2 DEF Call, Step, Consented, rowVars
  <2>2. plan'[c] = plan[c] /\ manual'[c] = manual[c]
    BY <1>1, <1>4, <2>1, ManualStays
  <2>3. pc[c] \in {"mark", "execute"}
    BY <1>1, <2>2, PaperJobStays, InterruptedStays DEF Executed
  <2>4. ~Advance(c)
    BY <1>1, <1>4, <2>3 DEF Advance, Finish
  <2>5. ~Interrupt(c)
    BY <2>3 DEF Interrupt, Halfway
  <2>6. \A d \in Jobs : ~TakeJob(d)
    BY <1>1, <1>2, <2>3, Kinds DEF TakeJob, Step
  <2> QED
    BY <1>1, <2>1, <2>3, <2>4, <2>5, <2>6, OthersStay, FlowStep
<1> QED
  BY <1>3, <1>4

LEMMA MarkedStep == IInv /\ AskedOnce /\ AllMarked /\ [Next]_vars => AllMarked'
BY MarkStep, ExecuteStep DEF AllMarked

\* A running activity stays where it is until it takes a step or is interrupted.
LEMMA Moves ==
  ASSUME IInv, [Next]_vars, NEW c \in Activities, pc[c] \notin {"idle", "done"},
         ~Advance(c), ~Interrupt(c)
  PROVE  pc'[c] = pc[c]
<1>1. TypeOK
  BY DEF IInv
<1>2. ~Call(c)
  BY DEF Call, Step
<1>3. ASSUME NEW d \in Jobs, TakeJob(d) PROVE pc'[c] = pc[c]
  BY <1>1, <1>3, Kinds DEF TakeJob, Step, TypeOK
<1> QED
  BY <1>1, <1>2, <1>3, OthersStay, FlowStep

LEMMA JobQueues ==
  \A c \in Jobs : QueueOf(c) \in Queues /\ \A d \in Jobs : QueueOf(c) = QueueOf(d) => c = d
BY DEF Jobs, QueueOf, Queues

\* What a step does to a job: nothing, put it in the queue, take it, or end the
\* attempt that runs.
LEMMA JobMoves ==
  ASSUME IInv, [Next]_vars, NEW c \in Jobs, job'[QueueOf(c)] # job[QueueOf(c)]
  PROVE  \/ job[QueueOf(c)] = "none" /\ job'[QueueOf(c)] = "waiting" /\ pc' = pc
         \/ /\ job[QueueOf(c)] = "waiting" /\ job'[QueueOf(c)] = "active"
            /\ pc'[c] = FirstStep(c)
         \/ /\ job[QueueOf(c)] = "active" /\ pc'[c] = "idle"
            /\ Advance(c) \/ Interrupt(c)
<1> DEFINE q == QueueOf(c)
<1>1. /\ TypeOK /\ c \in Activities /\ q \in Queues
      /\ pc[c] # "idle" => job[q] = "active"
  BY Kinds, JobQueues DEF IInv, JobHeld
<1>2. /\ pc \in [Activities -> PCs]
      /\ job \in [Queues -> {"none", "waiting", "active", "failed"}]
  BY <1>1 DEF TypeOK
<1>3. ASSUME NEW d \in Activities, Advance(d) \/ Interrupt(d)
      PROVE  d = c /\ pc[c] # "idle" /\ pc'[c] = "idle"
  <2>1. pc[d] # "idle" /\ (UNCHANGED job \/ \E o : Leave(d, o))
    BY <1>3, AdvanceShape DEF Interrupt, Fails, Throws, Dies
  <2> QED
    BY <1>1, <1>2, <2>1, JobQueues DEF Leave
<1>4. ASSUME NEW d \in Jobs, TakeJob(d)
      PROVE  job[q] = "waiting" /\ job'[q] = "active" /\ pc'[c] = FirstStep(c)
  <2>1. d = c
    BY <1>1, <1>2, <1>4, JobQueues DEF TakeJob
  <2> QED
    BY <1>1, <1>2, <1>4, <2>1 DEF TakeJob, Step
<1>5. ASSUME NEW p \in Queues, Add(p), UNCHANGED pc
      PROVE  job[q] = "none" /\ job'[q] = "waiting" /\ pc' = pc
  BY <1>1, <1>2, <1>5 DEF Add
<1>6. ASSUME NEW e \in Events, Deliver(e)
      PROVE  job[q] = "none" /\ job'[q] = "waiting" /\ pc' = pc
  BY <1>5, <1>6 DEF Deliver, Queues
<1>7. ASSUME NEW p \in Queues, Enqueue(p)
      PROVE  job[q] = "none" /\ job'[q] = "waiting" /\ pc' = pc
  BY <1>5, <1>7 DEF Enqueue
<1>8. ASSUME NEW d \in Activities PROVE ~Call(d)
  BY DEF Call, queueVars
<1>9. ~UNCHANGED vars /\ (\A e \in Events : ~Lose(e)) /\ \A st \in Overrides : ~updateStatus(st)
  BY DEF vars, queueVars, Lose, updateStatus
<1> QED
  BY <1>1, <1>3, <1>4, <1>6, <1>7, <1>8, <1>9 DEF Next, Environment

LEMMA RunsStep == IInv /\ JobRuns /\ [Next]_vars => JobRuns'
<1> SUFFICES ASSUME IInv, JobRuns, [Next]_vars, NEW c \in Jobs
             PROVE  pc'[c] # "done" /\ (job'[QueueOf(c)] = "active" => pc'[c] # "idle")
  BY DEF JobRuns
<1>1. /\ TypeOK /\ c \in Activities /\ c \in Evaluators \cup Deciders
      /\ pc \in [Activities -> PCs]
      /\ job \in [Queues -> {"none", "waiting", "active", "failed"}]
      /\ QueueOf(c) \in Queues
      /\ pc[c] # "done"
  BY Kinds, JobQueues DEF IInv, TypeOK, Jobs, Evaluators, Deciders, JobRuns
<1>2. ASSUME NEW o \in {"none", "waiting", "failed"}, Leave(c, o)
      PROVE  pc'[c] = "idle" /\ job'[QueueOf(c)] = o
  BY <1>1, <1>2 DEF Leave
<1>3. CASE Advance(c)
  <2>1. CASE \E x \in PCs \ {"idle", "done"} : pc' = [pc EXCEPT ![c] = x]
    BY <1>1, <2>1
  <2>2. CASE \E o \in {"none", "waiting", "failed"} : Leave(c, o)
    BY <1>2, <2>2
  <2> QED
    BY <1>1, <1>3, <2>1, <2>2, AdvanceShape DEF Fails, Throws, Dies
<1>4. CASE Interrupt(c)
  BY <1>2, <1>4 DEF Interrupt, Fails, Throws, Dies
<1>5. CASE ~Advance(c) /\ ~Interrupt(c) /\ pc[c] # "idle"
  BY <1>1, <1>5, Moves
<1>6. CASE ~Advance(c) /\ ~Interrupt(c) /\ pc[c] = "idle"
  <2>1. job'[QueueOf(c)] = "active" => pc'[c] = FirstStep(c)
    BY <1>1, <1>6, JobMoves DEF JobRuns
  <2>2. ~Call(c)
    BY DEF Call
  <2>3. ASSUME NEW d \in Jobs, TakeJob(d) PROVE pc'[c] = pc[c] \/ pc'[c] = FirstStep(c)
    BY <1>1, <2>3, Kinds DEF TakeJob, Step
  <2>4. pc'[c] = pc[c] \/ pc'[c] = FirstStep(c)
    BY <1>1, <1>6, <2>2, <2>3, OthersStay, FlowStep
  <2> QED
    BY <1>6, <2>1, <2>4 DEF FirstStep
<1> QED
  BY <1>3, <1>4, <1>5, <1>6

LEMMA DecidedStep == IInv /\ JobDecided /\ [Next]_vars => JobDecided'
<1> SUFFICES ASSUME IInv, JobDecided, [Next]_vars, pc'[SupervisorJob] = "finish"
             PROVE  supervisor'.decision # "none"
  BY DEF JobDecided
<1> DEFINE c == SupervisorJob
<1>1. /\ TypeOK /\ c \in Jobs /\ c \in Deciders /\ c \in Activities
      /\ pc \in [Activities -> PCs]
      /\ supervisor.decision # "none" => supervisor' = supervisor
  BY Kinds, RowsStay DEF IInv, TypeOK, Jobs, Deciders
<1>2. CASE pc[c] = "finish"
  BY <1>1, <1>2 DEF JobDecided
<1>3. CASE Advance(c) /\ pc[c] # "finish"
  <2>1. pc[c] = "enqueue"
    BY <1>1, <1>3, Kinds DEF Advance, Finish, Deciding, CheckUndecided, ReadRisk, ReadConfig,
         CreateDecision, RecordSupervisorAgent, UpdateDecidedStatus, EnqueueOperate, Check,
         Refuse, Fails, Throws, Dies, Leave, Step
  <2> QED
    BY <1>1, <2>1 DEF IInv, DecisionSound, Deliberated
<1>4. CASE Interrupt(c)
  BY <1>1, <1>4 DEF Interrupt, Fails, Throws, Dies, Leave
<1>5. CASE ~Advance(c) /\ ~Interrupt(c) /\ pc[c] # "finish"
  <2>1. pc[c] \in {"idle", "done"}
    BY <1>1, <1>5, Moves
  <2>2. ~Call(c)
    BY <1>1 DEF Call
  <2>3. ASSUME NEW d \in Jobs, TakeJob(d) PROVE pc'[c] # "finish"
    BY <1>1, <2>1, <2>3, Kinds DEF TakeJob, Step, FirstStep
  <2> QED
    BY <1>1, <1>5, <2>1, <2>2, <2>3, OthersStay, FlowStep
<1> QED
  BY <1>2, <1>3, <1>4, <1>5

\* A reason to be settled stays one.
LEMMA SettledStays == ASSUME IInv, [Next]_vars, Settled PROVE Settled'
<1>1. supervisor.decision # "none" => supervisor' = supervisor
  BY RowsStay DEF IInv
<1>2. lost \subseteq lost'
  <2>1. ASSUME NEW c \in Activities, Advance(c) PROVE lost' = lost
    BY <2>1 DEF Advance, Evaluating, Evaluate, CreateAssessment, RecordRiskAgent,
         UpdateRiskStatus, EmitEvaluated, Deciding, CheckUndecided, ReadRisk, ReadConfig,
         RecordSupervisorAgent, UpdateDecidedStatus, EnqueueOperate, CreateDecision, Fails, Throws, Dies,
         Assisting, CheckPending, CheckAssisted, CheckAssessed, ensureNoManualDecision,
         CreateManualDecision, UpdateManualStatus, executeApprovedDecision, MarkDryRun,
         Finish, queueVars
  <2>2. ASSUME NEW c \in Activities, Call(c) \/ Interrupt(c) PROVE lost' = lost
    BY <2>2 DEF Call, Interrupt, Fails, Throws, Dies, queueVars
  <2>3. ASSUME NEW c \in Jobs, TakeJob(c) PROVE lost' = lost
    BY <2>3 DEF TakeJob
  <2> QED
    BY <2>1, <2>2, <2>3
    DEF Next, Environment, Deliver, Lose, Enqueue, updateStatus, vars, queueVars
<1>3. ASSUME NEW c \in Jobs, job[QueueOf(c)] = "failed" PROVE job'[QueueOf(c)] = "failed"
  BY <1>3, JobMoves
<1>4. RiskJob \in Jobs /\ SupervisorJob \in Jobs
      /\ QueueOf(RiskJob) = "risk" /\ QueueOf(SupervisorJob) = "supervisor"
  BY DEF Jobs, QueueOf
<1> QED
  BY <1>1, <1>2, <1>3, <1>4, InterruptedStays DEF Settled

\* An event that was emitted is delivered, to a job that will decide or has
\* decided, or lost.
LEMMA EventLeads ==
  ASSUME IInv, JobRuns, JobDecided, [Next]_vars, events["RISK_EVALUATED"] > 0
  PROVE  Settled' \/ Underway'
<1>1. /\ TypeOK /\ events \in [Events -> Nat] /\ "RISK_EVALUATED" \in Events
      /\ job["supervisor"] \in {"none", "waiting", "active", "failed"}
      /\ job \in [Queues -> {"none", "waiting", "active", "failed"}]
      /\ "supervisor" \in Queues /\ SupervisorJob \in Jobs /\ SupervisorJob \in Deciders
      /\ QueueOf(SupervisorJob) = "supervisor"
  BY DEF IInv, TypeOK, Events, Queues, Jobs, Deciders, QueueOf
<1>2. CASE Deliver("RISK_EVALUATED")
  <2>1. CASE job["supervisor"] # "active"
    BY <1>1, <1>2, <2>1 DEF Deliver, Add, Settled, Underway
  <2>2. CASE job["supervisor"] = "active"
    <3>1. pc[SupervisorJob] \in {"finish", "check", "readRisk", "readConfig", "decide",
                                 "agent", "status", "enqueue"}
      BY <1>1, <2>2 DEF JobRuns, IInv, Places
    <3>2. UNCHANGED <<pc, supervisor>>
      BY <1>2 DEF Deliver, rowVars
    <3>3. pc[SupervisorJob] \in {"agent", "status", "enqueue"} => supervisor.decision # "none"
      BY <1>1 DEF IInv, DecisionSound, Deliberated
    <3> QED
      BY <3>1, <3>2, <3>3 DEF JobDecided, Settled, Underway
  <2> QED
    BY <2>1, <2>2
<1>3. CASE Lose("RISK_EVALUATED")
  BY <1>3 DEF Lose, Settled
<1>4. ASSUME NEW e \in Events, Deliver(e) \/ Lose(e), e # "RISK_EVALUATED"
      PROVE  events'["RISK_EVALUATED"] > 0
  BY <1>1, <1>4 DEF Deliver, Lose
<1>5. ASSUME NEW c \in Activities, Advance(c) PROVE events'["RISK_EVALUATED"] > 0
  <2>1. CASE EmitEvaluated(c)
    BY <1>1, <2>1 DEF EmitEvaluated
  <2>2. CASE ~EmitEvaluated(c)
    BY <1>5, <2>2 DEF Advance, Evaluating, Evaluate, CreateAssessment, RecordRiskAgent,
         UpdateRiskStatus, Deciding, CheckUndecided, ReadRisk, ReadConfig,
         RecordSupervisorAgent, UpdateDecidedStatus, EnqueueOperate, CreateDecision, Fails, Throws, Dies,
         Assisting, CheckPending, CheckAssisted, CheckAssessed, ensureNoManualDecision,
         CreateManualDecision, UpdateManualStatus, executeApprovedDecision, MarkDryRun,
         Finish, queueVars
  <2> QED
    BY <2>1, <2>2
<1>6. ASSUME NEW c \in Activities, Call(c) \/ Interrupt(c) PROVE UNCHANGED events
  BY <1>6 DEF Call, Interrupt, Fails, Throws, Dies, queueVars
<1>7. ASSUME NEW c \in Jobs, TakeJob(c) PROVE UNCHANGED events
  BY <1>7 DEF TakeJob
<1>8. CASE events'["RISK_EVALUATED"] > 0
  BY <1>8 DEF Underway
<1> QED
  BY <1>2, <1>3, <1>4, <1>5, <1>6, <1>7, <1>8
  DEF Next, Environment, Enqueue, updateStatus, vars, queueVars

\* An attempt of a job that ends without the last step of its activity leaves
\* another attempt, or a failed job.
LEMMA AttemptEnds ==
  ASSUME IInv, NEW c \in Jobs, pc[c] # "finish", Advance(c) \/ Interrupt(c)
  PROVE  \/ job'[QueueOf(c)] \in {"waiting", "failed"}
         \/ Advance(c) /\ \E x \in PCs \ {"idle", "done"} : pc' = [pc EXCEPT ![c] = x]
<1>1. /\ TypeOK /\ c \in Activities /\ QueueOf(c) \in Queues
      /\ job \in [Queues -> {"none", "waiting", "active", "failed"}]
  BY Kinds, JobQueues DEF IInv, TypeOK
<1>2. ASSUME NEW o \in {"waiting", "failed"}, Leave(c, o) PROVE job'[QueueOf(c)] = o
  BY <1>1, <1>2 DEF Leave
<1>3. CASE Fails(c)
  BY <1>2, <1>3 DEF Fails, Throws, Dies
<1>4. CASE Advance(c) /\ ~Fails(c) /\ Leave(c, "none")
  <2>1. pc' = [pc EXCEPT ![c] = "idle"]
    BY <1>4 DEF Leave
  <2>2. ~Finish(c)
    BY DEF Finish
  <2>3. Refuse(c)
    BY <1>1, <1>4, <2>1, <2>2, Kinds DEF Advance, Evaluating, Evaluate, CreateAssessment,
         RecordRiskAgent, UpdateRiskStatus, EmitEvaluated, Deciding, CheckUndecided, ReadRisk,
         ReadConfig, CreateDecision, RecordSupervisorAgent, UpdateDecidedStatus,
         EnqueueOperate, Check, Fails, Step, TypeOK
  <2> QED
    BY <1>2, <2>3 DEF Refuse
<1> QED
  BY <1>1, <1>2, <1>3, <1>4, AdvanceShape DEF Interrupt, Fails

\* A job that waits is taken.
LEMMA WaitingLeads ==
  ASSUME IInv, [Next]_vars,
         \/ RiskJob \in interrupted /\ job["risk"] = "waiting"
         \/ job["supervisor"] = "waiting"
  PROVE  Underway'
<1>1. /\ RiskJob \in Jobs /\ QueueOf(RiskJob) = "risk" /\ FirstStep(RiskJob) = "evaluate"
      /\ SupervisorJob \in Jobs /\ QueueOf(SupervisorJob) = "supervisor"
      /\ FirstStep(SupervisorJob) = "check"
  BY Kinds DEF Jobs, QueueOf, FirstStep, Evaluators, Deciders
<1>2. ASSUME NEW c \in Jobs, job[QueueOf(c)] = "waiting"
      PROVE  job'[QueueOf(c)] = "waiting" \/ pc'[c] = FirstStep(c)
  BY <1>2, JobMoves
<1>3. interrupted \subseteq interrupted'
  BY InterruptedStays
<1> QED
  BY <1>1, <1>2, <1>3 DEF Underway

\* An evaluation that stored its assessment emits the event, or is interrupted.
LEMMA EvaluationLeads ==
  ASSUME IInv, [Next]_vars, NEW c \in Evaluators,
         pc[c] \in {"riskAgent", "riskStatus", "emit"}
  PROVE  Settled' \/ Underway'
<1>1. /\ TypeOK /\ c \in Activities /\ c \notin Deciders /\ c \notin ManualCalls
      /\ pc \in [Activities -> PCs]
      /\ events \in [Events -> Nat] /\ "RISK_EVALUATED" \in Events
      /\ c # RiskJob => c \in RiskCalls
      /\ c = RiskJob => c \in Jobs /\ QueueOf(c) = "risk"
  BY Kinds DEF IInv, TypeOK, Events, Evaluators, Jobs, QueueOf
<1>2. CASE Interrupt(c)
  <2>1. CASE c = RiskJob
    <3>1. Fails(c) /\ RiskJob \in interrupted'
      BY <1>2, <2>1 DEF Interrupt, Fails, Halfway
    <3>2. job'["risk"] \in {"waiting", "failed"}
      BY <1>1, <2>1, <3>1, JobQueues DEF Fails, Throws, Dies, Leave, TypeOK
    <3> QED
      BY <3>1, <3>2 DEF Settled, Underway
  <2>2. CASE c # RiskJob
    BY <1>1, <1>2, <2>2 DEF Interrupt, Halfway, Settled
  <2> QED
    BY <2>1, <2>2
<1>3. CASE Advance(c)
  <2>1. RecordRiskAgent(c) \/ UpdateRiskStatus(c) \/ EmitEvaluated(c)
    BY <1>1, <1>3 DEF Advance, Evaluating, Evaluate, CreateAssessment, Finish, Step
  <2>2. CASE EmitEvaluated(c)
    BY <1>1, <2>2 DEF EmitEvaluated, Underway
  <2>3. CASE RecordRiskAgent(c) \/ UpdateRiskStatus(c)
    BY <1>1, <2>3 DEF RecordRiskAgent, UpdateRiskStatus, Step, Underway
  <2> QED
    BY <2>1, <2>2, <2>3
<1>4. CASE ~Advance(c) /\ ~Interrupt(c)
  BY <1>1, <1>4, Moves DEF Underway
<1> QED
  BY <1>2, <1>3, <1>4

\* The risk job goes on to store another assessment, or leaves another attempt.
LEMMA RiskJobLeads ==
  ASSUME IInv, [Next]_vars, RiskJob \in interrupted, pc[RiskJob] \in {"evaluate", "assess"}
  PROVE  Settled' \/ Underway'
<1> DEFINE c == RiskJob
<1>1. /\ TypeOK /\ c \in Jobs /\ c \in Evaluators /\ c \in Activities
      /\ c \notin Deciders /\ c \notin ManualCalls /\ QueueOf(c) = "risk"
      /\ pc \in [Activities -> PCs]
  BY Kinds DEF IInv, TypeOK, Jobs, Evaluators, QueueOf
<1>0. RiskJob \in interrupted'
  BY InterruptedStays
<1>2. CASE job'["risk"] \in {"waiting", "failed"}
  BY <1>0, <1>2 DEF Settled, Underway
<1>3. CASE Advance(c) /\ \E x \in PCs \ {"idle", "done"} : pc' = [pc EXCEPT ![c] = x]
  <2>1. pc'[c] \in {"assess", "riskAgent"}
    BY <1>1, <1>3 DEF Advance, Evaluating, Evaluate, CreateAssessment, RecordRiskAgent,
         UpdateRiskStatus, EmitEvaluated, Finish, Refuse, Leave, Step
  <2> QED
    BY <1>0, <1>1, <2>1 DEF Underway
<1>4. CASE ~Advance(c) /\ ~Interrupt(c)
  BY <1>0, <1>1, <1>4, Moves DEF Underway
<1> QED
  BY <1>1, <1>2, <1>3, <1>4, AttemptEnds

\* The supervisor's job, which finds the assessment, decides or finds a decision,
\* or leaves another attempt.
LEMMA SupervisorLeads ==
  ASSUME IInv, [Next]_vars, pc[SupervisorJob] \in {"check", "readRisk", "readConfig", "decide"}
  PROVE  Settled' \/ Underway'
<1> DEFINE c == SupervisorJob
<1>1. /\ TypeOK /\ c \in Jobs /\ c \in Deciders /\ c \in Activities
      /\ c \notin Evaluators /\ c \notin ManualCalls /\ QueueOf(c) = "supervisor"
      /\ pc \in [Activities -> PCs]
  BY Kinds DEF IInv, TypeOK, Jobs, Deciders, QueueOf
<1>2. CASE job'["supervisor"] \in {"waiting", "failed"}
  BY <1>2 DEF Settled, Underway
<1>3. CASE Advance(c) /\ \E x \in PCs \ {"idle", "done"} : pc' = [pc EXCEPT ![c] = x]
  <2>1. Deciding(c)
    BY <1>1, <1>3 DEF Advance, Finish
  <2>2. CASE pc[c] = "decide"
    <3>1. CreateDecision(c)
      BY <1>1, <1>3, <2>1, <2>2 DEF Deciding, CheckUndecided, ReadRisk, ReadConfig,
           RecordSupervisorAgent, UpdateDecidedStatus, EnqueueOperate, Check, Step
    <3>2. view[c].decision # "none"
      BY <1>1, <2>2 DEF IInv, DecisionSound, Deliberated
    <3> QED
      BY <3>1, <3>2 DEF CreateDecision, Fails, Throws, Dies, rowVars, Settled
  <2>3. CASE pc[c] # "decide"
    <3>1. pc'[c] \in {"readRisk", "readConfig", "decide"}
      BY <1>1, <1>3, <2>1, <2>3 DEF Deciding, CheckUndecided, ReadRisk, ReadConfig,
           CreateDecision, RecordSupervisorAgent, UpdateDecidedStatus, EnqueueOperate, Check,
           Refuse, Leave, Step
    <3> QED
      BY <1>1, <3>1 DEF Underway
  <2> QED
    BY <2>2, <2>3
<1>4. CASE ~Advance(c) /\ ~Interrupt(c)
  BY <1>1, <1>4, Moves DEF Underway
<1> QED
  BY <1>1, <1>2, <1>3, <1>4, AttemptEnds

LEMMA DueStep ==
  IInv /\ JobRuns /\ JobDecided /\ DecisionDue /\ [Next]_vars => DecisionDue'
<1> SUFFICES ASSUME IInv, JobRuns, JobDecided, DecisionDue, [Next]_vars, latest' # "none"
             PROVE  Settled' \/ Underway'
  BY DEF DecisionDue
<1>1. CASE latest # "none"
  BY <1>1, SettledStays, EventLeads, WaitingLeads, EvaluationLeads, RiskJobLeads,
     SupervisorLeads DEF DecisionDue, Underway
<1>2. CASE latest = "none"
  <2>1. PICK c \in Evaluators : CreateAssessment(c)
    <3>1. ASSUME NEW c \in Activities, Advance(c)
          PROVE  \E d \in Evaluators : CreateAssessment(d)
      BY <1>2, <3>1 DEF Advance, Evaluating, Evaluate, RecordRiskAgent,
           UpdateRiskStatus, EmitEvaluated, Deciding, CheckUndecided, ReadRisk, ReadConfig,
           RecordSupervisorAgent, UpdateDecidedStatus, EnqueueOperate, CreateDecision, Fails, Throws, Dies,
           Assisting, CheckPending, CheckAssisted, CheckAssessed, ensureNoManualDecision,
           CreateManualDecision, UpdateManualStatus, executeApprovedDecision, MarkDryRun,
           Finish, rowVars
    <3>2. ASSUME NEW c \in Activities PROVE ~Call(c) /\ ~Interrupt(c)
      BY <1>2 DEF Call, Interrupt, Fails, Throws, Dies, rowVars
    <3>3. ASSUME NEW c \in Jobs PROVE ~TakeJob(c)
      BY <1>2 DEF TakeJob, rowVars
    <3> QED
      BY <1>2, <3>1, <3>2, <3>3, FlowStep
  <2>2. pc'[c] = "riskAgent"
    BY <2>1, Kinds DEF CreateAssessment, Step, IInv, TypeOK
  <2> QED
    BY <2>2 DEF Underway
<1> QED
  BY <1>1, <1>2

\* Assessments are not taken back.
LEMMA LatestStays ==
  ASSUME IInv, [Next]_vars, latest' = "none"
  PROVE  latest = "none"
<1>1. ASSUME NEW c \in Activities, Advance(c) PROVE latest = "none"
  <2>1. CASE c \in Evaluators /\ Evaluating(c)
    <3>1. ~CreateAssessment(c)
      BY <2>1 DEF CreateAssessment, Step, IInv, EvaluationSound
    <3> QED
      BY <2>1, <3>1 DEF Evaluating, Evaluate, RecordRiskAgent, UpdateRiskStatus, EmitEvaluated,
           rowVars
  <2>2. CASE Deciding(c)
    BY <2>2 DEF Deciding, CheckUndecided, ReadRisk, ReadConfig, CreateDecision, Throws,
         RecordSupervisorAgent, UpdateDecidedStatus, EnqueueOperate, rowVars
  <2>3. CASE Assisting(c)
    BY <2>3 DEF Assisting, CheckPending, CheckAssisted, CheckAssessed, ensureNoManualDecision,
         CreateManualDecision, UpdateManualStatus, executeApprovedDecision, MarkDryRun, rowVars
  <2>4. CASE Finish(c)
    BY <2>4 DEF Finish, rowVars
  <2> QED
    BY <1>1, <2>1, <2>2, <2>3, <2>4 DEF Advance
<1>2. ASSUME NEW c \in Activities, Call(c) \/ Interrupt(c) PROVE latest = "none"
  BY <1>2 DEF Call, Interrupt, Throws, Dies, rowVars
<1>3. ASSUME NEW c \in Jobs, TakeJob(c) PROVE latest = "none"
  BY <1>3 DEF TakeJob, rowVars
<1> QED
  BY <1>1, <1>2, <1>3, FlowStep

\* A place after the assessment is reached by storing it.
LEMMA StoredBefore ==
  ASSUME IInv, NothingEarly, [Next]_vars, NEW d \in Evaluators,
         pc'[d] \in {"riskAgent", "riskStatus", "emit"}
  PROVE  latest' # "none"
<1>1. /\ TypeOK /\ d \in Activities /\ d \notin Deciders /\ d \notin ManualCalls
      /\ pc \in [Activities -> PCs]
  BY Kinds DEF IInv, TypeOK
<1>2. CASE pc[d] \in {"riskAgent", "riskStatus", "emit"}
  BY <1>2, LatestStays DEF NothingEarly
<1>3. CASE pc[d] \notin {"riskAgent", "riskStatus", "emit"} /\ Advance(d)
  <2>1. CreateAssessment(d)
    BY <1>1, <1>3 DEF Advance, Finish, Evaluating, Evaluate, Refuse, Leave, RecordRiskAgent,
         UpdateRiskStatus, EmitEvaluated, Step
  <2> QED
    BY <2>1 DEF CreateAssessment, Step, IInv, EvaluationSound
<1>4. ~Call(d) /\ ~Interrupt(d)
  BY <1>1, Kinds DEF Call, FirstStep, Step, Interrupt, Throws, Dies, Leave
<1>5. ASSUME NEW c \in Jobs, TakeJob(c) PROVE pc'[d] = pc[d]
  <2>1. FirstStep(c) \in {"evaluate", "check", "pending"}
    BY DEF FirstStep
  <2> QED
    BY <1>1, <1>5, <2>1, Kinds DEF TakeJob, Step
<1> QED
  BY <1>1, <1>2, <1>3, <1>4, <1>5, OthersStay, FlowStep

\* A hasty call is remembered.
LEMMA HastyStays == ASSUME [Next]_vars, hasty PROVE hasty'
<1>1. ASSUME NEW c \in Activities, Advance(c) PROVE hasty'
  BY <1>1 DEF Advance, Evaluating, Evaluate, CreateAssessment, RecordRiskAgent,
       UpdateRiskStatus, EmitEvaluated, Deciding, CheckUndecided, ReadRisk, ReadConfig,
       RecordSupervisorAgent, UpdateDecidedStatus, EnqueueOperate, CreateDecision, Throws,
       Assisting, CheckPending, CheckAssisted, CheckAssessed, ensureNoManualDecision,
       CreateManualDecision, UpdateManualStatus, executeApprovedDecision, MarkDryRun,
       Finish, queueVars
<1>2. ASSUME NEW c \in Activities, Call(c) \/ Interrupt(c) PROVE hasty'
  BY <1>2 DEF Call, Interrupt, Throws, Dies, queueVars
<1>3. ASSUME NEW c \in Jobs, TakeJob(c) PROVE hasty'
  BY <1>3 DEF TakeJob
<1> QED
  BY <1>1, <1>2, <1>3 DEF Next, Environment, Deliver, Lose, Enqueue, updateStatus, vars, queueVars

LEMMA EarlyStep == IInv /\ NothingEarly /\ [Next]_vars => NothingEarly'
<1> SUFFICES ASSUME IInv, NothingEarly, [Next]_vars, latest' = "none"
             PROVE  events'["RISK_EVALUATED"] = 0 /\ (job'["supervisor"] = "none" \/ hasty')
  BY StoredBefore DEF NothingEarly
<1>1. /\ TypeOK /\ latest = "none" /\ events["RISK_EVALUATED"] = 0
      /\ job["supervisor"] = "none" \/ hasty
      /\ events \in [Events -> Nat] /\ "RISK_EVALUATED" \in Events
      /\ job \in [Queues -> {"none", "waiting", "active", "failed"}]
      /\ "supervisor" \in Queues /\ SupervisorJob \in Jobs
      /\ QueueOf(SupervisorJob) = "supervisor"
  BY LatestStays DEF IInv, TypeOK, NothingEarly, Events, Queues, Jobs, QueueOf
<1>2. ASSUME NEW c \in Activities, Advance(c) PROVE events' = events
  <2>1. c \in Evaluators => ~EmitEvaluated(c)
    BY <1>1 DEF EmitEvaluated, Step, NothingEarly
  <2> QED
    BY <1>2, <2>1 DEF Advance, Evaluating, Evaluate, CreateAssessment, RecordRiskAgent,
         UpdateRiskStatus, Deciding, CheckUndecided, ReadRisk, ReadConfig,
         RecordSupervisorAgent, UpdateDecidedStatus, EnqueueOperate, CreateDecision, Throws,
         Assisting, CheckPending, CheckAssisted, CheckAssessed, ensureNoManualDecision,
         CreateManualDecision, UpdateManualStatus, executeApprovedDecision, MarkDryRun,
         Finish, queueVars
<1>3. ASSUME NEW c \in Activities, Call(c) \/ Interrupt(c) PROVE events' = events
  BY <1>3 DEF Call, Interrupt, Throws, Dies, queueVars
<1>4. ASSUME NEW c \in Jobs, TakeJob(c) PROVE events' = events
  BY <1>4 DEF TakeJob
<1>5. ASSUME NEW e \in Events, Deliver(e) \/ Lose(e)
      PROVE  events'["RISK_EVALUATED"] = 0 /\ e # "RISK_EVALUATED"
  BY <1>1, <1>5 DEF Deliver, Lose
<1>6. events'["RISK_EVALUATED"] = 0
  BY <1>1, <1>2, <1>3, <1>4, <1>5 DEF Next, Environment, Enqueue, updateStatus, vars, queueVars
<1>7. CASE job'["supervisor"] = job["supervisor"] \/ hasty
  BY <1>1, <1>6, <1>7, HastyStays
<1>8. CASE job'["supervisor"] # job["supervisor"] /\ ~hasty
  <2>1. job["supervisor"] = "none" /\ pc' = pc
    BY <1>1, <1>8, JobMoves
  <2>2. ASSUME NEW c \in Activities, Advance(c) \/ Interrupt(c) \/ Call(c) PROVE FALSE
    <3>1. pc[c] # pc'[c] \/ UNCHANGED job
      BY <2>2, AdvanceShape, <1>1 DEF Interrupt, Throws, Dies, Fails, Call, Leave, queueVars,
         TypeOK
    <3> QED
      BY <1>8, <2>1, <3>1
  <2>3. ASSUME NEW c \in Jobs, TakeJob(c) PROVE FALSE
    <3>1. pc[c] = "idle" /\ pc'[c] # "idle"
      BY <1>1, <2>3, Kinds DEF TakeJob, Step, FirstStep, TypeOK
    <3> QED
      BY <2>1, <3>1
  <2>4. ASSUME NEW e \in Events, Deliver(e) PROVE FALSE
    <3>1. e = "SIGNAL_CREATED"
      BY <1>5, <2>4 DEF Events
    <3> QED
      BY <1>1, <1>8, <2>4, <3>1 DEF Deliver, Add, Queues
  <2>5. ASSUME NEW q \in Queues, Enqueue(q) PROVE hasty'
    <3>1. q = "supervisor"
      BY <1>1, <1>8, <2>5 DEF Enqueue, Add
    <3> QED
      BY <1>1, <2>1, <2>5, <3>1 DEF Enqueue
  <2> QED
    BY <1>6, <1>8, <2>2, <2>3, <2>4, <2>5
    DEF Next, Environment, Lose, updateStatus, vars, queueVars
<1> QED
  BY <1>7, <1>8

\* What a failed job used up stays used up.
LEMMA CountsStay ==
  ASSUME IInv, [Next]_vars, NEW q \in Queues, job[q] = "failed"
  PROVE  tries'[q] = tries[q] /\ stalls'[q] = stalls[q]
<1>1. TypeOK /\ \A c \in Jobs : pc[c] # "idle" => QueueOf(c) # q
  BY DEF IInv, JobHeld
<1>2. /\ tries \in [Queues -> 0..MaxAttempts]
      /\ stalls \in [Queues -> 0..MaxStalls + 1]
  BY <1>1 DEF TypeOK
<1>3. ASSUME NEW c \in Activities, Advance(c) \/ Interrupt(c)
      PROVE  tries'[q] = tries[q] /\ stalls'[q] = stalls[q]
  <2>1. pc[c] # "idle" /\ (UNCHANGED <<tries, stalls>> \/ Fails(c))
    BY <1>3, AdvanceShape DEF Interrupt, Fails
  <2> QED
    BY <1>1, <1>2, <2>1, JobQueues DEF Fails, Throws, Dies
<1>4. ASSUME NEW p \in Queues, Add(p) PROVE tries'[q] = tries[q] /\ stalls'[q] = stalls[q]
  BY <1>2, <1>4 DEF Add
<1>5. ASSUME NEW e \in Events, Deliver(e) PROVE tries'[q] = tries[q] /\ stalls'[q] = stalls[q]
  BY <1>4, <1>5 DEF Deliver, Queues
<1> QED
  BY <1>3, <1>4, <1>5
  DEF Next, Environment, Call, TakeJob, Lose, Enqueue, updateStatus, vars, queueVars

LEMMA FailedForStep == IInv /\ NothingEarly /\ FailedFor /\ [Next]_vars => FailedFor'
<1> SUFFICES ASSUME IInv, NothingEarly, FailedFor, [Next]_vars, job'["supervisor"] = "failed"
             PROVE  supervisor'.decision # "none" \/ hasty' \/ Exhausted("supervisor")'
  BY DEF FailedFor
<1> DEFINE c == SupervisorJob
<1>1. /\ TypeOK /\ c \in Jobs /\ c \in Deciders /\ c \in Activities
      /\ c \notin Evaluators /\ c \notin ManualCalls
      /\ QueueOf(c) = "supervisor" /\ "supervisor" \in Queues
      /\ pc \in [Activities -> PCs]
      /\ job \in [Queues -> {"none", "waiting", "active", "failed"}]
      /\ tries \in [Queues -> 0..MaxAttempts]
      /\ stalls \in [Queues -> 0..MaxStalls + 1]
  BY Kinds DEF IInv, TypeOK, Jobs, Deciders, Queues, QueueOf
<1>2. supervisor.decision # "none" => supervisor' = supervisor
  BY <1>1, RowsStay
<1>3. CASE job["supervisor"] = "failed"
  BY <1>1, <1>2, <1>3, CountsStay, HastyStays DEF FailedFor, Exhausted
<1>4. CASE job["supervisor"] # "failed"
  <2>1. job["supervisor"] = "active" /\ (Advance(c) \/ Interrupt(c)) /\ pc'[c] = "idle"
    BY <1>1, <1>4, JobMoves
  <2>2. tries["supervisor"] < MaxAttempts /\ stalls["supervisor"] <= MaxStalls
    BY <1>1, <2>1 DEF IInv, JobHeld
  <2>3. CASE Throws(c)
    <3>1. ~(tries["supervisor"] + 1 < MaxAttempts)
      BY <1>1, <2>3 DEF Throws, Leave
    <3>2. tries'["supervisor"] = tries["supervisor"] + 1
      BY <1>1, <2>3 DEF Throws
    <3>3. tries'["supervisor"] = MaxAttempts
      BY <1>1, <2>2, <3>1, <3>2
    <3> QED
      BY <3>3 DEF Exhausted
  <2>4. CASE Dies(c)
    <3>1. ~(stalls["supervisor"] < MaxStalls)
      BY <1>1, <2>4 DEF Dies, Leave
    <3>2. stalls'["supervisor"] = stalls["supervisor"] + 1
      BY <1>1, <2>4 DEF Dies
    <3>3. stalls'["supervisor"] > MaxStalls
      BY <1>1, <2>2, <3>1, <3>2
    <3> QED
      BY <3>3 DEF Exhausted
  <2>5. CASE Advance(c) /\ ~Throws(c)
    <3>1. ~Finish(c)
      BY <1>1 DEF Finish, Leave
    <3>2. Deciding(c)
      BY <1>1, <2>5, <3>1 DEF Advance
    <3>3. (CheckUndecided(c) \/ ReadRisk(c)) /\ Refuse(c)
      BY <1>1, <2>1, <2>5, <3>2 DEF Deciding, CheckUndecided, ReadRisk, ReadConfig,
           CreateDecision, RecordSupervisorAgent, UpdateDecidedStatus, EnqueueOperate, Check,
           Step
    <3>4. CASE CheckUndecided(c)
      <4>1. pc'[c] # "readRisk"
        BY <2>1
      <4>2. supervisor.decision # "none"
        BY <1>1, <3>4, <4>1 DEF CheckUndecided, Check, Step
      <4> QED
        BY <1>2, <4>2
    <3>5. CASE ReadRisk(c)
      <4>1. latest = "none"
        BY <1>1, <2>1, <3>5 DEF ReadRisk, Step
      <4> QED
        BY <2>1, <4>1, HastyStays DEF NothingEarly
    <3> QED
      BY <3>3, <3>4, <3>5
  <2> QED
    BY <2>1, <2>3, <2>4, <2>5 DEF Interrupt
<1> QED
  BY <1>3, <1>4

-----------------------------------------------------------------------------
LEMMA OwedInvariant == Spec => [](IInv /\ Owed)
<1>1. IInv /\ Owed /\ [Next]_vars => Owed'
  BY WriterStep, CarriedStep, AskedStep, MarkedStep, RunsStep, DecidedStep, DueStep, EarlyStep,
     FailedForStep DEF Owed
<1> QED
  BY <1>1, InitOwed, FlowInvariant, PTL DEF Spec

\* In a quiet state nobody is on the way.
LEMMA QuietEnds ==
  ASSUME IInv, Quiet
  PROVE  /\ \A c \in Activities : ~Writing(c) /\ pc[c] \notin {"mark", "execute"}
         /\ ~Underway
<1>1. /\ RiskJob \in Activities /\ SupervisorJob \in Activities
      /\ Evaluators \subseteq Activities
      /\ {"risk", "supervisor"} = Queues /\ "RISK_EVALUATED" \in Events
  BY Kinds DEF Jobs, Queues, Events
<1>2. \A c \in Activities : pc[c] \in {"idle", "done"}
  BY DEF Quiet
<1>3. job["risk"] # "waiting" /\ job["supervisor"] # "waiting"
      /\ ~(events["RISK_EVALUATED"] > 0)
  BY <1>1 DEF Quiet
<1> QED
  BY <1>1, <1>2, <1>3 DEF Writing, Underway

\* An assessed signal does not fall out of the flow: when nothing is left to do it
\* is decided, or its event was lost, or what stored the assessment ended before it
\* emitted the event and came to nothing, or the supervisor's job was enqueued too
\* early or ran out of attempts.
THEOREM NoSignalForgotten == Spec => []EvaluatedIsDecided
<1>1. IInv /\ Owed => EvaluatedIsDecided
  BY QuietEnds DEF Owed, DecisionDue, FailedFor, Settled, EvaluatedIsDecided
<1> QED
  BY <1>1, OwedInvariant, PTL

\* An OPERATE in paper mode is in the paper queue once the deciders have ended,
\* unless one of them ended between its decision and the queue: the one that lost
\* the race for the decision, or ended before it, is no excuse.
THEOREM NoOperateForgotten == Spec => []OperateIsCarriedOut
<1>1. IInv /\ Owed => OperateIsCarriedOut
  BY QuietEnds, Kinds DEF Owed, OperateCarried, OperateIsCarriedOut
<1> QED
  BY <1>1, OwedInvariant, PTL

\* A signal with a manual decision is not pending any more once the calls have
\* ended, although the supervisor writes that status without looking: its decision
\* is unique, and no call decides before it; and an approval for paper trading is in
\* the paper queue.
THEOREM ManualDecisionsSettle == Spec => []ManualDecisionSettles
<1>1. IInv /\ Owed => ManualDecisionSettles
  BY QuietEnds, Kinds DEF Owed, AllMarked, Marked, Executed, ManualDecisionSettles
<1> QED
  BY <1>1, OwedInvariant, PTL

-----------------------------------------------------------------------------
(* The approvals are recorded, or about to be.                             *)

RiskRecorded ==
  \/ "risk" \in agents
  \/ \E c \in Evaluators : pc[c] = "riskAgent" /\ view[c].risk = "APPROVED"
  \/ interrupted \cap Evaluators # {}

SupervisorRecorded ==
  \/ "supervisor" \in agents
  \/ \E c \in Deciders : pc[c] = "agent" /\ view[c].decision = "OPERATE"
  \/ interrupted \cap Deciders # {}

Recorded ==
  /\ "APPROVED" \in assessed => RiskRecorded
  /\ supervisor.decision = "OPERATE" => SupervisorRecorded


\* An approved assessment appears by the step of an evaluation that approved.
LEMMA AssessmentBy ==
  ASSUME [Next]_vars, assessed' # assessed
  PROVE  \E c \in Evaluators : CreateAssessment(c)
<1>1. ASSUME NEW c \in Activities, Advance(c) PROVE \E d \in Evaluators : CreateAssessment(d)
  BY <1>1 DEF Advance, Evaluating, Evaluate, RecordRiskAgent, UpdateRiskStatus, EmitEvaluated,
       Deciding, CheckUndecided, ReadRisk, ReadConfig, RecordSupervisorAgent,
       UpdateDecidedStatus, EnqueueOperate, CreateDecision, Fails, Throws, Dies, Assisting, CheckPending,
       CheckAssisted, CheckAssessed, ensureNoManualDecision, CreateManualDecision,
       UpdateManualStatus, executeApprovedDecision, MarkDryRun, Finish, rowVars
<1>2. ASSUME NEW c \in Activities PROVE ~Call(c) /\ ~Interrupt(c)
  BY DEF Call, Interrupt, Fails, Throws, Dies, rowVars
<1>3. ASSUME NEW c \in Jobs PROVE ~TakeJob(c)
  BY DEF TakeJob, rowVars
<1> QED
  BY <1>1, <1>2, <1>3, FlowStep

\* The decision appears by the step of a decider, and is what that one came to.
LEMMA DecisionBy ==
  ASSUME [Next]_vars, supervisor' # supervisor
  PROVE  \E c \in Deciders :
           /\ Step(c, "decide", "agent") /\ view' = view
           /\ supervisor.decision = "none"
           /\ supervisor' = [decision |-> view[c].decision, mode |-> view[c].mode]
           /\ UNCHANGED <<status, assessed, latest, agents, manual, plan, paperJob, events, job>>
<1>1. ASSUME NEW c \in Activities, Advance(c)
      PROVE  \E d \in Deciders : CreateDecision(d) /\ ~Throws(d)
  BY <1>1 DEF Advance, Evaluating, Evaluate, CreateAssessment, RecordRiskAgent,
       UpdateRiskStatus, EmitEvaluated, Deciding, CheckUndecided, ReadRisk, ReadConfig,
       RecordSupervisorAgent, UpdateDecidedStatus, EnqueueOperate, CreateDecision, Fails, Throws, Dies,
       Assisting, CheckPending, CheckAssisted, CheckAssessed, ensureNoManualDecision,
       CreateManualDecision, UpdateManualStatus, executeApprovedDecision, MarkDryRun,
       Finish, rowVars
<1>2. ASSUME NEW c \in Activities PROVE ~Call(c) /\ ~Interrupt(c)
  BY DEF Call, Interrupt, Fails, Throws, Dies, rowVars
<1>3. ASSUME NEW c \in Jobs PROVE ~TakeJob(c)
  BY DEF TakeJob, rowVars
<1>4. PICK d \in Deciders : CreateDecision(d) /\ ~Throws(d)
  BY <1>1, <1>2, <1>3, FlowStep
<1> QED
  BY <1>4 DEF CreateDecision, callVars, queueVars

\* An evaluation that approved and is about to record it does so, or is
\* interrupted.
LEMMA RiskRecordedStays == ASSUME IInv, [Next]_vars, RiskRecorded PROVE RiskRecorded'
<1>1. TypeOK /\ agents \subseteq agents'
  BY RowsStay DEF IInv
<1>2. CASE "risk" \in agents \/ interrupted \cap Evaluators # {}
  BY <1>1, <1>2, InterruptedStays DEF RiskRecorded
<1>3. ASSUME NEW c \in Evaluators, pc[c] = "riskAgent", view[c].risk = "APPROVED"
      PROVE  RiskRecorded'
  <2>1. c \in Activities /\ c \notin Deciders /\ c \notin ManualCalls
    BY Kinds
  <2>2. CASE Advance(c)
    <3>1. RecordRiskAgent(c)
      BY <1>3, <2>1, <2>2 DEF Advance, Evaluating, Evaluate, CreateAssessment,
           UpdateRiskStatus, EmitEvaluated, Finish, Step
    <3> QED
      BY <1>3, <3>1 DEF RecordRiskAgent, RiskRecorded
  <2>3. CASE Interrupt(c)
    BY <1>3, <2>3 DEF Interrupt, Halfway, RiskRecorded
  <2>4. CASE ~Advance(c) /\ ~Interrupt(c)
    <3>1. ~Call(c)
      BY <1>3 DEF Call, Step
    <3>2. ASSUME NEW d \in Jobs, TakeJob(d) PROVE pc'[c] = pc[c] /\ view'[c] = view[c]
      BY <1>1, <1>3, <2>1, <3>2, Kinds DEF TakeJob, Step, TypeOK, callVars
    <3>3. pc'[c] = pc[c] /\ view'[c] = view[c]
      BY <1>1, <2>1, <2>4, <3>1, <3>2, OthersStay, FlowStep DEF callVars
    <3> QED
      BY <1>3, <3>3 DEF RiskRecorded
  <2> QED
    BY <2>2, <2>3, <2>4
<1> QED
  BY <1>2, <1>3 DEF RiskRecorded

\* So does the decider that wrote an OPERATE.
LEMMA SupervisorRecordedStays ==
  ASSUME IInv, [Next]_vars, SupervisorRecorded PROVE SupervisorRecorded'
<1>1. TypeOK /\ agents \subseteq agents'
  BY RowsStay DEF IInv
<1>2. CASE "supervisor" \in agents \/ interrupted \cap Deciders # {}
  BY <1>1, <1>2, InterruptedStays DEF SupervisorRecorded
<1>3. ASSUME NEW c \in Deciders, pc[c] = "agent", view[c].decision = "OPERATE"
      PROVE  SupervisorRecorded'
  <2>1. c \in Activities /\ c \notin Evaluators /\ c \notin ManualCalls
    BY Kinds
  <2>2. CASE Advance(c)
    <3>1. RecordSupervisorAgent(c)
      BY <1>3, <2>1, <2>2 DEF Advance, Deciding, CheckUndecided, ReadRisk, ReadConfig,
           CreateDecision, UpdateDecidedStatus, EnqueueOperate, Finish, Check, Step
    <3> QED
      BY <1>3, <3>1 DEF RecordSupervisorAgent, SupervisorRecorded
  <2>3. CASE Interrupt(c)
    BY <1>3, <2>3 DEF Interrupt, Halfway, SupervisorRecorded
  <2>4. CASE ~Advance(c) /\ ~Interrupt(c)
    <3>1. ~Call(c)
      BY <1>3 DEF Call, Step
    <3>2. ASSUME NEW d \in Jobs, TakeJob(d) PROVE pc'[c] = pc[c] /\ view'[c] = view[c]
      BY <1>1, <1>3, <2>1, <3>2, Kinds DEF TakeJob, Step, TypeOK, callVars
    <3>3. pc'[c] = pc[c] /\ view'[c] = view[c]
      BY <1>1, <2>1, <2>4, <3>1, <3>2, OthersStay, FlowStep DEF callVars
    <3> QED
      BY <1>3, <3>3 DEF SupervisorRecorded
  <2> QED
    BY <2>2, <2>3, <2>4
<1> QED
  BY <1>2, <1>3 DEF SupervisorRecorded

LEMMA RecordedInvariant == Spec => [](IInv /\ Recorded)
<1>1. Init => Recorded
  BY DEF Init, NoDecision, Recorded
<1>2. IInv /\ Recorded /\ [Next]_vars => Recorded'
  <2> SUFFICES ASSUME IInv, Recorded, [Next]_vars PROVE Recorded'
    OBVIOUS
  <2>1. ASSUME "APPROVED" \in assessed' PROVE RiskRecorded'
    <3>1. CASE "APPROVED" \in assessed
      BY <3>1, RiskRecordedStays DEF Recorded
    <3>2. CASE "APPROVED" \notin assessed
      <4>1. PICK c \in Evaluators : CreateAssessment(c)
        BY <2>1, <3>2, AssessmentBy
      <4>2. pc'[c] = "riskAgent" /\ view'[c].risk = "APPROVED"
        BY <2>1, <3>2, <4>1, Kinds DEF CreateAssessment, Step, IInv, TypeOK, callVars
      <4> QED
        BY <4>2 DEF RiskRecorded
    <3> QED
      BY <3>1, <3>2
  <2>2. ASSUME supervisor'.decision = "OPERATE" PROVE SupervisorRecorded'
    <3>1. CASE supervisor' = supervisor
      BY <2>2, <3>1, SupervisorRecordedStays DEF Recorded
    <3>2. CASE supervisor' # supervisor
      <4>1. PICK c \in Deciders :
              /\ Step(c, "decide", "agent") /\ view' = view
              /\ supervisor' = [decision |-> view[c].decision, mode |-> view[c].mode]
        BY <3>2, DecisionBy
      <4>2. pc'[c] = "agent" /\ view'[c].decision = "OPERATE"
        BY <2>2, <4>1, Kinds DEF Step, IInv, TypeOK
      <4> QED
        BY <4>2 DEF SupervisorRecorded
    <3> QED
      BY <3>1, <3>2
  <2> QED
    BY <2>1, <2>2 DEF Recorded
<1> QED
  BY <1>1, <1>2, FlowInvariant, PTL DEF Spec

\* A trade is asked for without its approvals on record only in the time between
\* two writes of an evaluation or decider, or after one was interrupted there.
THEOREM ApprovalsFollow == Spec => []ApprovalsRecorded
<1>1. IInv /\ Recorded => ApprovalsRecorded
  BY DEF IInv, PaperJobJustified, Recorded, RiskRecorded, SupervisorRecorded,
         ApprovalsRecorded
<1> QED
  BY <1>1, RecordedInvariant, PTL

-----------------------------------------------------------------------------
(* Refinement of TradeConsent.                                             *)

\* Person and plan of a consent stay.
LEMMA ConsentStays ==
  ASSUME IInv, [Next]_vars, NEW c \in ManualCalls, manual[c] = "APPROVE", plan[c] = "PAPER"
  PROVE  manual'[c] = "APPROVE" /\ plan'[c] = "PAPER"
<1>1. TypeOK /\ pc[c] \in {"mark", "execute", "dryRun", "finish", "done"}
  BY DEF IInv, ManualSound, Consented
<1>2. ~Call(c)
  BY <1>1 DEF Call, Step
<1>3. CASE Assisting(c)
  BY <1>1, <1>3 DEF Assisting, CheckPending, CheckAssisted, CheckAssessed,
       ensureNoManualDecision, CreateManualDecision, UpdateManualStatus,
       executeApprovedDecision, MarkDryRun, Check, Step, callVars, rowVars
<1> QED
  BY <1>1, <1>2, <1>3, ManualStays

\* A person's consent appears by the step that creates the manual decision.
LEMMA ConsentBy ==
  ASSUME IInv, [Next]_vars, NEW c \in ManualCalls,
         manual'[c] = "APPROVE", plan'[c] = "PAPER",
         ~(manual[c] = "APPROVE" /\ plan[c] = "PAPER")
  PROVE  supervisor.decision = "OPERATE"
           /\ UNCHANGED <<assessed, supervisor, paperJob>>
<1>1. TypeOK /\ Consented(c)
  BY DEF IInv, ManualSound
<1>2. CASE Call(c)
  <2>1. manual[c] = "APPROVE" /\ pc[c] = "idle"
    BY <1>2 DEF Call, Step, rowVars
  <2> QED
    BY <1>1, <2>1 DEF Consented
<1>3. CASE Assisting(c)
  <2>1. CreateManualDecision(c)
    BY <1>3 DEF Assisting, CheckPending, CheckAssisted, CheckAssessed, ensureNoManualDecision,
         CreateManualDecision, UpdateManualStatus, executeApprovedDecision, MarkDryRun, callVars,
         rowVars
  <2>2. pc[c] = "record" /\ plan[c] = "PAPER"
    BY <2>1 DEF CreateManualDecision, Step, callVars
  <2> QED
    BY <1>1, <2>1, <2>2 DEF Consented, CreateManualDecision
<1> QED
  BY <1>1, <1>2, <1>3, ManualStays

\* A trade is asked for by the decider that wrote an OPERATE in paper mode, or by
\* the call of a person who consented.
LEMMA RequestBy ==
  ASSUME IInv, [Next]_vars, ~paperJob, paperJob'
  PROVE  /\ \/ supervisor = [decision |-> "OPERATE", mode |-> "PAPER"]
            \/ \E c \in ManualCalls : manual[c] = "APPROVE" /\ plan[c] = "PAPER"
         /\ UNCHANGED <<assessed, supervisor, manual, plan>>
<1>1. ASSUME NEW c \in Deciders, EnqueueOperate(c)
      PROVE  supervisor = [decision |-> "OPERATE", mode |-> "PAPER"]
               /\ UNCHANGED <<assessed, supervisor, manual, plan>>
  BY <1>1 DEF EnqueueOperate, Step, IInv, DecisionSound, Deliberated, callVars
<1>2. ASSUME NEW c \in ManualCalls, executeApprovedDecision(c)
      PROVE  manual[c] = "APPROVE" /\ plan[c] = "PAPER"
               /\ UNCHANGED <<assessed, supervisor, manual, plan>>
  BY <1>2 DEF executeApprovedDecision, Step, IInv, ManualSound, Consented, callVars
<1>3. ASSUME NEW c \in Activities, Advance(c)
      PROVE  \/ \E d \in Deciders : EnqueueOperate(d)
             \/ \E d \in ManualCalls : executeApprovedDecision(d)
  BY <1>3 DEF Advance, Evaluating, Evaluate, CreateAssessment, RecordRiskAgent,
       UpdateRiskStatus, EmitEvaluated, Deciding, CheckUndecided, ReadRisk, ReadConfig,
       RecordSupervisorAgent, UpdateDecidedStatus, CreateDecision, Fails, Throws, Dies, Assisting,
       CheckPending, CheckAssisted, CheckAssessed, ensureNoManualDecision,
       CreateManualDecision, UpdateManualStatus, MarkDryRun, Finish, rowVars
<1>4. ASSUME NEW c \in Activities PROVE ~Call(c) /\ ~Interrupt(c)
  BY DEF Call, Interrupt, Fails, Throws, Dies, rowVars
<1>5. ASSUME NEW c \in Jobs PROVE ~TakeJob(c)
  BY DEF TakeJob, rowVars
<1> QED
  BY <1>1, <1>2, <1>3, <1>4, <1>5, FlowStep

LEMMA ConsentStep ==
  ASSUME IInv, [Next]_vars
  PROVE  [Consent!Next]_(Consent!consentVars)
<1> DEFINE consented == \E c \in ManualCalls : manual[c] = "APPROVE" /\ plan[c] = "PAPER"
<1>1. /\ TypeOK
      /\ assessed \subseteq assessed'
      /\ supervisor.decision = "OPERATE" => "APPROVED" \in assessed
  BY RowsStay DEF IInv, RowsSound
<1>2. consented => consented'
  BY ConsentStays
<1>3. paperJob => paperJob'
  BY PaperJobStays
<1>4. CASE ("APPROVED" \in assessed)' # ("APPROVED" \in assessed)
  <2>1. PICK c \in Evaluators : CreateAssessment(c)
    BY <1>4, AssessmentBy
  <2>2. UNCHANGED <<supervisor, manual, plan, paperJob>>
    BY <2>1 DEF CreateAssessment, callVars
  <2>3. consented' = consented
    BY <2>2
  <2>4. "APPROVED" \notin assessed /\ "APPROVED" \in assessed'
    BY <1>1, <1>4
  <2>5. Consent!Approve
    BY <2>2, <2>3, <2>4 DEF Consent!Approve
  <2> QED
    BY <2>5 DEF Consent!Next
<1>5. CASE supervisor' # supervisor
  <2>1. PICK c \in Deciders :
          /\ Step(c, "decide", "agent")
          /\ supervisor.decision = "none"
          /\ supervisor' = [decision |-> view[c].decision, mode |-> view[c].mode]
          /\ UNCHANGED <<assessed, manual, plan, paperJob>>
    BY <1>5, DecisionBy
  <2>2. /\ view[c].decision \in {"OPERATE", "WAIT", "BLOCK"} /\ view[c].mode \in Modes
        /\ view[c].decision = "OPERATE" => "APPROVED" \in assessed /\ view[c].mode # "OFF"
    BY <1>1, <2>1, Kinds
    DEF Step, TypeOK, Decisions, IInv, DecisionSound, Deliberated
  <2>3. consented' = consented /\ ("APPROVED" \in assessed)' = ("APPROVED" \in assessed)
    BY <2>1
  <2>4. Consent!Decide(view[c].decision, view[c].mode)
    BY <2>1, <2>2, <2>3 DEF Consent!Decide
  <2> QED
    BY <2>2, <2>4 DEF Consent!Next
<1>6. CASE ~consented /\ consented'
  <2>1. supervisor.decision = "OPERATE" /\ UNCHANGED <<assessed, supervisor, paperJob>>
    BY <1>6, ConsentBy
  <2>2. ("APPROVED" \in assessed)' = ("APPROVED" \in assessed)
    BY <2>1
  <2>3. Consent!Consent
    BY <1>6, <2>1, <2>2 DEF Consent!Consent
  <2> QED
    BY <2>3 DEF Consent!Next
<1>7. CASE ~paperJob /\ paperJob'
  <2>1. /\ \/ supervisor = [decision |-> "OPERATE", mode |-> "PAPER"]
           \/ consented
        /\ UNCHANGED <<assessed, supervisor, manual, plan>>
    BY <1>7, RequestBy
  <2>2. consented' = consented /\ ("APPROVED" \in assessed)' = ("APPROVED" \in assessed)
    BY <2>1
  <2>3. Consent!Request
    BY <1>7, <2>1, <2>2 DEF Consent!Request
  <2> QED
    BY <2>3 DEF Consent!Next
<1>8. CASE /\ ("APPROVED" \in assessed)' = ("APPROVED" \in assessed)
           /\ supervisor' = supervisor /\ consented' = consented /\ paperJob' = paperJob
  BY <1>8 DEF Consent!consentVars
<1>9. paperJob \in BOOLEAN /\ paperJob' \in BOOLEAN
  BY <1>1, TypeStep DEF TypeOK, IInv
<1> QED
  BY <1>2, <1>3, <1>4, <1>5, <1>6, <1>7, <1>8, <1>9

\* The flow implements TradeConsent: one decision that is never replaced, an OPERATE
\* after an approval and in a trading mode, consent to an OPERATE alone, and a trade
\* after an OPERATE of the paper mode or a consent.
THEOREM ImplementsConsent == Spec => ConsentSpec
<1>1. Init => Consent!Init
  BY DEF Init, Consent!Init, NoDecision
<1>2. IInv /\ [Next]_vars => [Consent!Next]_(Consent!consentVars)
  BY ConsentStep
<1> QED
  BY <1>1, <1>2, FlowInvariant, PTL DEF Spec, ConsentSpec, Consent!Spec

-----------------------------------------------------------------------------
(* When only the jobs run, they run one after the other, and once.         *)

NoManual == \A c \in ManualCalls : manual[c] = "none"

\* The risk job stored its assessment and has not emitted the event yet.
Stored == pc[RiskJob] \in {"riskAgent", "riskStatus", "emit"}

\* The supervisor's job is still to decide.
ToDecide ==
  job["supervisor"] = "waiting"
    \/ pc[SupervisorJob] \in {"check", "readRisk", "readConfig", "decide"}

\* The signal is evaluated once: by the event of its creation, by the job, or
\* already.
EvaluatedOnce ==
  /\ events["SIGNAL_CREATED"] > 0 =>
       events["SIGNAL_CREATED"] = 1 /\ job["risk"] = "none" /\ latest = "none"
  /\ job["risk"] = "waiting" \/ pc[RiskJob] \in {"evaluate", "assess"} =>
       events["SIGNAL_CREATED"] = 0 /\ latest = "none"
  /\ Stored => latest # "none" /\ view[RiskJob].risk = latest

\* The supervisor's job starts when the risk job is through, and decides once.
DecidedAfter ==
  /\ latest = "none" \/ Stored =>
       events["RISK_EVALUATED"] = 0 /\ job["supervisor"] = "none" /\ supervisor.decision = "none"
  /\ events["RISK_EVALUATED"] > 0 =>
       /\ events["RISK_EVALUATED"] = 1
       /\ job["supervisor"] = "none" /\ supervisor.decision = "none"
  /\ ToDecide => events["RISK_EVALUATED"] = 0 /\ supervisor.decision = "none"
  /\ pc[SupervisorJob] \in {"readConfig", "decide"} => view[SupervisorJob].risk = latest
  /\ supervisor.decision = "OPERATE" => latest = "APPROVED"

\* The status follows the two of them.
StatusFollows ==
  NoManual =>
    /\ latest = "none" => status = "CREATED"
    /\ latest # "none" /\ pc[RiskJob] \notin {"riskAgent", "riskStatus"} =>
         status = IF supervisor = [decision |-> "OPERATE", mode |-> "ASSISTED"]
                       /\ pc[SupervisorJob] \notin {"agent", "status"}
                  THEN "PENDING" ELSE latest

InLine == Undisturbed => EvaluatedOnce /\ DecidedAfter /\ StatusFollows

\* Once there was a call, or something went wrong, the signal stays disturbed: what
\* happens before is a step of a person, of a job, or an event.
LEMMA UndisturbedBefore ==
  ASSUME IInv, [Next]_vars, Undisturbed'
  PROVE  /\ Undisturbed
         /\ \/ \E c \in ManualCalls : Call(c) \/ Advance(c)
            \/ \E c \in Jobs : Advance(c) \/ TakeJob(c)
            \/ \E e \in Events : Deliver(e)
            \/ UNCHANGED vars
<1>1. TypeOK /\ RiskCalls \cup SupervisorCalls \subseteq Activities
      /\ (RiskCalls \cup SupervisorCalls) \cap Jobs = {}
      /\ Activities = Jobs \cup RiskCalls \cup SupervisorCalls \cup ManualCalls
  BY DEF IInv, Activities, Evaluators, Deciders, Jobs
<1>2. ASSUME NEW c \in Activities, Call(c) \/ Advance(c)
      PROVE  extras' = extras
  BY <1>2 DEF Call, Advance, Evaluating, Evaluate, CreateAssessment, RecordRiskAgent,
       UpdateRiskStatus, EmitEvaluated, Deciding, CheckUndecided, ReadRisk, ReadConfig,
       RecordSupervisorAgent, UpdateDecidedStatus, EnqueueOperate, CreateDecision, Fails, Throws, Dies,
       Assisting, CheckPending, CheckAssisted, CheckAssessed, ensureNoManualDecision,
       CreateManualDecision, UpdateManualStatus, executeApprovedDecision, MarkDryRun,
       Finish, queueVars
<1>3. ~Extra
  BY <1>1 DEF Extra, Undisturbed, TypeOK
<1>4. ASSUME NEW c \in RiskCalls \cup SupervisorCalls, Call(c) \/ Advance(c) PROVE FALSE
  <2>1. pc'[c] = "idle" /\ pc \in [Activities -> PCs] /\ c \notin Jobs /\ c \in Activities
    BY <1>1 DEF Undisturbed, TypeOK
  <2>2. ~Call(c)
    BY <2>1, Kinds DEF Call, Step, FirstStep
  <2>3. \A o : ~Leave(c, o)
    BY <2>1 DEF Leave
  <2> QED
    BY <1>4, <2>1, <2>2, <2>3, AdvanceShape DEF Fails, Throws, Dies
<1>5. ASSUME NEW c \in Activities PROVE ~Interrupt(c)
  BY <1>3 DEF Interrupt
<1>6. \/ \E c \in ManualCalls : Call(c) \/ Advance(c)
      \/ \E c \in Jobs : Advance(c) \/ TakeJob(c)
      \/ \E e \in Events : Deliver(e)
      \/ UNCHANGED vars
  <2>1. \A c \in Jobs : ~Call(c)
    BY DEF Call
  <2> QED
    BY <1>1, <1>3, <1>4, <1>5, <2>1 DEF Next, Environment, Lose, Enqueue, updateStatus
<1>7. ASSUME NEW c \in RiskCalls \cup SupervisorCalls PROVE pc'[c] = pc[c]
  <2>1. ASSUME NEW d \in ManualCalls \cup Jobs, Call(d) \/ Advance(d) PROVE pc'[c] = pc[c]
    BY <1>1, <2>1, OthersStay, Kinds, DecisionFlowAssumption
  <2>2. ASSUME NEW d \in Jobs, TakeJob(d) PROVE pc'[c] = pc[c]
    BY <1>1, <2>2 DEF TakeJob, Step, TypeOK
  <2> QED
    BY <1>6, <2>1, <2>2 DEF Deliver, vars
<1>8. extras' = extras
  BY <1>1, <1>2, <1>6 DEF TakeJob, Deliver, vars, queueVars
<1> QED
  BY <1>6, <1>7, <1>8 DEF Undisturbed

\* What the two jobs do is all that this part of the flow depends on.
LEMMA LineFrame ==
  ASSUME EvaluatedOnce, DecidedAfter, StatusFollows,
         UNCHANGED <<events, job, latest, supervisor>>,
         \A c \in Jobs : pc'[c] = pc[c] /\ view'[c] = view[c],
         NoManual' => NoManual /\ status' = status
  PROVE  EvaluatedOnce' /\ DecidedAfter' /\ StatusFollows'
<1>1. pc'[RiskJob] = pc[RiskJob] /\ view'[RiskJob] = view[RiskJob]
      /\ pc'[SupervisorJob] = pc[SupervisorJob] /\ view'[SupervisorJob] = view[SupervisorJob]
  BY DEF Jobs
<1> QED
  BY <1>1 DEF EvaluatedOnce, DecidedAfter, StatusFollows, Stored, ToDecide

\* The places of the two jobs, and what the queue says of them.
LEMMA JobPlaces ==
  ASSUME IInv
  PROVE  /\ pc \in [Activities -> PCs]
         /\ job \in [Queues -> {"none", "waiting", "active", "failed"}]
         /\ events \in [Events -> Nat]
         /\ RiskJob \in Activities /\ SupervisorJob \in Activities
         /\ RiskJob # SupervisorJob
         /\ "risk" \in Queues /\ "supervisor" \in Queues
         /\ "SIGNAL_CREATED" \in Events /\ "RISK_EVALUATED" \in Events
         /\ QueueOf(RiskJob) = "risk" /\ QueueOf(SupervisorJob) = "supervisor"
         /\ pc[RiskJob] # "idle" => job["risk"] = "active"
         /\ pc[SupervisorJob] # "idle" => job["supervisor"] = "active"
         /\ pc[RiskJob] \in {"idle", "done", "finish", "evaluate", "assess", "riskAgent",
                             "riskStatus", "emit"}
         /\ pc[SupervisorJob] \in {"idle", "done", "finish", "check", "readRisk", "readConfig",
                                   "decide", "agent", "status", "enqueue"}
BY Kinds DEF IInv, TypeOK, Places, JobHeld, Jobs, Evaluators, Deciders, Queues, Events, QueueOf

LEMMA LineManual ==
  ASSUME IInv, EvaluatedOnce, DecidedAfter, StatusFollows,
         NEW c \in ManualCalls, Call(c) \/ Advance(c)
  PROVE  EvaluatedOnce' /\ DecidedAfter' /\ StatusFollows'
<1>1. /\ TypeOK /\ c \in Activities /\ c \notin Jobs /\ c \notin Evaluators /\ c \notin Deciders
      /\ Consented(c)
  BY Kinds DEF IInv, ManualSound
<1>2. \A d \in Jobs : pc'[d] = pc[d] /\ view'[d] = view[d]
  BY <1>1, OthersStay, Kinds
<1>3. UNCHANGED <<events, job, latest, supervisor>>
  BY <1>1 DEF Call, Advance, Assisting, CheckPending, CheckAssisted, CheckAssessed,
       ensureNoManualDecision, CreateManualDecision, UpdateManualStatus,
       executeApprovedDecision, MarkDryRun, Finish, Check, Refuse, Leave, queueVars, rowVars
<1>4. ASSUME NoManual' PROVE NoManual /\ status' = status
  <2>1. CASE CreateManualDecision(c)
    <3>1. manual'[c] \in {"APPROVE", "REJECT"}
      BY <1>1, <2>1 DEF CreateManualDecision, TypeOK
    <3> QED
      BY <1>4, <3>1 DEF NoManual
  <2>2. CASE ~CreateManualDecision(c)
    <3>1. manual' = manual
      BY <1>1, <2>2 DEF Call, Advance, Assisting, CheckPending, CheckAssisted, CheckAssessed,
           ensureNoManualDecision, UpdateManualStatus, executeApprovedDecision, MarkDryRun,
           Finish, rowVars
    <3>2. pc[c] \notin {"mark", "dryRun"}
      BY <1>1, <1>4, <3>1 DEF NoManual, Consented
    <3>3. status' = status
      BY <1>1, <2>2, <3>2 DEF Call, Advance, Assisting, CheckPending, CheckAssisted,
           CheckAssessed, ensureNoManualDecision, UpdateManualStatus, executeApprovedDecision,
           MarkDryRun, Finish, Step, rowVars
    <3> QED
      BY <1>4, <3>1, <3>3 DEF NoManual
  <2> QED
    BY <2>1, <2>2
<1> QED
  BY <1>2, <1>3, <1>4, LineFrame

LEMMA LineRisk ==
  ASSUME IInv, EvaluatedOnce, DecidedAfter, StatusFollows, Advance(RiskJob)
  PROVE  EvaluatedOnce' /\ DecidedAfter' /\ StatusFollows'
<1> DEFINE c == RiskJob
<1>1. /\ TypeOK /\ c \in Jobs /\ c \in Evaluators /\ c \notin Deciders /\ c \notin ManualCalls
      /\ view \in [Activities -> [risk : {"none", "APPROVED", "REJECTED"},
                                  mode : Modes, decision : Decisions]]
  BY Kinds DEF IInv, TypeOK, Jobs, Evaluators
<1>2. pc'[SupervisorJob] = pc[SupervisorJob] /\ view'[SupervisorJob] = view[SupervisorJob]
  BY <1>1, JobPlaces, OthersStay
<1> USE JobPlaces DEF EvaluatedOnce, DecidedAfter, StatusFollows, Stored, ToDecide, NoManual
<1>3. CASE Evaluate(c) /\ Refuse(c)
  <2>1. pc[c] = "evaluate" /\ UNCHANGED <<events, rowVars>>
    BY <1>3 DEF Evaluate, Step
  <2> QED
    BY <1>1, <1>2, <1>3, <2>1 DEF Refuse, Leave, rowVars
<1>4. CASE Finish(c)
  BY <1>1, <1>2, <1>4 DEF Finish, Leave, rowVars
<1>5. CASE Evaluate(c) /\ ~Refuse(c)
  BY <1>1, <1>2, <1>5 DEF Evaluate, Step, Learn, rowVars
<1>6. CASE CreateAssessment(c)
  <2>1. view[c].risk # "none"
    BY <1>1, <1>6 DEF CreateAssessment, Step, IInv, EvaluationSound
  <2> QED
    BY <1>1, <1>2, <1>6, <2>1 DEF CreateAssessment, Step, callVars, queueVars
<1>7. CASE RecordRiskAgent(c)
  BY <1>1, <1>2, <1>7 DEF RecordRiskAgent, Step, callVars, queueVars
<1>8. CASE UpdateRiskStatus(c)
  BY <1>1, <1>2, <1>8 DEF UpdateRiskStatus, Step, callVars, queueVars
<1>9. CASE EmitEvaluated(c)
  BY <1>1, <1>2, <1>9 DEF EmitEvaluated, Step, callVars, rowVars
<1> QED
  BY <1>1, <1>3, <1>4, <1>5, <1>6, <1>7, <1>8, <1>9 DEF Advance, Evaluating

LEMMA LineSupervisor ==
  ASSUME IInv, EvaluatedOnce, DecidedAfter, StatusFollows, Advance(SupervisorJob)
  PROVE  EvaluatedOnce' /\ DecidedAfter' /\ StatusFollows'
<1> DEFINE c == SupervisorJob
<1>1. /\ TypeOK /\ c \in Jobs /\ c \in Deciders /\ c \notin Evaluators /\ c \notin ManualCalls
      /\ view \in [Activities -> [risk : {"none", "APPROVED", "REJECTED"},
                                  mode : Modes, decision : Decisions]]
      /\ Deliberated(c)
  BY Kinds DEF IInv, TypeOK, Jobs, Deciders, DecisionSound
<1>2. pc'[RiskJob] = pc[RiskJob] /\ view'[RiskJob] = view[RiskJob]
  BY <1>1, JobPlaces, OthersStay
<1> USE JobPlaces DEF EvaluatedOnce, DecidedAfter, StatusFollows, Stored, ToDecide, NoManual
<1>3. CASE (CheckUndecided(c) \/ ReadRisk(c)) /\ Refuse(c)
  <2>1. pc[c] \in {"check", "readRisk"} /\ UNCHANGED <<events, rowVars>>
    BY <1>3 DEF CheckUndecided, Check, ReadRisk, Step
  <2> QED
    BY <1>1, <1>2, <1>3, <2>1 DEF Refuse, Leave, rowVars
<1>4. CASE Finish(c)
  BY <1>1, <1>2, <1>4 DEF Finish, Leave, rowVars
<1>5. CASE CheckUndecided(c) /\ ~Refuse(c)
  BY <1>1, <1>2, <1>5 DEF CheckUndecided, Check, Step, rowVars
<1>6. CASE ReadRisk(c) /\ ~Refuse(c)
  BY <1>1, <1>2, <1>6 DEF ReadRisk, Step, Learn, rowVars
<1>7. CASE ReadConfig(c)
  BY <1>1, <1>2, <1>7 DEF ReadConfig, Step, Learn, queueVars, rowVars
<1>8. CASE CreateDecision(c)
  <2>1. pc[c] = "decide" /\ supervisor.decision = "none"
    BY <1>8 DEF CreateDecision, Step
  <2>2. /\ Step(c, "decide", "agent")
        /\ supervisor' = [decision |-> view[c].decision, mode |-> view[c].mode]
        /\ UNCHANGED <<callVars, queueVars, status, assessed, latest, agents, manual, paperJob>>
    BY <1>8, <2>1 DEF CreateDecision
  <2>3. supervisor'.decision = "OPERATE" => latest = "APPROVED"
    BY <1>1, <2>1, <2>2 DEF Deliberated
  <2>4. pc[RiskJob] \notin {"riskAgent", "riskStatus"} /\ latest # "none"
        /\ (NoManual => status = latest)
    BY <2>1
  <2> QED
    BY <1>1, <1>2, <2>1, <2>2, <2>3, <2>4 DEF Step, callVars, queueVars
<1>9. CASE RecordSupervisorAgent(c)
  BY <1>1, <1>2, <1>9 DEF RecordSupervisorAgent, Step, callVars, queueVars
<1>10. CASE UpdateDecidedStatus(c)
  <2>1. /\ pc[c] = "status"
        /\ supervisor = [decision |-> view[c].decision, mode |-> view[c].mode]
        /\ view[c].decision # "none"
        /\ view[c].decision = "OPERATE" => view[c].mode # "OFF" /\ latest = "APPROVED"
    BY <1>1, <1>10 DEF UpdateDecidedStatus, Step, Deliberated
  <2>2. view[c].mode \in {"PAPER", "ASSISTED", "OFF"}
    BY <1>1 DEF Modes
  <2>3. /\ pc' = [pc EXCEPT ![c] = "enqueue"]
        /\ status' = IF view[c].decision # "OPERATE" THEN status
                     ELSE IF view[c].mode = "PAPER" THEN "APPROVED" ELSE "PENDING"
        /\ UNCHANGED <<view, events, job, latest, supervisor, manual>>
    BY <1>10 DEF UpdateDecidedStatus, Step, callVars, queueVars
  <2>4. pc[RiskJob] \notin {"riskAgent", "riskStatus"} /\ latest # "none"
        /\ (NoManual => status = latest)
    BY <2>1
  <2>5. NoManual' => status' =
          IF supervisor = [decision |-> "OPERATE", mode |-> "ASSISTED"] THEN "PENDING" ELSE latest
    BY <2>1, <2>2, <2>3, <2>4
  <2> QED
    BY <1>1, <1>2, <2>1, <2>3, <2>4, <2>5
<1>11. CASE EnqueueOperate(c)
  BY <1>1, <1>2, <1>11 DEF EnqueueOperate, Step, callVars, queueVars
<1> QED
  BY <1>1, <1>3, <1>4, <1>5, <1>6, <1>7, <1>8, <1>9, <1>10, <1>11
  DEF Advance, Deciding

LEMMA LineTake ==
  ASSUME IInv, EvaluatedOnce, DecidedAfter, StatusFollows, NEW c \in Jobs, TakeJob(c)
  PROVE  EvaluatedOnce' /\ DecidedAfter' /\ StatusFollows'
<1> USE JobPlaces
        DEF EvaluatedOnce, DecidedAfter, StatusFollows, Stored, ToDecide, NoManual
<1>1. CASE c = RiskJob
  <2>1. FirstStep(c) = "evaluate"
    BY <1>1 DEF FirstStep, Evaluators
  <2> QED
    BY <1>1, <2>1 DEF TakeJob, Step, callVars, rowVars
<1>2. CASE c = SupervisorJob
  <2>1. FirstStep(c) = "check"
    BY <1>2, Kinds DEF FirstStep, Deciders
  <2> QED
    BY <1>2, <2>1 DEF TakeJob, Step, callVars, rowVars
<1> QED
  BY <1>1, <1>2 DEF Jobs

LEMMA LineDeliver ==
  ASSUME IInv, EvaluatedOnce, DecidedAfter, StatusFollows, NEW e \in Events, Deliver(e)
  PROVE  EvaluatedOnce' /\ DecidedAfter' /\ StatusFollows'
<1> USE JobPlaces
        DEF EvaluatedOnce, DecidedAfter, StatusFollows, Stored, ToDecide, NoManual
<1>1. CASE e = "SIGNAL_CREATED"
  BY <1>1 DEF Deliver, Add, callVars, rowVars
<1>2. CASE e = "RISK_EVALUATED"
  BY <1>2 DEF Deliver, Add, callVars, rowVars
<1> QED
  BY <1>1, <1>2 DEF Events

LEMMA InLineInvariant == Spec => [](IInv /\ InLine)
<1>1. Init => InLine
  <2> SUFFICES ASSUME Init PROVE EvaluatedOnce /\ DecidedAfter /\ StatusFollows
    BY DEF InLine
  <2>1. RiskJob \in Activities /\ SupervisorJob \in Activities
    BY Kinds DEF Jobs
  <2> QED
    BY <2>1 DEF Init, NoDecision, Queues, Events, EvaluatedOnce, DecidedAfter, StatusFollows,
                Stored, ToDecide
<1>2. IInv /\ InLine /\ [Next]_vars => InLine'
  <2> SUFFICES ASSUME IInv, InLine, [Next]_vars, Undisturbed'
               PROVE  EvaluatedOnce' /\ DecidedAfter' /\ StatusFollows'
    BY DEF InLine
  <2>1. EvaluatedOnce /\ DecidedAfter /\ StatusFollows
    BY UndisturbedBefore DEF InLine
  <2>2. CASE UNCHANGED vars
    BY <2>1, <2>2, LineFrame DEF vars, callVars, queueVars, rowVars, NoManual
  <2>3. ASSUME NEW c \in Jobs, Advance(c)
        PROVE  EvaluatedOnce' /\ DecidedAfter' /\ StatusFollows'
    BY <2>1, <2>3, LineRisk, LineSupervisor DEF Jobs
  <2> QED
    BY <2>1, <2>2, <2>3, UndisturbedBefore, LineManual, LineTake, LineDeliver
<1> QED
  BY <1>1, <1>2, FlowInvariant, PTL DEF Spec

\* Left to its jobs, the flow ends with the status of its decision: pending in the
\* assisted mode, else the verdict of the evaluation, whatever people do beside.
THEOREM JobsLeaveTheStatus == Spec => []StatusShowsDecision
<1>1. IInv /\ InLine => StatusShowsDecision
  <2> SUFFICES ASSUME IInv, InLine, Quiet, Undisturbed, NoManual
               PROVE  status = IF latest = "none" THEN "CREATED"
                               ELSE IF supervisor.decision = "OPERATE"
                                         /\ supervisor.mode = "ASSISTED" THEN "PENDING"
                               ELSE latest
    BY DEF StatusShowsDecision, NoManual
  <2>1. pc[RiskJob] \in {"idle", "done"} /\ pc[SupervisorJob] \in {"idle", "done"}
    BY JobPlaces DEF Quiet
  <2>2. supervisor \in [decision : Decisions, mode : Modes]
    BY DEF IInv, TypeOK
  <2>3. (supervisor = [decision |-> "OPERATE", mode |-> "ASSISTED"])
          <=> supervisor.decision = "OPERATE" /\ supervisor.mode = "ASSISTED"
    BY <2>2
  <2> QED
    BY <2>1, <2>3 DEF InLine, StatusFollows
<1> QED
  BY <1>1, InLineInvariant, PTL
=============================================================================
