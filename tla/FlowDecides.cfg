SPECIFICATION Spec
CHECK_DEADLOCK FALSE
CONSTANTS
  RiskJob = riskJob
  SupervisorJob = supervisorJob
  RiskCalls = {}
  SupervisorCalls = {d1}
  ManualCalls = {m1}
  Settings = {"PAPER", "ASSISTED"}
  Overrides = {"REJECTED"}
  MaxAttempts = 2
  MaxStalls = 1
  MaxExtras = 1
INVARIANTS
  TypeOK
  AgentMatchesDecision
  EvaluatedIsDecided
  OperateIsCarriedOut
  ManualDecisionSettles
  ApprovalsRecorded
  StatusShowsDecision
PROPERTIES
  ConsentSpec
