SPECIFICATION Spec
CHECK_DEADLOCK FALSE
CONSTANTS
  RiskJob = riskJob
  SupervisorJob = supervisorJob
  RiskCalls = {}
  SupervisorCalls = {}
  ManualCalls = {m1, m2}
  Settings = {"PAPER", "ASSISTED"}
  Overrides = {}
  MaxAttempts = 1
  MaxStalls = 1
  MaxExtras = 0
INVARIANTS
  OneManualDecision
