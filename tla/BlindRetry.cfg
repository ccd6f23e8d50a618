SPECIFICATION Spec
CONSTANTS
  m1 = m1
  o1 = o1
  s1 = s1
  s2 = s2
  ag = ag
  Merchants = {}
  Operators = {}
  Supervisors = {s1, s2}
  Agents = {}
  Items = {e1}
  Codes = {c1}
  Checks = {"SUPPORTED"}
  Scenarios = {"TECHNICAL_FAILURE", "TIMEOUT"}
  Clocks = {"EARLY"}
  Reports <- NoReports
  MaxVersion = 2
  MaxPackages = 2
  MaxDecisions = 1
  MaxEvents = 0
  MaxLedger = 0
  MaxStage = 1
SYMMETRY StaffSymmetry
CHECK_DEADLOCK FALSE
INVARIANT QueryBeforeRetry
