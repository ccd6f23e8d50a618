SPECIFICATION OutcomeSpec
CONSTANTS
  m1 = m1
  o1 = o1
  s1 = s1
  s2 = s2
  ag = ag
  Merchants = {}
  Operators = {o1}
  Supervisors = {s1}
  Agents = {}
  Items = {}
  Codes = {c1}
  Checks = {}
  Scenarios = {}
  Clocks = {"EARLY"}
  Reports <- SomeReports
  MaxVersion = 3
  MaxPackages = 0
  MaxDecisions = 0
  MaxEvents = 2
  MaxLedger = 1
  MaxStage = 2
CHECK_DEADLOCK FALSE
INVARIANT NoOrphanTask
