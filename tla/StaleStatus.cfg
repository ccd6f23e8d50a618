SPECIFICATION StaleSpec
CONSTANTS
  m1 = m1
  o1 = o1
  s1 = s1
  s2 = s2
  ag = ag
  Merchants = {m1}
  Operators = {}
  Supervisors = {s1, s2}
  Agents = {}
  Items = {e1}
  Codes = {c1}
  Checks = {"SUPPORTED"}
  Scenarios = {"TIMEOUT"}
  Clocks = {"EARLY"}
  Reports <- UnclearOrNext
  MaxVersion = 6
  MaxPackages = 2
  MaxDecisions = 2
  MaxEvents = 3
  MaxLedger = 0
  MaxStage = 2
INVARIANT ReviewsIndependent
CHECK_DEADLOCK FALSE
