SPECIFICATION ContestSpec
CONSTANTS
  m1 = m1
  o1 = o1
  s1 = s1
  s2 = s2
  ag = ag
  Merchants = {m1}
  Operators = {}
  Supervisors = {s1, s2}
  Agents = {}
  Items = {e1}
  Codes = {c1}
  Checks = {"SUPPORTED", "NEEDS_MANUAL"}
  Scenarios = {"TIMEOUT"}
  Clocks = {"EARLY"}
  Reports <- NoReports
  MaxVersion = 6
  MaxPackages = 2
  MaxDecisions = 2
  MaxEvents = 1
  MaxLedger = 0
  MaxStage = 2
SYMMETRY StaffSymmetry
INVARIANTS IndependentApproval SentWasApproved WaitingIsAsked PackageFresh ReviewFresh ProposalsWork
PROPERTIES ChangesInvalidate
CHECK_DEADLOCK FALSE
