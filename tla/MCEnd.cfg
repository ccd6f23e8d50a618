SPECIFICATION EndSpec
CONSTANTS
  m1 = m1
  o1 = o1
  s1 = s1
  s2 = s2
  ag = ag
  Merchants = {m1}
  Operators = {o1}
  Supervisors = {s1}
  Agents = {ag}
  Items = {}
  Codes = {c1}
  Checks = {}
  Scenarios = {"ACCEPTED", "TECHNICAL_FAILURE", "TIMEOUT", "RESPONSE_LOST"}
  Clocks = {"EARLY", "DUE", "LATE", "EXPIRED"}
  Reports <- SomeReports
  MaxVersion = 3
  MaxPackages = 0
  MaxDecisions = 2
  MaxEvents = 2
  MaxLedger = 1
  MaxStage = 2
INVARIANTS ContestHasRights OneAcceptance OutcomeIsCurrent PendingHasTask FinalStopsWork ClosedSettled AdviceAgrees
PROPERTIES AcceptedIsFinal
CHECK_DEADLOCK FALSE
