SPECIFICATION Spec
CONSTANTS
  Reasons = {fraud, lost}
  Networks = {visa, mastercard}
  Catalogue <- Order
  Threads = {w1}
  None = None
  Policies <- Policy
  DefaultReason = lost
  Releases <- Seeds
  NetworkRules <- BuiltInRules
  Clients = {k1, k2}
  Turns = {t1}
  Summaries = {s1}
  Loads <- Mixes
  fraud = fraud
  lost = lost
  visa = visa
  mastercard = mastercard
  threeds = threeds
  receipt = receipt
INVARIANTS
  ApprovedAsSeen
PROPERTIES
  ConfirmedFactsStand
  SummariesCurrent
CHECK_DEADLOCK FALSE
