SPECIFICATION Spec
CONSTANTS
  Cases = {c1, c2}
  Users = {"merchant", "operator", "chief"}
  Role <- Roles
  Grants <- Rights
  Merchant <- Owner
  Legacy <- Old
  Migrated <- Renamed
  Page <- Pages
  Mixes <- Followed
  None = None
  c1 = c1
  c2 = c2
INVARIANTS
  CursorIsReturned
CHECK_DEADLOCK FALSE
