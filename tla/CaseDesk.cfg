SPECIFICATION FairSpec
CONSTANTS
  Cases = {c1}
  MaxRevision = 3
  NoEvent = NoEvent
  Staff = {op, sup}
  Supervisors = {sup}
  Requests <- Wishes
  Uploads <- Sent
  MaxTime = 2
  NoObject = NoObject
  Observers = {o1, o2}
  Pool = {w1, w2}
  Critical = {"INTAKE", "REGISTER_EVIDENCE", "REVIEW", "CLOSE"}
  Noticed = {"PUBLISH_TASK"}
  Feedback = {"REVIEW"}
  NoJob = NoJob
  OtherActions = {"INTAKE", "PUBLISH_TASK", "REVIEW"}
  Loads <- Mixes
  c1 = c1
  op = op
  sup = sup
INVARIANTS
  EscalatedOnce
  FilesOnce
  NoticesInOrder
  AnswersAdvance
PROPERTIES
  LastChangeAnalysed
CHECK_DEADLOCK FALSE
