SPECIFICATION Spec
CONSTANTS
  Threads = {t1, t2}
  Calls <- Asked
  Starts <- Begins
  Policies <- Released
  MaxCalls = 4
  None = None
  t1 = t1
  t2 = t2
SYMMETRY Alike
INVARIANTS
  AnswersAreMoments
  DiagnosisIsWarranted
  WritesAreSound
  TrailTells
CHECK_DEADLOCK FALSE
