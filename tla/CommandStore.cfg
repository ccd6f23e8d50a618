SPECIFICATION FairSpec
CONSTANTS
  Workers = {w1, w2}
  Cases = {c1, c2, c3}
  Orders <- ClientOrders
  Revisions = {0, 1, 2, 3}
  MaxAnswers = 2
  NoWorker = NoWorker
  NoRow = NoRow
  NoCase = NoCase
  NoEvent = NoEvent
  w1 = w1
  w2 = w2
  c1 = c1
  c2 = c2
  c3 = c3
  e1 = e1
  e2 = e2
  e3 = e3
  u1 = u1
  none = none
INVARIANTS
  AnswersStand
  OneCasePerUpstream
PROPERTIES
  Implements
  WritesResume
