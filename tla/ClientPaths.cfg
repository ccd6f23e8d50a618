SPECIFICATION Spec
CONSTANTS
  Cases = {c1}
  MaxRevision = 3
  NoEvent = NoEvent
  Operators = {op1, op2}
  Threads = {t1, t2}
  Envelopes <- SourceEvents
  MaxAttempts = 2
  NoReceipt = NoReceipt
  Callbacks <- Delivered
  Previews <- PreparedCards
  Handlers = {h1, h2}
  Senders = {sw, so}
  Worker = sw
  MaxSends = 2
  NoRow = NoRow
  OtherActions = {"INTAKE", "NEXT_STAGE"}
  Loads <- Mixes
  Accounts = {a1}
  Chats = {x1}
  NoChat = NoChat
  NoAccount = NoAccount
  Decisions = {"CONTEST"}
  NoCall = NoCall
  ChatActions = {"INTAKE", "NEXT_STAGE", "MERCHANT_DECISION"}
  ChatLoads <- ChatMixes
  MaxOthers = 2
  a1 = a1
  x1 = x1
  L1 = 3
  L2 = 3
  c1 = c1
  op1 = op1
  op2 = op2
  t1 = t1
  t2 = t2
  h1 = h1
  h2 = h2
  sw = sw
  so = so
SYMMETRY Alike
INVARIANTS
  InboxIsTrue
  AnsweredIsDecided
  OneDelivery
  OneEffect
  ShownBeforeDecided
  InactiveIsInert
  DoneIsDecided
PROPERTIES
  TriesStand
CHECK_DEADLOCK FALSE
