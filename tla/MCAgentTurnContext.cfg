CONSTANTS
  Fingerprint = {f1}
  CallId = {c1, c2, c3}
  OpId = {o1, o2, o3}
  MaxPending = 2
  NoOp = NoOp
  NoRow = NoRow
  Scenario <- LongConversation
SPECIFICATION TurnSpec
SYMMETRY Symmetry
INVARIANTS
  ReleasedIsTold
