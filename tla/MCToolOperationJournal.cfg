CONSTANTS
  Fingerprint = {f1, f2, f3}
  CallId = {c1, c2, c3}
  OpId = {o1, o2, o3}
  MaxPending = 2
  NoOp = NoOp
  NoRow = NoRow
SPECIFICATION BoundedSpec
SYMMETRY Symmetry
INVARIANTS
  TypeOK
  SingleClaim
  NoAckWhileExecuting
  RecoverableStore
  ReceiptsAgree
PROPERTIES
  QuarantineIsForever
  ImplementsEffectClaims
