CONSTANTS
  p1 = p1
  p2 = p2
  r1 = r1
  r2 = r2
  r3 = r3
  u1 = u1
  Provider = {p1, p2}
  Route = {r1, r2, r3}
  Upstream = {u1}
  ProviderOf <- MCProviderOf
  UpstreamOf <- MCUpstreamOf
  NoUpstream = NoUpstream
  NoRoute = NoRoute
  Eligible = {r1, r2}
  LastResort = {r2}
  Keys <- OneKey
  t = t
  b = b
  Call = {t, b}
  Foreground = {t}
  Kinds = {"unavailable", "rate-limit"}
  Base <- MCBase
  Cap <- MCCap
  Threshold = 2
  MaxAttempts = 2
  MaxFailures = 1
  RetryAfter = {0}
SPECIFICATION Spec
INVARIANTS
  RoutingTypeOK
PROPERTIES
  FreeRunsFree
  OnlyFreeCallsCondemn
  PatientPlans
