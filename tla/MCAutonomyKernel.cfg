CONSTANTS
  DiskCriterion = {d1}
  CommandCriterion = {c1}
  RouteCriterion = {r1}
  MobilePage = {}
  DesktopPage = {p1, x1}
  RequestCriterion = {x1}
  JudgeCriterion = {}
  Contract = {{d1, c1}, {r1}, {p1, x1}, {x1}}
  Detail = {x, y}
  MaxProcesses = 2
  MaxTasks = 1
  maxTaskAttempts = 2
  maxRepairAttempts = 2
  IDENTICAL_FAILURE_LIMIT = 1
SPECIFICATION KernelSpec
INVARIANTS
  KernelTypeOK
  VerdictIsEarned
  NothingLeftRunning
PROPERTIES
  ImplementsObjective
CHECK_DEADLOCK FALSE
