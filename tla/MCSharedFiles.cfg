CONSTANTS
  Proc = {p1, p2, p3}
  Stamp = {1, 2, 3}
  Pauses = FALSE
  MaxFaults = 2
  NoProc = NoProc
  NoFile = NoFile
  Empty = Empty
  Daemon = {d1, d2}
  Tool = {t1}
  Expression <- Expressions
  FirstDay = {5}
  LastDay = 6
  MaxBegun = 5
  NoSchedule = NoSchedule
  HalfWritten = HalfWritten
  NoDaemon = NoDaemon
SPECIFICATION FilesSpec
SYMMETRY Symmetry
INVARIANTS
  FilesTypeOK
  MutualExclusion
  RunsOnceAsNamed
PROPERTIES
  NoOvertaking
CHECK_DEADLOCK FALSE
