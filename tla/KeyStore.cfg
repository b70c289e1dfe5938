\* Two processes on one file; the second key is one the demo route ignores.
SPECIFICATION Spec
CONSTANTS
  Procs = {p1, p2}
  Keys = {k1, k2}
  DemoKey = k1
  Secrets = {s1}
  NoFile = NoFile
  NoKey = NoKey
  Empty = Empty
  Torn = Torn
  MaxCalls = 3
SYMMETRY Processes
INVARIANTS
  FileIsWhole
  AcknowledgedIsStored
CHECK_DEADLOCK FALSE
