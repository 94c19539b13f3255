CONSTANTS
  Callers = {c1, c2}
  Lines = {"plain", "blocked"}
  Line <- MCLine
  Candidates = 4
  AttemptTime = 6
  Interval = 25
  Backoff = 150
  BurstThreshold = 1
  BurstPathThreshold = 2
  MaxEvents = 1
  MaxFaults = 1
SYMMETRY Sym
SPECIFICATION Spec
INVARIANT OneCollection
CHECK_DEADLOCK FALSE
