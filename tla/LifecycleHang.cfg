SPECIFICATION Spec
CONSTANTS
  Sessions = {s1, s2}
  NoSession = NoSession
  MaxErrors = 1
  Faults = {"hang", "quick", "lost"}
  Edits = {"save", "retrying", "sensors"}
  Tester = TRUE
  MaxEvents = 1
  MaxCalls = 1
  MaxTimers = 1
SYMMETRY Symmetry
INVARIANTS TypeOK OneSession WaitsForStop StopBounded
