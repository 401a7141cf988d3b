CONSTANTS
  None = None
  Session = {s1, s2}
  Handoff = {h1, h2}
  Developers = {}
  MaxInFlight = 2
  MaxDiscards = 0
SPECIFICATION TaskSpec
SYMMETRY Symmetry
CHECK_DEADLOCK FALSE
CONSTRAINTS NoClaim ReviewOrTakeover LateOverlaps QuietOnceEnded
ACTION_CONSTRAINT FreeUpdateInTakeover
INVARIANTS AtMostOneOpenTaskHandoff
PROPERTIES LiveExecutorKeepsTask ClosedTaskHandoffStaysClosed DoneOnlyWhenSettled ImplementsTaskLease ImplementsTaskPhases
