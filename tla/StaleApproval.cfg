CONSTANTS
  None = None
  Session = {s1, s2}
  Handoff = {h1}
  Developers = {}
  MaxInFlight = 1
  MaxDiscards = 0
  MaxDecisions = 2
SPECIFICATION ReviewSpec
SYMMETRY Symmetry
CHECK_DEADLOCK FALSE
CONSTRAINT ReviewOverlaps
PROPERTY RejectionStopsFinalization
