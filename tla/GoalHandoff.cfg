CONSTANTS
  None = None
  Session = {s1, s2, s3}
  Handoff = {h1, h2}
  Developers = {}
  MaxInFlight = 2
  MaxDiscards = 1
SPECIFICATION HandoffSpec
SYMMETRY Symmetry
CHECK_DEADLOCK FALSE
CONSTRAINTS OneHandoffUnderReview ClaimCallsBeforeReview ClaimProjectAlone DiscardAlone LateOverlaps QuietOnceEnded
INVARIANTS AtMostOneOpen
PROPERTIES LiveReceiverKeepsHandoff ImplementsLease ClosedStaysClosed ImplementsPhases
