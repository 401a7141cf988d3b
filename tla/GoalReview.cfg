CONSTANTS
  None = None
  Session = {s1, s2}
  Handoff = {h1, h2}
  Developers = {}
  MaxInFlight = 2
  MaxDiscards = 0
  MaxDecisions = 2
SPECIFICATION ReviewSpec
SYMMETRY Symmetry
CONSTRAINTS ReviewOverlaps OneAsk NothingInert QuietOnceClosed SecondDelegationAlone
CHECK_DEADLOCK FALSE
INVARIANTS DoneWasReviewed
PROPERTIES ImplementsLifecycle FinalizeClosesReviewedHandoff DecisionsFollowTakeover
