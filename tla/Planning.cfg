CONSTANTS
  None = None
  Direct = Direct
  Session = {s1, s2, s3}
  Plan = {p1}
  TaskCreate = {c1, c2}
  Key = {k1, k2}
  Developers = {}
  MaxInFlight = 2
  MaxDiscards = 0
SPECIFICATION PlanningSpec
SYMMETRY Symmetry
CHECK_DEADLOCK FALSE
CONSTRAINTS NoClaimCall NotWithdrawn OneRoleEach OneAway PlanFirst PlanBeforeReview ClaimedWhilePlanned
INVARIANTS PlanColumnsAgree OneBatchPerHandoff
PROPERTIES ClosedPlanningStaysClosed LiveReceiverCreatesTasks AcceptanceIsNotLost
