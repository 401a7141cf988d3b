SPECIFICATION Spec
CONSTANTS
  Watcher = {"w1", "w2"}
  Goal = {"g1"}
  None = None
  MaxReview = 2
  MaxEvents = 3
  NoteCap = 4
INVARIANTS AcceptedIsHead
CHECK_DEADLOCK FALSE
