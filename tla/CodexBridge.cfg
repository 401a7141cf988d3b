SPECIFICATION Spec
CONSTANTS
  Watcher = {"w1", "w2"}
  Goal = {"g1"}
  None = None
  MaxReview = 2
  MaxEvents = 3
  NoteCap = 4
CONSTRAINTS MonitorOn FirstHearsFirst FewLeftUnread
INVARIANTS QueueIsFresh NothingIsStranded
PROPERTIES QueuedIsTried
CHECK_DEADLOCK FALSE
