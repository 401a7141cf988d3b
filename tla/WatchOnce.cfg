SPECIFICATION WatchSpec
CONSTANTS
  Task = {t1, t2}
  NewGoal = {g1}
  NoTask = NoTask
  t1 = t1
  t2 = t2
  MaxGen = 2
  MaxSteps = 2
  MaxStops = 1
  MaxLosses = 1
  MaxFailures = 2
  EnsureLimit = 2
  InitialBoards <- Boards
  InitialScopes <- OneTask
INVARIANTS RepeatedOnlyWhenLost FollowingIsCaughtUp
PROPERTIES EverythingOwedIsHeard
