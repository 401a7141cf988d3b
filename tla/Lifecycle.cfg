SPECIFICATION LifecycleSpec
CONSTANTS
  None = None
  c1 = c1
  c2 = c2
  d1 = d1
  d2 = d2
  Client <- MCClient
  Daemon <- MCDaemon
  Proc <- MCProc
  Build = {5, 6}
  V7Migration = 5
SYMMETRY Symmetry
INVARIANTS MigrationsRunOnce OpenStoreIsComplete ServingDaemonIsReachable
