----------------------------- MODULE MCLifecycle -----------------------------
\* TLC instances of Lifecycle.
EXTENDS Lifecycle, TLC

CONSTANTS c1, c2, d1, d2

MCClient == {c1, c2}
MCDaemon == {d1, d2}
MCProc == MCClient \cup MCDaemon

Symmetry == Permutations(MCDaemon) \cup Permutations(MCClient)

\* The database has all columns of its version.
UpToDate == version = Current /\ 1..V7Migration \subseteq applied

\* Hooks of two builds open the store at the same time, from every state the
\* database may be found in.  Once it is up to date, daemons come and go.
LifecycleSpec ==
  Init /\ [][(\E c \in Client : HookStep(c)) \/ (UpToDate /\ OrderlyNext)]_vars
=============================================================================
