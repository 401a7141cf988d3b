------------------------------ MODULE GoalLease ------------------------------
(***************************************************************************)
(* What delegation promises about one goal: at most one session holds it,  *)
(* and a session takes it over only from one that is dead or revoked.  A   *)
(* holder may at any time stop holding it.                                 *)
(***************************************************************************)
CONSTANT Session

VARIABLES alive,    \* sessions with a held lease that are not discarded
          holders   \* the session that works on the goal, if any

leaseVars == <<alive, holders>>

LeaseInit == alive \in SUBSET Session /\ holders = {}

\* Leases are renewed and lapse, and sessions are discarded.
LeasesMove == alive' \in SUBSET Session /\ UNCHANGED holders

Take(s) == holders \cap alive = {} /\ holders' = {s} /\ UNCHANGED alive

Leave == holders' = {} /\ UNCHANGED alive

LeaseNext == LeasesMove \/ Leave \/ \E s \in Session : Take(s)

LeaseSpec == LeaseInit /\ [][LeaseNext]_leaseVars
=============================================================================
