------------------------------ MODULE MCPlanning -----------------------------
\* TLC instances of Planning.
EXTENDS Planning, TLC

Symmetry == Permutations(Session) \cup Permutations(TaskCreate) \cup Permutations(Key)

\* No step of a claim and no withdrawal is watched, and the holder of the goal
\* does not claim its project.
NoClaimCall == \A s \in Session : ~Doing(s, "claimProject")
NotWithdrawn == ~withdrawn
OneRoleEach == claim \notin holders

\* One session at a time is away.
OneAway == Cardinality(Session \ held) <= 1

\* The plan comes before the requests to create tasks and before the goal's own
\* review, and the project stays claimed from then on.
PlanFirst == Filed # {} => OpenPlans = {}
PlanBeforeReview == submitted => OpenPlans = {}
ClaimedWhilePlanned == claim = None => OpenPlans = {} /\ Filed = {}
=============================================================================
