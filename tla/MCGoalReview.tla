---------------------------- MODULE MCGoalReview ----------------------------
\* TLC instances of GoalReview.
EXTENDS GoalReview

Symmetry == Permutations(Session) \cup Permutations(Handoff)

\* The handoff runs have the calls that lead nowhere near a human review and
\* the overlaps of handoff calls with each other; the review run overlaps
\* every remaining call with the two of goal.review.*.
ReviewOverlaps ==
  /\ \A s \in Session :
       call[s].op \notin {"claimProject", "claimGoal", "claimed", "releaseGoal",
                          "complete", "recoverReview", "recoverReceiver",
                          "recoverRequester"}
  /\ Cardinality(InFlight) > 1 =>
       \E s \in Session : call[s].op \in {"requestGoalReview", "finalize"}

\* One decision at most asks about something else than the goal.
OneAsk == Cardinality(Asks) <= 1

\* A withdrawn ask, and a withdrawn review with none before it, are read by
\* nothing: what follows them follows without them.
NothingInert ==
  \A i \in Filed("withdrawn") : i \in Reviews /\ \E j \in Reviews : j < i

\* Once the goal is closed, only the calls that look at the goal are in flight,
\* one at a time, and no session lapses.
QuietOnceClosed ==
  goal # "active" =>
    /\ Cardinality(InFlight) <= 1
    /\ \A s \in InFlight : call[s].op \in {"requestGoalReview", "finalize"}
    /\ held = Session

\* A goal is delegated again only after its first review was approved, and then
\* nothing overlaps.
SecondDelegationAlone ==
  Cardinality({h \in Handoff : Requested(h)}) > 1 =>
    /\ ApprovedReviews # {}
    /\ Cardinality(InFlight) <= 1
    /\ Len(decisions) <= 1
=============================================================================
