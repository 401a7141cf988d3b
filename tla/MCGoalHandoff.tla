---------------------------- MODULE MCGoalHandoff ----------------------------
\* TLC instances of GoalHandoff.
EXTENDS GoalHandoff, TLC

Symmetry == Permutations(Session) \cup Permutations(Handoff)

Delegations == {h \in Handoff : gh[h].requestedBy # None}

\* A handoff that reached its review is the only one of its goal.
NoReviewRequested == \A h \in Handoff : gh[h].reviewRequestedBy = None
OneHandoffUnderReview == NoReviewRequested \/ Cardinality(Delegations) = 1

\* Claims in two steps overlap with takeovers and not with the review exchange;
\* the claim still changes hands there, by force and by release.
NoClaimCalls ==
  \A s \in Session : call[s].op \notin {"claimProject", "claimGoal", "claimed"}
ClaimCallsBeforeReview == NoReviewRequested \/ NoClaimCalls

\* project.claim leads to the states that the forced claim leads to, so it does
\* not overlap with other calls.
ClaimProjectAlone ==
  (\E s \in Session : call[s].op = "claimProject") => Cardinality(InFlight) = 1

\* A discard matters for a session whose lease is held, and one call for it to
\* fall into is enough.
DiscardAlone ==
  discarded # {} =>
    /\ NoClaimCalls
    /\ Cardinality(Delegations) <= 1
    /\ held = Session
    /\ Cardinality(InFlight) <= 1

Ended == {h \in Delegations : ~Live(h)}

\* Beside an ended handoff the overlaps are those of a late call about it: with
\* one about the handoff that replaced it or, while nothing is open, with the
\* request for the replacement.  Calls about the replacement overlap with each
\* other as they do about the first handoff.
LateOverlaps ==
  Ended # {} /\ Cardinality(InFlight) > 1 =>
    /\ NoClaimCalls
    /\ \E s \in InFlight : call[s].h \in Ended
    /\ OpenHandoffs = {} => \E s \in Session : Doing(s, "request")

\* What calls do after the last handoff has ended, they do after the first too.
QuietOnceEnded == Ended = Handoff => InFlight = {}
=============================================================================
