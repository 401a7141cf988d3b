----------------------------- MODULE GoalHandoff -----------------------------
(***************************************************************************)
(* The goal handoffs of one goal: how a commander delegates the goal, how  *)
(* a session receives it and thereby holds it, the review exchange between *)
(* the two, takeover from a lapsed session, recovery, and release.         *)
(*                                                                         *)
(* Only the goal_handoffs table is state here.  What the receive and the   *)
(* review request do to the goal's decisions is conjoined in GoalReview.   *)
(***************************************************************************)
EXTENDS HandoffRows

VARIABLE gh   \* the rows of goal_handoffs, one per id

handoffVars == <<held, discarded, claim, call, gh>>

Requested(h) == gh[h].requestedBy # None
Received(h)  == gh[h].receivedBy # None
Completed(h) == gh[h].report # "none"
Live(h)      == ~Completed(h) /\ ~gh[h].recovered
Open(h)      == Requested(h) /\ Live(h)
OpenHandoffs == {h \in Handoff : Open(h)}

\* handoffIsDelegation: the requester and the receiver are two sessions.
IsDelegation(h) ==
  Requested(h) /\ Received(h) /\ gh[h].requestedBy # gh[h].receivedBy

\* MonitorAssignment: the claim comes first, then a received open handoff.
IsCommander(s)    == claim = s
HoldsGoal(s)      == \E h \in OpenHandoffs : gh[h].receivedBy = s
IsSubcommander(s) ==
  IF claim = s THEN s \in Developers ELSE HoldsGoal(s)

HandoffInit == SessionInit /\ gh = [h \in Handoff |-> NoRow]
-----------------------------------------------------------------------------
(* goal.handoff.request                                                    *)

RequestRead(s, h) ==
  /\ s \notin discarded
  /\ IsCommander(s)
  /\ HoldsLiveClaim(s)
  /\ ~gh[h].recovered
  /\ Begin(s, "request", h, None)
  /\ UNCHANGED <<held, discarded, claim, gh>>

\* reclaimOpenGoalHandoffTx: the session whose lease keeps another handoff
\* of the goal open is its receiver, or its requester while unreceived.
Owner(h) == IF Received(h) THEN gh[h].receivedBy ELSE gh[h].requestedBy

Others(h) == OpenHandoffs \ {h}

Reclaimable(h) ==
  /\ Cardinality(Others(h)) <= 1
  /\ \A x \in Others(h) : Owner(x) \notin held

\* Mutant: the request opens its handoff beside the one that is open.
RequestTxWithoutReclaim(s, h) ==
  /\ ~Completed(h)
  /\ gh' = [gh EXCEPT ![h].requestedBy = IF @ = None THEN s ELSE @]

\* The upsert fills only NULL columns, so a retry keeps the first requester.
RequestTx(s, h) ==
  /\ ~Completed(h)
  /\ Reclaimable(h)
  /\ gh' = [x \in Handoff |->
              IF x = h
              THEN [gh[x] EXCEPT !.requestedBy = IF @ = None THEN s ELSE @]
              ELSE IF x \in Others(h)
              THEN [gh[x] EXCEPT !.report = "reclaimed"]
              ELSE gh[x]]

RequestCommit(s) ==
  /\ Doing(s, "request")
  /\ RequestTx(s, call[s].h)
  /\ Return(s)
  /\ UNCHANGED <<held, discarded, claim>>
-----------------------------------------------------------------------------
(* goal.claim: a handoff to oneself, requested and received in two         *)
(* transactions under a fresh id.                                          *)

ClaimGoalRead(s, h) ==
  /\ ~HoldsGoal(s)
  /\ gh[h] = NoRow
  /\ Begin(s, "claimGoal", h, None)
  /\ UNCHANGED <<held, discarded, claim, gh>>

ClaimGoalRequest(s) ==
  /\ Doing(s, "claimGoal")
  /\ RequestTx(s, call[s].h)
  /\ call' = [call EXCEPT ![s].op = "claimed"]
  /\ UNCHANGED <<held, discarded, claim>>

ClaimGoalReceive(s) ==
  /\ Doing(s, "claimed")
  /\ s \notin discarded
  /\ call' = [call EXCEPT ![s].op = "receive"]
  /\ UNCHANGED <<held, discarded, claim, gh>>
-----------------------------------------------------------------------------
(* goal.handoff.receive                                                    *)

ReceiveRead(s, h) ==
  /\ s \notin discarded
  /\ Requested(h)
  /\ Begin(s, "receive", h, None)
  /\ UNCHANGED <<held, discarded, claim, gh>>

\* Without an id the daemon takes the only pending handoff of the goal.
Pending == {h \in Handoff : Requested(h) /\ ~Received(h) /\ ~gh[h].recovered}

ReceiveForGoalRead(s) ==
  \E h \in Handoff : Pending = {h} /\ ReceiveRead(s, h)

\* Mutant: the receive does not look at the lease of the receiver it replaces.
MayReceiveFromAnyone(s, h) ==
  /\ Requested(h)
  /\ ~gh[h].recovered \/ gh[h].receivedBy = s

\* The first receiver, the same one again, or a successor to a receiver whose
\* lease is not held.  The guard does not look at completed_report_at.
MayReceive(s, h) ==
  /\ Requested(h)
  /\ \/ gh[h].receivedBy = s
     \/ /\ ~gh[h].recovered
        /\ gh[h].receivedBy \notin held

ReceiveTx(s, h) ==
  /\ MayReceive(s, h)
  /\ gh' = [gh EXCEPT ![h].receivedBy = s]

ReceiveCommit(s) ==
  /\ Doing(s, "receive")
  /\ ReceiveTx(s, call[s].h)
  /\ Return(s)
  /\ UNCHANGED <<held, discarded, claim>>
-----------------------------------------------------------------------------
(* goal.handoff.review.request: the receiver asks for a review.            *)

RequestReviewRead(s, h) ==
  /\ s \notin discarded
  /\ IsSubcommander(s)
  /\ gh[h].receivedBy = s
  /\ ~Completed(h)
  /\ gh[h].reviewRequestedBy = None \/ gh[h].reviewRejected
  /\ Begin(s, "requestReview", h, None)
  /\ UNCHANGED <<held, discarded, claim, gh>>

\* Mutant: a resubmission keeps the receipt of the last rejection.
RequestReviewTxKeepingReceipt(s, h) ==
  /\ Open(h)
  /\ Received(h)
  /\ \/ gh[h].reviewRequestedBy = None
     \/ gh[h].reviewRejected /\ gh[h].rejectionReceived
  /\ gh' = [gh EXCEPT ![h].reviewRequestedBy = s,
                      ![h].reviewReceivedBy  = None,
                      ![h].reviewRejected    = FALSE]

\* A rejected submission is resubmitted only once its rejection was received.
RequestReviewTx(s, h) ==
  /\ Open(h)
  /\ Received(h)
  /\ \/ gh[h].reviewRequestedBy = None
     \/ gh[h].reviewRejected /\ gh[h].rejectionReceived
  /\ gh' = [gh EXCEPT ![h].reviewRequestedBy = s,
                      ![h].reviewReceivedBy  = None,
                      ![h].reviewRejected    = FALSE,
                      ![h].rejectionReceived = FALSE]

RequestReviewCommit(s) ==
  /\ Doing(s, "requestReview")
  /\ RequestReviewTx(s, call[s].h)
  /\ Return(s)
  /\ UNCHANGED <<held, discarded, claim>>
-----------------------------------------------------------------------------
(* goal.handoff.review.receive: the commander receives the submission.     *)

\* A review received by another session may be taken over by the claimant;
\* the transaction then compares with the reviewer that was read.
ReceiveReviewRead(s, h) ==
  /\ s \notin discarded
  /\ IsCommander(s)
  /\ ~Completed(h)
  /\ ~gh[h].reviewRejected
  /\ \/ /\ gh[h].reviewReceivedBy \notin {None, s}
        /\ ~gh[h].recovered
        /\ HoldsLiveClaim(s)
     \/ /\ gh[h].reviewReceivedBy = None
        /\ gh[h].reviewRequestedBy # None
        /\ gh[h].requestedBy = s \/ HoldsLiveClaim(s)
  /\ Begin(s, "receiveReview", h, gh[h].reviewReceivedBy)
  /\ UNCHANGED <<held, discarded, claim, gh>>

ReceiveReviewTx(s, h, old) ==
  /\ Live(h)
  /\ ~gh[h].reviewRejected
  /\ gh[h].reviewReceivedBy = old
  /\ old = None => gh[h].reviewRequestedBy # None
  /\ gh' = [gh EXCEPT ![h].reviewReceivedBy = s]

ReceiveReviewCommit(s) ==
  /\ Doing(s, "receiveReview")
  /\ ReceiveReviewTx(s, call[s].h, call[s].old)
  /\ Return(s)
  /\ UNCHANGED <<held, discarded, claim>>
-----------------------------------------------------------------------------
(* goal.handoff.review.reject and its receipt by the receiver              *)

RejectReviewRead(s, h) ==
  /\ s \notin discarded
  /\ IsCommander(s)
  /\ gh[h].reviewReceivedBy # None
  /\ ~Completed(h)
  /\ gh[h].reviewReceivedBy = s \/ HoldsLiveClaim(s)
  /\ Begin(s, "rejectReview", h, None)
  /\ UNCHANGED <<held, discarded, claim, gh>>

\* The UPDATE asks for some receipt, not for the one that was read.
RejectReviewTx(h) ==
  /\ gh[h].reviewReceivedBy # None
  /\ Live(h)
  /\ gh' = [gh EXCEPT ![h].reviewReceivedBy = None,
                      ![h].reviewRejected   = TRUE]

RejectReviewCommit(s) ==
  /\ Doing(s, "rejectReview")
  /\ RejectReviewTx(call[s].h)
  /\ Return(s)
  /\ UNCHANGED <<held, discarded, claim>>

ReceiveRejectionRead(s, h) ==
  /\ s \notin discarded
  /\ gh[h].reviewRejected
  /\ ~Completed(h)
  /\ gh[h].receivedBy = s
  /\ Begin(s, "receiveRejection", h, None)
  /\ UNCHANGED <<held, discarded, claim, gh>>

ReceiveRejectionTx(s, h) ==
  /\ gh[h].reviewRejected
  /\ ~gh[h].rejectionReceived
  /\ gh[h].receivedBy = s
  /\ ~gh[h].recovered
  /\ gh' = [gh EXCEPT ![h].rejectionReceived = TRUE]

ReceiveRejectionCommit(s) ==
  /\ Doing(s, "receiveRejection")
  /\ ReceiveRejectionTx(s, call[s].h)
  /\ Return(s)
  /\ UNCHANGED <<held, discarded, claim>>
-----------------------------------------------------------------------------
(* handoff.recover: the commander replaces a session proven stale.         *)

\* The latest phase of the handoff names the session that must be stale.
RecoverPhase(h) ==
  IF gh[h].reviewReceivedBy # None THEN "recoverReview"
  ELSE IF Received(h) THEN "recoverReceiver" ELSE "recoverRequester"

PhaseOwner(h) ==
  IF gh[h].reviewReceivedBy # None THEN gh[h].reviewReceivedBy ELSE Owner(h)

RecoverRead(s, h) ==
  /\ s \notin discarded
  /\ HoldsLiveClaim(s)
  /\ Open(h)
  /\ PhaseOwner(h) # s
  /\ Begin(s, RecoverPhase(h), h, PhaseOwner(h))
  /\ UNCHANGED <<held, discarded, claim, gh>>

\* Mutant: the UPDATE for the receiver forgets that the handoff may be closed.
RecoverTxOfClosed(op, h, old) ==
  /\ CanRecover(old)
  /\ op = "recoverReceiver"
  /\ gh[h].receivedBy = old
  /\ gh' = [gh EXCEPT ![h].recovered = TRUE]

\* Each UPDATE compares the column of its phase with the owner that was read.
RecoverTx(op, h, old) ==
  /\ CanRecover(old)
  /\ Live(h)
  /\ \/ /\ op = "recoverReview"
        /\ gh[h].reviewReceivedBy = old
        /\ gh' = [gh EXCEPT ![h].reviewReceivedBy = None]
     \/ /\ op = "recoverReceiver"
        /\ gh[h].receivedBy = old
        /\ gh' = [gh EXCEPT ![h].recovered = TRUE]
     \/ /\ op = "recoverRequester"
        /\ gh[h].requestedBy = old
        /\ ~Received(h)
        /\ gh' = [gh EXCEPT ![h].recovered = TRUE]

RecoverCommit(s) ==
  /\ call[s].op \in {"recoverReview", "recoverReceiver", "recoverRequester"}
  /\ RecoverTx(call[s].op, call[s].h, call[s].old)
  /\ Return(s)
  /\ UNCHANGED <<held, discarded, claim>>
-----------------------------------------------------------------------------
(* goal.handoff.complete: only a handoff to oneself closes this way.       *)

CompleteRead(s, h) ==
  /\ s \notin discarded
  /\ IsCommander(s)
  /\ gh[h].reviewReceivedBy = s
  /\ ~Completed(h)
  /\ ~IsDelegation(h)
  /\ Begin(s, "complete", h, s)
  /\ UNCHANGED <<held, discarded, claim, gh>>

CompleteByReviewerTx(h, reviewer) ==
  /\ Open(h)
  /\ Received(h)
  /\ gh[h].reviewReceivedBy = reviewer
  /\ gh' = [gh EXCEPT ![h].report = "completed"]

CompleteCommit(s) ==
  /\ Doing(s, "complete")
  /\ CompleteByReviewerTx(call[s].h, s)
  /\ Return(s)
  /\ UNCHANGED <<held, discarded, claim>>

(* goal.release: any client may end the goal's only received open handoff. *)

ReleaseGoalRead(s) ==
  \E h \in Handoff :
    /\ {x \in OpenHandoffs : Received(x)} = {h}
    /\ Begin(s, "releaseGoal", h, None)
    /\ UNCHANGED <<held, discarded, claim, gh>>

ReleaseGoalCommit(s) ==
  LET h == call[s].h IN
  /\ Doing(s, "releaseGoal")
  /\ Received(h)
  /\ Open(h)
  /\ gh' = [gh EXCEPT ![h].report = "released"]
  /\ Return(s)
  /\ UNCHANGED <<held, discarded, claim>>
-----------------------------------------------------------------------------
HandoffRead(s) ==
  \/ ReceiveForGoalRead(s)
  \/ ReleaseGoalRead(s)
  \/ \E h \in Handoff : \/ RequestRead(s, h)
                         \/ ClaimGoalRead(s, h)
                         \/ ReceiveRead(s, h)
                         \/ RequestReviewRead(s, h)
                         \/ ReceiveReviewRead(s, h)
                         \/ RejectReviewRead(s, h)
                         \/ ReceiveRejectionRead(s, h)
                         \/ RecoverRead(s, h)
                         \/ CompleteRead(s, h)

\* The commits that touch nothing but the handoff's own row.
PlainCommit(s) ==
  \/ ClaimGoalReceive(s)
  \/ ReceiveReviewCommit(s)
  \/ RejectReviewCommit(s)
  \/ ReceiveRejectionCommit(s)
  \/ RecoverCommit(s)
  \/ CompleteCommit(s)
  \/ ReleaseGoalCommit(s)

HandoffCommit(s) ==
  \/ RequestCommit(s)
  \/ ClaimGoalRequest(s)
  \/ ReceiveCommit(s)
  \/ RequestReviewCommit(s)
  \/ PlainCommit(s)

HandoffNext ==
  \E s \in Session :
    \/ SessionStep(s) /\ UNCHANGED gh
    \/ HandoffRead(s)
    \/ HandoffCommit(s)

HandoffSpec == HandoffInit /\ [][HandoffNext]_handoffVars
-----------------------------------------------------------------------------
(* Properties                                                              *)

\* The calls a session may have; the last two are of GoalReview.
Ops == {"idle", "claimProject", "request", "claimGoal", "claimed", "receive",
        "requestReview", "receiveReview", "rejectReview", "receiveRejection",
        "recoverReview", "recoverReceiver", "recoverRequester", "complete",
        "releaseGoal", "requestGoalReview", "finalize"}

Call(ops) == [op : ops, h : Maybe(Handoff), old : Maybe(Session)]

RowsOK ==
  /\ held \in SUBSET Session
  /\ discarded \in SUBSET Session
  /\ claim \in Maybe(Session)
  /\ gh \in [Handoff -> HandoffRow]

\* Every variable stays in its type.
TypeOK == RowsOK /\ call \in [Session -> Call(Ops)]

\* A goal has at most one open handoff: the reclaim inside the request
\* transaction (goal_handoff.go, reclaimOpenGoalHandoffTx) is enough, and the
\* unique index idx_goal_handoffs_open_goal_id never has to refuse an insert.
AtMostOneOpen == \A x, y \in OpenHandoffs : x = y

\* The review columns of a row never contradict each other, whatever order
\* the review, rejection, recovery and takeover transactions commit in
\* (queries/task.sql): a receipt is of a submission nobody rejected, a
\* rejection is of a submission that was made, its receipt follows it, and
\* only a received handoff is submitted.
ReviewColumnsAgree == \A h \in Handoff : ColumnsAgree(gh[h])

\* No request, receive or recovery takes an open handoff from a receiver whose
\* lease is held and who was not discarded, however stale the read it began
\* from (ReceiveGoalHandoff's UPDATE, reclaimOpenGoalHandoffTx,
\* canRecoverSessionInTx).
KeepLiveReceivers ==
  \A h \in OpenHandoffs :
    gh[h].receivedBy \in held \ discarded =>
      /\ gh'[h].receivedBy = gh[h].receivedBy
      /\ ~gh'[h].recovered
      /\ gh'[h].report # "reclaimed"

LiveReceiverKeepsHandoff == [][KeepLiveReceivers]_handoffVars

\* The sessions that hold the goal through an open received handoff.
Holders == {gh[h].receivedBy : h \in {x \in OpenHandoffs : Received(x)}}

Lease == INSTANCE GoalLease WITH alive <- held \ discarded, holders <- Holders

\* Requests, receives, reclaims, recoveries, completions and releases, with
\* their stale reads, give the goal one holder at a time and hand it only from
\* a dead or discarded session to another: GoalHandoff implements GoalLease.
ImplementsLease == Lease!LeaseSpec

Exchange == INSTANCE HandoffPhases WITH phase <- [h \in Handoff |-> PhaseOf(gh[h])]

\* The conditional UPDATEs of queries/task.sql keep the exchange about a goal
\* handoff in order, however old the reads are that they follow: what is
\* reviewed was submitted, what is rejected was reviewed, and a new submission
\* waits for the receipt of the rejection.  GoalHandoff implements
\* HandoffPhases.
ImplementsPhases == Exchange!PhasesSpec

\* A handoff that was completed or recovered is never open again and keeps its
\* outcome, although a late request retries the upsert of the same id.
KeepOutcomes ==
  \A h \in Handoff :
    Requested(h) /\ ~Open(h) =>
      /\ gh'[h].report = gh[h].report
      /\ gh'[h].recovered = gh[h].recovered
      /\ gh'[h].requestedBy = gh[h].requestedBy

ClosedStaysClosed == [][KeepOutcomes]_handoffVars

=============================================================================
