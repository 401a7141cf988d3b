------------------------------ MODULE GoalProofs ------------------------------
(***************************************************************************)
(* Proofs about the life of a goal, for every set of sessions and handoffs *)
(* and every bound: first the transactions on its handoffs (GoalHandoff),  *)
(* then, resting on them, its human review and its end (GoalReview).       *)
(***************************************************************************)
EXTENDS GoalReview, SequenceTheorems, TLAPS

-----------------------------------------------------------------------------
(* GoalHandoff: the transactions on the rows of goal_handoffs.             *)

\* A handler that passed its checks records a well-typed call.
LEMMA BeginType ==
  ASSUME NEW s \in Session, NEW op \in Ops, NEW h \in Maybe(Handoff),
         NEW old \in Maybe(Session), TypeOK, Begin(s, op, h, old)
  PROVE  call' \in [Session -> Call(Ops)]
BY DEF TypeOK, Begin, Call

\* A call that returns leaves its session idle, and the calls well typed.
LEMMA ReturnType ==
  ASSUME NEW s \in Session, TypeOK, Return(s)
  PROVE  call' \in [Session -> Call(Ops)]
BY DEF TypeOK, Return, Idle, Call, Ops, Maybe

\* Leases, claims, discards and aborted calls keep every type.
LEMMA SessionStepType ==
  ASSUME NEW s \in Session, TypeOK, SessionStep(s), UNCHANGED gh
  PROVE  TypeOK'
<1> USE DEF TypeOK, RowsOK, Maybe
<1>1. CASE RenewLease(s)
  BY <1>1 DEF RenewLease
<1>2. CASE LapseLease(s)
  BY <1>2 DEF LapseLease
<1>3. CASE ClaimProjectRead(s)
  <2>1. Begin(s, "claimProject", None, claim)
    BY <1>3 DEF ClaimProjectRead
  <2>2. call' \in [Session -> Call(Ops)]
    BY <2>1, BeginType DEF Ops
  <2> QED BY <1>3, <2>2 DEF ClaimProjectRead
<1>4. CASE ClaimProjectCommit(s)
  BY <1>4, ReturnType DEF ClaimProjectCommit
<1>5. CASE ForceClaimProject(s)
  BY <1>5 DEF ForceClaimProject
<1>6. CASE ReleaseProject(s)
  BY <1>6 DEF ReleaseProject
<1>7. CASE \E t \in Session : DiscardSession(s, t)
  BY <1>7 DEF DiscardSession
<1>8. CASE Abort(s)
  BY <1>8, ReturnType DEF Abort
<1> QED
  BY <1>1, <1>2, <1>3, <1>4, <1>5, <1>6, <1>7, <1>8 DEF SessionStep

\* A read changes nothing but the caller's call.
LEMMA ReadStep ==
  ASSUME NEW s \in Session, TypeOK, HandoffRead(s)
  PROVE  UNCHANGED <<held, discarded, claim, gh>>
BY DEF HandoffRead, ReceiveForGoalRead, ReleaseGoalRead, RequestRead,
       ClaimGoalRead, ReceiveRead, RequestReviewRead, ReceiveReviewRead,
       RejectReviewRead, ReceiveRejectionRead, RecoverRead, CompleteRead

\* The checks that precede a transaction keep every type.
LEMMA ReadStepType ==
  ASSUME NEW s \in Session, TypeOK, HandoffRead(s)
  PROVE  TypeOK'
<1>1. UNCHANGED <<held, discarded, claim, gh>>
  BY ReadStep
<1>2. None \in Maybe(Handoff) /\ None \in Maybe(Session) /\ s \in Maybe(Session)
  BY DEF Maybe
<1>3. \A h \in Handoff : /\ h \in Maybe(Handoff)
                         /\ gh[h].reviewReceivedBy \in Maybe(Session)
                         /\ PhaseOwner(h) \in Maybe(Session)
                         /\ RecoverPhase(h) \in Ops
  BY DEF TypeOK, RowsOK, HandoffRow, PhaseOwner, Owner, RecoverPhase, Maybe,
         Ops
<1>4. PICK op \in Ops, h \in Maybe(Handoff), old \in Maybe(Session) :
        Begin(s, op, h, old)
  BY <1>2, <1>3
  DEF HandoffRead, ReceiveForGoalRead, ReleaseGoalRead, RequestRead,
      ClaimGoalRead, ReceiveRead, RequestReviewRead, ReceiveReviewRead,
      RejectReviewRead, ReceiveRejectionRead, RecoverRead, CompleteRead, Ops
<1>5. call' \in [Session -> Call(Ops)]
  BY <1>4, BeginType
<1> QED BY <1>1, <1>5 DEF TypeOK, RowsOK

\* Each column of a row may be set to any value of its type.
LEMMA ColumnUpdate ==
  ASSUME NEW h, gh \in [Handoff -> HandoffRow]
  PROVE  /\ \A w \in Maybe(Session) :
              /\ [gh EXCEPT ![h].receivedBy = w] \in [Handoff -> HandoffRow]
              /\ [gh EXCEPT ![h].reviewReceivedBy = w]
                   \in [Handoff -> HandoffRow]
         /\ \A r \in Report :
              [gh EXCEPT ![h].report = r] \in [Handoff -> HandoffRow]
         /\ [gh EXCEPT ![h].recovered = TRUE] \in [Handoff -> HandoffRow]
         /\ [gh EXCEPT ![h].rejectionReceived = TRUE]
              \in [Handoff -> HandoffRow]
<1>1. ASSUME NEW w \in Maybe(Session)
      PROVE  [gh EXCEPT ![h].receivedBy = w] \in [Handoff -> HandoffRow]
  BY DEF HandoffRow
<1>2. ASSUME NEW w \in Maybe(Session)
      PROVE  [gh EXCEPT ![h].reviewReceivedBy = w] \in [Handoff -> HandoffRow]
  BY DEF HandoffRow
<1>3. ASSUME NEW r \in Report
      PROVE  [gh EXCEPT ![h].report = r] \in [Handoff -> HandoffRow]
  BY DEF HandoffRow
<1>4. [gh EXCEPT ![h].recovered = TRUE] \in [Handoff -> HandoffRow]
  BY DEF HandoffRow
<1>5. [gh EXCEPT ![h].rejectionReceived = TRUE] \in [Handoff -> HandoffRow]
  BY DEF HandoffRow
<1> QED BY <1>1, <1>2, <1>3, <1>4, <1>5

\* A commit writes rows of goal_handoffs.
LEMMA RowsType ==
  ASSUME NEW s \in Session, TypeOK, HandoffCommit(s)
  PROVE  gh' \in [Handoff -> HandoffRow]
<1>1. gh \in [Handoff -> HandoffRow]
  BY DEF TypeOK, RowsOK
<1>2. s \in Maybe(Session) /\ None \in Maybe(Session)
  BY DEF Maybe
<1>3. {"completed", "released", "reclaimed"} \subseteq Report
  BY DEF Report
<1>4. ASSUME NEW h, RequestTx(s, h) PROVE gh' \in [Handoff -> HandoffRow]
  BY <1>1, <1>2, <1>4 DEF RequestTx, HandoffRow, Report
<1>5. CASE RequestCommit(s) \/ ClaimGoalRequest(s)
  BY <1>4, <1>5 DEF RequestCommit, ClaimGoalRequest
<1>6. CASE ReceiveCommit(s)
  BY <1>1, <1>2, <1>6, ColumnUpdate DEF ReceiveCommit, ReceiveTx
<1>7. CASE RequestReviewCommit(s)
  <2> DEFINE h == call[s].h
  <2>1. \A x \in Handoff :
          [gh[x] EXCEPT !.reviewRequestedBy = s,
                        !.reviewReceivedBy  = None,
                        !.reviewRejected    = FALSE,
                        !.rejectionReceived = FALSE] \in HandoffRow
    BY <1>1, <1>2 DEF HandoffRow
  <2> QED BY <1>1, <1>7, <2>1 DEF RequestReviewCommit, RequestReviewTx
<1>8. CASE ClaimGoalReceive(s)
  BY <1>1, <1>8 DEF ClaimGoalReceive
<1>9. CASE ReceiveReviewCommit(s)
  BY <1>1, <1>2, <1>9, ColumnUpdate
  DEF ReceiveReviewCommit, ReceiveReviewTx
<1>10. CASE RejectReviewCommit(s)
  <2>1. \A x \in Handoff : [gh[x] EXCEPT !.reviewReceivedBy = None,
                                         !.reviewRejected = TRUE] \in HandoffRow
    BY <1>1, <1>2 DEF HandoffRow
  <2> QED BY <1>1, <1>10, <2>1 DEF RejectReviewCommit, RejectReviewTx
<1>11. CASE ReceiveRejectionCommit(s)
  <2>1. gh' = [gh EXCEPT ![call[s].h].rejectionReceived = TRUE]
    BY <1>11 DEF ReceiveRejectionCommit, ReceiveRejectionTx
  <2> QED BY <1>1, <1>2, <2>1, ColumnUpdate
<1>12. CASE RecoverCommit(s)
  <2>1. CASE gh' = [gh EXCEPT ![call[s].h].reviewReceivedBy = None]
    BY <1>1, <1>2, <2>1, ColumnUpdate
  <2>2. CASE gh' = [gh EXCEPT ![call[s].h].recovered = TRUE]
    BY <1>1, <2>2, ColumnUpdate
  <2> QED BY <1>12, <2>1, <2>2 DEF RecoverCommit, RecoverTx
<1>13. CASE CompleteCommit(s)
  BY <1>1, <1>3, <1>13, ColumnUpdate DEF CompleteCommit, CompleteByReviewerTx
<1>14. CASE ReleaseGoalCommit(s)
  BY <1>1, <1>3, <1>14, ColumnUpdate DEF ReleaseGoalCommit
<1> QED
  BY <1>5, <1>6, <1>7, <1>8, <1>9, <1>10, <1>11, <1>12, <1>13,
     <1>14
  DEF HandoffCommit, PlainCommit

\* The transactions on goal_handoffs keep every type.
LEMMA CommitStepType ==
  ASSUME NEW s \in Session, TypeOK, HandoffCommit(s)
  PROVE  TypeOK'
<1>1. UNCHANGED <<held, discarded, claim>>
  BY DEF HandoffCommit, PlainCommit, RequestCommit, ClaimGoalRequest,
         ClaimGoalReceive, ReceiveCommit, RequestReviewCommit,
         ReceiveReviewCommit, RejectReviewCommit, ReceiveRejectionCommit,
         RecoverCommit, CompleteCommit, ReleaseGoalCommit
<1>2. CASE ClaimGoalRequest(s) \/ ClaimGoalReceive(s)
  <2>1. call' \in [Session -> Call(Ops)]
    BY <1>2 DEF ClaimGoalRequest, ClaimGoalReceive, TypeOK, Call, Ops
  <2> QED BY <1>1, <2>1, RowsType DEF TypeOK, RowsOK
<1>3. CASE Return(s)
  BY <1>1, <1>3, RowsType, ReturnType DEF TypeOK, RowsOK
<1> QED
  BY <1>2, <1>3
  DEF HandoffCommit, PlainCommit, RequestCommit, ReceiveCommit,
      RequestReviewCommit, ReceiveReviewCommit, RejectReviewCommit,
      ReceiveRejectionCommit, RecoverCommit, CompleteCommit, ReleaseGoalCommit

\* The daemon starts in well-typed states.
LEMMA HandoffInitType == HandoffInit => TypeOK
BY DEF HandoffInit, SessionInit, TypeOK, RowsOK, HandoffRow, NoRow, Report,
       Maybe, Call, Idle, Ops

\* Every step of the protocol keeps every type.
LEMMA HandoffNextType == TypeOK /\ [HandoffNext]_handoffVars => TypeOK'
<1> SUFFICES ASSUME TypeOK, [HandoffNext]_handoffVars PROVE TypeOK'
  OBVIOUS
<1>1. CASE UNCHANGED handoffVars
  BY <1>1 DEF handoffVars, TypeOK, RowsOK
<1>2. CASE HandoffNext
  BY <1>2, SessionStepType, ReadStepType, CommitStepType DEF HandoffNext
<1> QED BY <1>1, <1>2

\* Every variable of the handoff protocol stays in its type, whatever the
\* sessions, the handoff ids and the bounds.
THEOREM TypeCorrect == HandoffSpec => []TypeOK
BY HandoffInitType, HandoffNextType, PTL DEF HandoffSpec
-----------------------------------------------------------------------------
(* What a commit may do to one row, in terms of who holds it and of its end *)

KeepsHolder(x) ==
  /\ gh'[x].requestedBy = gh[x].requestedBy
  /\ gh'[x].receivedBy = gh[x].receivedBy
  /\ gh'[x].report = gh[x].report
  /\ gh'[x].recovered = gh[x].recovered

BecomesRequested(x) ==
  /\ ~Requested(x)
  /\ gh'[x].receivedBy = gh[x].receivedBy
  /\ gh'[x].report = gh[x].report
  /\ gh'[x].recovered = gh[x].recovered

Reclaimed(x) ==
  /\ Open(x)
  /\ Owner(x) \notin held
  /\ gh'[x] = [gh[x] EXCEPT !.report = "reclaimed"]

ReceivedByOf(s, x) ==
  /\ MayReceive(s, x)
  /\ gh'[x] = [gh[x] EXCEPT !.receivedBy = s]

Recovered(x) ==
  /\ Live(x)
  /\ CanRecover(Owner(x))
  /\ gh'[x] = [gh[x] EXCEPT !.recovered = TRUE]

Ended(x) ==
  /\ Open(x)
  /\ \/ gh'[x] = [gh[x] EXCEPT !.report = "completed"]
     \/ gh'[x] = [gh[x] EXCEPT !.report = "released"]

Effect(s, x) ==
  \/ KeepsHolder(x)
  \/ BecomesRequested(x)
  \/ Reclaimed(x)
  \/ ReceivedByOf(s, x)
  \/ Recovered(x)
  \/ Ended(x)

\* A recovery in flight names the session whose phase it replaces.  Without
\* this, a NULL owner would pass canRecoverSessionInTx for want of a lease.
RecoverOps == {"recoverReview", "recoverReceiver", "recoverRequester"}

RecoveryNamesOwner ==
  \A s \in Session : call[s].op \in RecoverOps => call[s].old \in Session

\* handoff.recover never begins without a session to replace, and no other
\* step changes a recovery in flight.
LEMMA RecoveryNamesOwnerStep ==
  TypeOK /\ RecoveryNamesOwner /\ [HandoffNext]_handoffVars
    => RecoveryNamesOwner'
<1> SUFFICES ASSUME TypeOK, RecoveryNamesOwner, [HandoffNext]_handoffVars
             PROVE  RecoveryNamesOwner'
  OBVIOUS
<1>1. CASE UNCHANGED handoffVars
  BY <1>1 DEF handoffVars, RecoveryNamesOwner
<1>2. ASSUME NEW s \in Session, UNCHANGED call PROVE RecoveryNamesOwner'
  BY <1>2 DEF RecoveryNamesOwner
<1>3. ASSUME NEW s \in Session, Return(s) PROVE RecoveryNamesOwner'
  BY <1>3 DEF Return, Idle, RecoveryNamesOwner, RecoverOps, TypeOK
<1>4. ASSUME NEW s \in Session, NEW op, NEW h, NEW old, Begin(s, op, h, old),
             op \in RecoverOps => old \in Session
      PROVE  RecoveryNamesOwner'
  BY <1>4 DEF Begin, RecoveryNamesOwner, TypeOK
<1>5. ASSUME NEW s \in Session, SessionStep(s) PROVE RecoveryNamesOwner'
  <2>1. CASE ClaimProjectRead(s)
    <3>1. Begin(s, "claimProject", None, claim)
      BY <2>1 DEF ClaimProjectRead
    <3> QED BY <3>1, <1>4 DEF RecoverOps
  <2>2. CASE ClaimProjectCommit(s) \/ Abort(s)
    BY <2>2, <1>3 DEF ClaimProjectCommit, Abort
  <2>3. CASE ~ClaimProjectRead(s) /\ UNCHANGED call
    BY <2>3, <1>2
  <2> QED
    BY <1>5, <2>1, <2>2, <2>3
    DEF SessionStep, RenewLease, LapseLease, ForceClaimProject,
        ReleaseProject, DiscardSession
<1>6. ASSUME NEW s \in Session, HandoffRead(s) PROVE RecoveryNamesOwner'
  <2>1. ASSUME NEW h \in Handoff, RecoverRead(s, h) PROVE RecoveryNamesOwner'
    <3>1. PhaseOwner(h) \in Session
      BY <2>1 DEF RecoverRead, PhaseOwner, Owner, Open, Requested, Received,
         TypeOK, RowsOK, HandoffRow, Maybe
    <3>2. Begin(s, RecoverPhase(h), h, PhaseOwner(h))
      BY <2>1 DEF RecoverRead
    <3> QED BY <3>1, <3>2, <1>4
  <2>2. CASE ~\E h \in Handoff : RecoverRead(s, h)
    <3>1. PICK op, h, old : op \notin RecoverOps /\ Begin(s, op, h, old)
      BY <1>6, <2>2
      DEF HandoffRead, ReceiveForGoalRead, ReleaseGoalRead, RequestRead,
          ClaimGoalRead, ReceiveRead, RequestReviewRead, ReceiveReviewRead,
          RejectReviewRead, ReceiveRejectionRead, CompleteRead, RecoverOps
    <3> QED BY <3>1, <1>4
  <2> QED BY <2>1, <2>2
<1>7. ASSUME NEW s \in Session, HandoffCommit(s) PROVE RecoveryNamesOwner'
  <2>1. CASE ClaimGoalRequest(s) \/ ClaimGoalReceive(s)
    BY <2>1 DEF ClaimGoalRequest, ClaimGoalReceive, RecoveryNamesOwner,
       RecoverOps, TypeOK, Call
  <2>2. CASE Return(s)
    BY <2>2, <1>3
  <2> QED
    BY <1>7, <2>1, <2>2
    DEF HandoffCommit, PlainCommit, RequestCommit, ReceiveCommit,
        RequestReviewCommit, ReceiveReviewCommit, RejectReviewCommit,
        ReceiveRejectionCommit, RecoverCommit, CompleteCommit,
        ReleaseGoalCommit
<1> QED BY <1>1, <1>5, <1>6, <1>7 DEF HandoffNext

\* Every commit has one of six effects on a row, and each effect comes with
\* the check of the row that its transaction made.
LEMMA CommitEffect ==
  ASSUME NEW s \in Session, TypeOK, RecoveryNamesOwner, HandoffCommit(s),
         NEW x \in Handoff
  PROVE  Effect(s, x)
<1>1. gh \in [Handoff -> HandoffRow]
  BY DEF TypeOK, RowsOK
<1>2. CASE RequestCommit(s) \/ ClaimGoalRequest(s)
  <2>1. PICK h : RequestTx(s, h)
    BY <1>2 DEF RequestCommit, ClaimGoalRequest
  <2>2. CASE x = h
    BY <1>1, <2>1, <2>2 DEF RequestTx, HandoffRow, Effect, KeepsHolder,
       BecomesRequested, Requested
  <2>3. CASE x \in Others(h)
    BY <1>1, <2>1, <2>3 DEF RequestTx, Reclaimable, Others, OpenHandoffs,
       Effect, Reclaimed
  <2> QED
    BY <1>1, <2>1, <2>2, <2>3 DEF RequestTx, Effect, KeepsHolder
<1>3. CASE ReceiveCommit(s)
  <2>1. CASE x = call[s].h
    BY <1>1, <1>3, <2>1 DEF ReceiveCommit, ReceiveTx, Effect, ReceivedByOf
  <2> QED
    BY <1>1, <1>3, <2>1 DEF ReceiveCommit, ReceiveTx, Effect, KeepsHolder
<1>4. CASE RequestReviewCommit(s)
  <2>1. CASE x = call[s].h
    <3>1. gh'[x] = [gh[x] EXCEPT !.reviewRequestedBy = s,
                                 !.reviewReceivedBy  = None,
                                 !.reviewRejected    = FALSE,
                                 !.rejectionReceived = FALSE]
      BY <1>1, <1>4, <2>1 DEF RequestReviewCommit, RequestReviewTx
    <3> QED BY <1>1, <3>1 DEF Effect, KeepsHolder, HandoffRow
  <2> QED
    BY <1>1, <1>4, <2>1
    DEF RequestReviewCommit, RequestReviewTx, Effect, KeepsHolder
<1>5. CASE ClaimGoalReceive(s)
  BY <1>5 DEF ClaimGoalReceive, Effect, KeepsHolder
<1>6. CASE ReceiveReviewCommit(s) \/ RejectReviewCommit(s)
  BY <1>1, <1>6 DEF ReceiveReviewCommit, ReceiveReviewTx, RejectReviewCommit,
     RejectReviewTx, Effect, KeepsHolder, HandoffRow
<1>7. CASE ReceiveRejectionCommit(s)
  BY <1>1, <1>7 DEF ReceiveRejectionCommit, ReceiveRejectionTx, Effect,
     KeepsHolder, HandoffRow
<1>8. CASE RecoverCommit(s)
  <2> DEFINE h == call[s].h  old == call[s].old
  <2>1. CASE gh' = [gh EXCEPT ![h].reviewReceivedBy = None]
    BY <1>1, <2>1 DEF Effect, KeepsHolder, HandoffRow
  <2>2. CASE /\ Live(h)
             /\ CanRecover(old)
             /\ old = Owner(h)
             /\ gh' = [gh EXCEPT ![h].recovered = TRUE]
    <3>1. CASE x = h
      BY <1>1, <2>2, <3>1 DEF Effect, Recovered
    <3>2. CASE x # h
      BY <1>1, <2>2, <3>2 DEF Effect, KeepsHolder
    <3> QED BY <3>1, <3>2
  <2>3. old # None
    BY <1>8, SessionAssumption DEF RecoverCommit, RecoverOps, RecoveryNamesOwner
  <2> QED
    BY <1>8, <2>1, <2>2, <2>3 DEF RecoverCommit, RecoverTx, Received, Owner
<1>9. CASE CompleteCommit(s)
  BY <1>1, <1>9 DEF CompleteCommit, CompleteByReviewerTx, Effect, KeepsHolder,
     Ended, HandoffRow
<1>10. CASE ReleaseGoalCommit(s)
  BY <1>1, <1>10 DEF ReleaseGoalCommit, Effect, KeepsHolder, Ended,
     HandoffRow
<1> QED
  BY <1>2, <1>3, <1>4, <1>5, <1>6, <1>7, <1>8, <1>9, <1>10
  DEF HandoffCommit, PlainCommit

\* Who requested and who received a handoff is not changed by the commits that
\* neither request nor receive one.
LEMMA PlainKeepsParties ==
  ASSUME NEW s \in Session, gh \in [Handoff -> HandoffRow], PlainCommit(s),
         NEW h \in Handoff
  PROVE  /\ gh'[h].requestedBy = gh[h].requestedBy
         /\ gh'[h].receivedBy = gh[h].receivedBy
<1>1. CASE ClaimGoalReceive(s)
  BY <1>1 DEF ClaimGoalReceive
<1>2. CASE ReceiveReviewCommit(s)
  BY <1>2 DEF ReceiveReviewCommit, ReceiveReviewTx, HandoffRow
<1>3. CASE RejectReviewCommit(s)
  BY <1>3 DEF RejectReviewCommit, RejectReviewTx, HandoffRow
<1>4. CASE ReceiveRejectionCommit(s)
  BY <1>4 DEF ReceiveRejectionCommit, ReceiveRejectionTx, HandoffRow
<1>5. CASE RecoverCommit(s)
  BY <1>5 DEF RecoverCommit, RecoverTx, HandoffRow
<1>6. CASE CompleteCommit(s)
  BY <1>6 DEF CompleteCommit, CompleteByReviewerTx, HandoffRow
<1>7. CASE ReleaseGoalCommit(s)
  BY <1>7 DEF ReleaseGoalCommit, HandoffRow
<1> QED
  BY <1>1, <1>2, <1>3, <1>4, <1>5, <1>6, <1>7 DEF PlainCommit
-----------------------------------------------------------------------------
(* The inductive invariant                                                 *)

HandoffInv == TypeOK /\ RecoveryNamesOwner /\ AtMostOneOpen

\* Only a request opens a handoff, and then it has closed every other one.
LEMMA OpenSetStep ==
  ASSUME NEW s \in Session, TypeOK, RecoveryNamesOwner, HandoffCommit(s)
  PROVE  \/ OpenHandoffs' \subseteq OpenHandoffs
         \/ \E h : OpenHandoffs' \subseteq {h}
<1>1. CASE RequestCommit(s) \/ ClaimGoalRequest(s)
  <2>1. PICK h : RequestTx(s, h)
    BY <1>1 DEF RequestCommit, ClaimGoalRequest
  <2>2. \A x \in Others(h) : gh'[x].report = "reclaimed"
    BY <2>1 DEF RequestTx, Others, OpenHandoffs, TypeOK, RowsOK, HandoffRow
  <2>3. \A x \in Handoff : x # h /\ x \notin Others(h) => gh'[x] = gh[x]
    BY <2>1 DEF RequestTx
  <2> QED
    BY <2>2, <2>3
    DEF OpenHandoffs, Others, Open, Requested, Live, Completed
<1>2. CASE ~(RequestCommit(s) \/ ClaimGoalRequest(s))
  <2>1. \A x \in Handoff : gh'[x].requestedBy = gh[x].requestedBy
    <3>1. gh \in [Handoff -> HandoffRow]
      BY DEF TypeOK, RowsOK
    <3>2. CASE ReceiveCommit(s)
      BY <3>1, <3>2 DEF ReceiveCommit, ReceiveTx, HandoffRow
    <3>3. CASE RequestReviewCommit(s)
      BY <3>1, <3>3 DEF RequestReviewCommit, RequestReviewTx, HandoffRow
    <3>4. CASE PlainCommit(s)
      BY <3>1, <3>4, PlainKeepsParties
    <3> QED
      BY <1>2, <3>2, <3>3, <3>4 DEF HandoffCommit
  <2>2. \A x \in Handoff : Effect(s, x)
    BY CommitEffect
  <2>3. ASSUME NEW x \in Handoff, Open(x)' PROVE Open(x)
    BY <2>1, <2>2, <2>3
    DEF Effect, KeepsHolder, BecomesRequested, Reclaimed, ReceivedByOf,
        Recovered, Ended, Open, Requested, Live, Completed, MayReceive, TypeOK,
        RowsOK, HandoffRow
  <2> QED BY <2>3 DEF OpenHandoffs
<1> QED BY <1>1, <1>2

\* No step makes a second open handoff.
LEMMA AtMostOneOpenStep ==
  HandoffInv /\ [HandoffNext]_handoffVars => AtMostOneOpen'
<1> SUFFICES ASSUME HandoffInv, [HandoffNext]_handoffVars PROVE AtMostOneOpen'
  OBVIOUS
<1>1. CASE UNCHANGED gh
  BY <1>1 DEF HandoffInv, AtMostOneOpen, OpenHandoffs, Open, Requested, Live,
     Completed
<1>2. ASSUME NEW s \in Session, HandoffCommit(s) PROVE AtMostOneOpen'
  BY <1>2, OpenSetStep DEF HandoffInv, AtMostOneOpen
<1>3. ASSUME NEW s \in Session, HandoffRead(s) PROVE UNCHANGED gh
  BY <1>3, ReadStep DEF HandoffInv
<1> QED BY <1>1, <1>2, <1>3 DEF HandoffNext, handoffVars

\* The inductive invariant holds of the empty table.
LEMMA HandoffInvInit == HandoffInit => HandoffInv
BY HandoffInitType
DEF HandoffInv, HandoffInit, SessionInit, RecoveryNamesOwner, RecoverOps, Idle,
    AtMostOneOpen, OpenHandoffs, Open, Requested, NoRow

\* Every step keeps the inductive invariant.
LEMMA HandoffInvStep == HandoffInv /\ [HandoffNext]_handoffVars => HandoffInv'
BY HandoffNextType, RecoveryNamesOwnerStep, AtMostOneOpenStep DEF HandoffInv

\* The inductive invariant holds of every reachable state.
LEMMA HandoffInvariant == HandoffSpec => []HandoffInv
BY HandoffInvInit, HandoffInvStep, PTL DEF HandoffSpec

\* A goal never has two open handoffs: whatever sessions request, claim, receive
\* and recover at the same time, the reclaim inside the request transaction
\* (reclaimOpenGoalHandoffTx) keeps the goal with one.
THEOREM OneOpenHandoff == HandoffSpec => []AtMostOneOpen
<1>1. HandoffInv => AtMostOneOpen
  BY DEF HandoffInv
<1> QED BY <1>1, HandoffInvariant, PTL
-----------------------------------------------------------------------------
(* Action properties                                                       *)

\* What is true of every row under every step: either nothing that matters to
\* a holder changed, or one session's commit had its effect.
LEMMA StepEffect ==
  ASSUME HandoffInv, [HandoffNext]_handoffVars
  PROVE  gh' = gh \/ \E s \in Session : \A x \in Handoff : Effect(s, x)
<1>1. ASSUME NEW s \in Session, HandoffCommit(s)
      PROVE  \A x \in Handoff : Effect(s, x)
  BY <1>1, CommitEffect DEF HandoffInv
<1>2. ASSUME NEW s \in Session, HandoffRead(s) PROVE gh' = gh
  BY <1>2, ReadStep DEF HandoffInv
<1> QED BY <1>1, <1>2 DEF HandoffNext, handoffVars

\* No step from a reachable state displaces a live receiver: of the effects, a
\* reclaim, a receive and a recovery each looked at the lease of the owner.
LEMMA LiveReceiversStep ==
  HandoffInv /\ [HandoffNext]_handoffVars => [KeepLiveReceivers]_handoffVars
<1> SUFFICES ASSUME HandoffInv, [HandoffNext]_handoffVars,
                    NEW h \in OpenHandoffs,
                    gh[h].receivedBy \in held \ discarded
             PROVE  /\ gh'[h].receivedBy = gh[h].receivedBy
                    /\ ~gh'[h].recovered
                    /\ gh'[h].report # "reclaimed"
  BY DEF KeepLiveReceivers
<1>1. /\ h \in Handoff
      /\ gh \in [Handoff -> HandoffRow]
      /\ Open(h)
      /\ Received(h)
      /\ Owner(h) \in held \ discarded
      /\ ~gh[h].recovered
      /\ gh[h].report = "none"
  BY SessionAssumption DEF HandoffInv, TypeOK, RowsOK, OpenHandoffs, Received,
     Owner, Open, Live, Completed
<1>2. CASE gh' = gh
  BY <1>1, <1>2
<1>3. ASSUME NEW s \in Session, Effect(s, h)
      PROVE  /\ gh'[h].receivedBy = gh[h].receivedBy
             /\ ~gh'[h].recovered
             /\ gh'[h].report # "reclaimed"
  BY <1>1, <1>3
  DEF Effect, KeepsHolder, BecomesRequested, Reclaimed, ReceivedByOf,
      MayReceive, Recovered, CanRecover, Ended, Open, HandoffRow
<1> QED BY <1>1, <1>2, <1>3, StepEffect

\* No step of any session takes an open handoff from a receiver whose lease is
\* held and that was not discarded: the check of the receiver's lease is in
\* the same transaction as the takeover, so no stale read can get past it.
THEOREM LiveReceiverSafe == HandoffSpec => LiveReceiverKeepsHandoff
BY HandoffInvariant, LiveReceiversStep, PTL
DEF HandoffSpec, LiveReceiverKeepsHandoff

\* No step from a reachable state rewrites a closed handoff.
LEMMA OutcomesStep ==
  HandoffInv /\ [HandoffNext]_handoffVars => [KeepOutcomes]_handoffVars
<1> SUFFICES ASSUME HandoffInv, [HandoffNext]_handoffVars,
                    NEW h \in Handoff, Requested(h), ~Open(h)
             PROVE  /\ gh'[h].report = gh[h].report
                    /\ gh'[h].recovered = gh[h].recovered
                    /\ gh'[h].requestedBy = gh[h].requestedBy
  BY DEF KeepOutcomes
<1>1. gh \in [Handoff -> HandoffRow]
  BY DEF HandoffInv, TypeOK, RowsOK
<1>2. CASE gh' = gh
  BY <1>2
<1>3. ASSUME NEW s \in Session, Effect(s, h)
      PROVE  /\ gh'[h].report = gh[h].report
             /\ gh'[h].recovered = gh[h].recovered
             /\ gh'[h].requestedBy = gh[h].requestedBy
  BY <1>1, <1>3
  DEF Effect, KeepsHolder, BecomesRequested, Reclaimed, ReceivedByOf,
      Recovered, Ended, Open, HandoffRow
<1> QED BY <1>2, <1>3, StepEffect

\* A closed handoff keeps its outcome: a request, receive, recovery or
\* completion that was in flight when it closed does not reopen or rewrite it.
THEOREM ClosedIsFinal == HandoffSpec => ClosedStaysClosed
BY HandoffInvariant, OutcomesStep, PTL DEF HandoffSpec, ClosedStaysClosed
-----------------------------------------------------------------------------
(* The review columns                                                      *)

\* Every transaction leaves the review columns of a row in agreement.
LEMMA ReviewColumnsCommit ==
  ASSUME NEW s \in Session, TypeOK, ReviewColumnsAgree, HandoffCommit(s),
         NEW x \in Handoff
  PROVE  ColumnsAgree(gh'[x])
<1>1. gh \in [Handoff -> HandoffRow] /\ ColumnsAgree(gh[x]) /\ s # None
  BY SessionAssumption DEF TypeOK, RowsOK, ReviewColumnsAgree
<1>2. CASE RequestCommit(s) \/ ClaimGoalRequest(s)
  <2>1. PICK h : RequestTx(s, h)
    BY <1>2 DEF RequestCommit, ClaimGoalRequest
  <2> QED BY <1>1, <2>1 DEF RequestTx, ColumnsAgree, HandoffRow
<1>3. CASE ReceiveCommit(s)
  BY <1>1, <1>3 DEF ReceiveCommit, ReceiveTx, MayReceive, Requested,
     ColumnsAgree, HandoffRow
<1>4. CASE RequestReviewCommit(s)
  <2>1. CASE x = call[s].h
    <3>1. /\ gh'[x] = [gh[x] EXCEPT !.reviewRequestedBy = s,
                                    !.reviewReceivedBy  = None,
                                    !.reviewRejected    = FALSE,
                                    !.rejectionReceived = FALSE]
          /\ gh[x].receivedBy # None
      BY <1>1, <1>4, <2>1
      DEF RequestReviewCommit, RequestReviewTx, Received
    <3> QED BY <1>1, <3>1 DEF ColumnsAgree, HandoffRow
  <2> QED BY <1>1, <1>4, <2>1 DEF RequestReviewCommit, RequestReviewTx
<1>5. CASE ClaimGoalReceive(s)
  BY <1>1, <1>5 DEF ClaimGoalReceive
<1>6. CASE ReceiveReviewCommit(s)
  BY <1>1, <1>6 DEF ReceiveReviewCommit, ReceiveReviewTx, ColumnsAgree,
     HandoffRow
<1>7. CASE RejectReviewCommit(s)
  BY <1>1, <1>7 DEF RejectReviewCommit, RejectReviewTx, ColumnsAgree,
     HandoffRow
<1>8. CASE ReceiveRejectionCommit(s)
  BY <1>1, <1>8 DEF ReceiveRejectionCommit, ReceiveRejectionTx, ColumnsAgree,
     HandoffRow
<1>9. CASE RecoverCommit(s)
  BY <1>1, <1>9 DEF RecoverCommit, RecoverTx, ColumnsAgree, HandoffRow
<1>10. CASE CompleteCommit(s) \/ ReleaseGoalCommit(s)
  BY <1>1, <1>10 DEF CompleteCommit, CompleteByReviewerTx, ReleaseGoalCommit,
     ColumnsAgree, HandoffRow
<1> QED
  BY <1>2, <1>3, <1>4, <1>5, <1>6, <1>7, <1>8, <1>9, <1>10
  DEF HandoffCommit, PlainCommit

\* Every step keeps the review columns in agreement.
LEMMA ReviewColumnsStep ==
  TypeOK /\ ReviewColumnsAgree /\ [HandoffNext]_handoffVars
    => ReviewColumnsAgree'
<1> SUFFICES ASSUME TypeOK, ReviewColumnsAgree, [HandoffNext]_handoffVars
             PROVE  ReviewColumnsAgree'
  OBVIOUS
<1>1. CASE UNCHANGED gh
  BY <1>1 DEF ReviewColumnsAgree
<1>2. ASSUME NEW s \in Session, HandoffCommit(s) PROVE ReviewColumnsAgree'
  BY <1>2, ReviewColumnsCommit DEF ReviewColumnsAgree
<1>3. ASSUME NEW s \in Session, HandoffRead(s) PROVE UNCHANGED gh
  BY <1>3, ReadStep
<1> QED BY <1>1, <1>2, <1>3 DEF HandoffNext, handoffVars

\* A review receipt, rejection or rejection receipt is always of the submission
\* it claims to be of, in whatever order the transactions of the commander,
\* its successor and the receiver commit.
THEOREM ReviewColumnsSafe == HandoffSpec => []ReviewColumnsAgree
<1>1. HandoffInit => ReviewColumnsAgree
  BY DEF HandoffInit, ReviewColumnsAgree, ColumnsAgree, NoRow
<1> QED BY <1>1, ReviewColumnsStep, TypeCorrect, PTL DEF HandoffSpec
-----------------------------------------------------------------------------
(* GoalHandoff implements GoalLease                                        *)

\* The protocol starts with nobody on the goal, as the lease does.
LEMMA LeaseInitMaps == HandoffInit => Lease!LeaseInit
BY DEF HandoffInit, SessionInit, Lease!LeaseInit, Holders, OpenHandoffs, Open,
       Requested, NoRow

\* An open received handoff is the only open one, so its receiver is the holder.
LEMMA HolderOfOpen ==
  ASSUME HandoffInv, NEW h \in OpenHandoffs
  PROVE  Holders = IF Received(h) THEN {gh[h].receivedBy} ELSE {}
BY DEF HandoffInv, AtMostOneOpen, Holders

\* Renewals, lapses and discards move the live sessions and nothing else.
LEMMA SessionStepMaps ==
  ASSUME NEW s \in Session, HandoffInv, SessionStep(s), UNCHANGED gh
  PROVE  [Lease!LeaseNext]_(Lease!leaseVars)
<1>1. Holders' = Holders
  BY DEF Holders, OpenHandoffs, Open, Requested, Live, Completed, Received
<1>2. (held \ discarded)' \in SUBSET Session
  BY SessionStepType DEF HandoffInv, TypeOK, RowsOK
<1> QED BY <1>1, <1>2 DEF Lease!LeaseNext, Lease!LeasesMove

\* A commit leaves the live sessions alone and moves the holder as GoalLease
\* allows: to nobody, or to the receiver of a handoff whose holder is dead.
LEMMA CommitMaps ==
  ASSUME NEW s \in Session, HandoffInv, ReviewColumnsAgree, AtMostOneOpen',
         HandoffCommit(s)
  PROVE  [Lease!LeaseNext]_(Lease!leaseVars)
<1>1. UNCHANGED <<held, discarded, claim>>
  BY DEF HandoffCommit, PlainCommit, RequestCommit, ClaimGoalRequest,
         ClaimGoalReceive, ReceiveCommit, RequestReviewCommit,
         ReceiveReviewCommit, RejectReviewCommit, ReceiveRejectionCommit,
         RecoverCommit, CompleteCommit, ReleaseGoalCommit
<1>2. CASE Holders' = {}
  BY <1>1, <1>2 DEF Lease!LeaseNext, Lease!Leave
<1>3. CASE Holders' # {}
  <2>1. PICK y \in Handoff : y \in OpenHandoffs' /\ gh'[y].receivedBy # None
    BY <1>3 DEF Holders, OpenHandoffs, Received
  <2>2. Holders' = {gh'[y].receivedBy}
    BY <2>1 DEF Holders, AtMostOneOpen, Received, OpenHandoffs
  <2>3. /\ gh \in [Handoff -> HandoffRow]
        /\ gh'[y].requestedBy # None
        /\ gh'[y].report = "none"
        /\ ~gh'[y].recovered
    BY <2>1 DEF HandoffInv, TypeOK, RowsOK, OpenHandoffs, Open, Requested, Live,
       Completed
  <2>4. Effect(s, y)
    BY CommitEffect DEF HandoffInv
  <2>5. KeepsHolder(y) \/ ReceivedByOf(s, y)
    BY <2>1, <2>3, <2>4
    DEF Effect, BecomesRequested, Reclaimed, Recovered, Ended, Requested,
        ReviewColumnsAgree, ColumnsAgree, HandoffRow
  <2>6. Open(y)
    BY <2>3, <2>5
    DEF KeepsHolder, ReceivedByOf, MayReceive, Open, Requested, Live, Completed,
        HandoffRow
  <2>7. Holders = IF Received(y) THEN {gh[y].receivedBy} ELSE {}
    BY <2>6, HolderOfOpen DEF OpenHandoffs
  <2>8. CASE gh'[y].receivedBy = gh[y].receivedBy
    BY <1>1, <2>1, <2>2, <2>7, <2>8 DEF Lease!leaseVars, Received
  <2>9. CASE gh'[y].receivedBy # gh[y].receivedBy
    <3>1. gh'[y].receivedBy = s /\ gh[y].receivedBy \notin held
      BY <2>3, <2>5, <2>9 DEF KeepsHolder, ReceivedByOf, MayReceive,
         HandoffRow
    <3>2. Holders \cap (held \ discarded) = {}
      BY <2>7, <3>1
    <3>3. Lease!Take(s)
      BY <1>1, <2>2, <3>1, <3>2 DEF Lease!Take
    <3> QED BY <3>3 DEF Lease!LeaseNext
  <2> QED BY <2>8, <2>9
<1> QED BY <1>2, <1>3

\* Every step of the protocol is a step of the lease, or none.
LEMMA StepMaps ==
  /\ HandoffInv /\ ReviewColumnsAgree /\ AtMostOneOpen'
  /\ [HandoffNext]_handoffVars
  => [Lease!LeaseNext]_(Lease!leaseVars)
<1> SUFFICES ASSUME HandoffInv, ReviewColumnsAgree, AtMostOneOpen',
                    [HandoffNext]_handoffVars
             PROVE  [Lease!LeaseNext]_(Lease!leaseVars)
  OBVIOUS
<1>1. CASE UNCHANGED <<held, discarded, gh>>
  BY <1>1 DEF Lease!leaseVars, Holders, OpenHandoffs, Open, Requested, Live,
     Completed, Received
<1>2. ASSUME NEW s \in Session, HandoffRead(s)
      PROVE  UNCHANGED <<held, discarded, gh>>
  BY <1>2, ReadStep DEF HandoffInv
<1> QED
  BY <1>1, <1>2, SessionStepMaps, CommitMaps DEF HandoffNext, handoffVars

\* The whole handoff protocol, two-step calls and all, implements the lease on
\* the goal that it is meant to be: one holder, succeeded only when dead.
THEOREM HandoffImplementsLease == HandoffSpec => ImplementsLease
<1>1. HandoffInv => AtMostOneOpen
  BY DEF HandoffInv
<1> QED
  BY <1>1, LeaseInitMaps, StepMaps, HandoffInvariant, ReviewColumnsSafe, PTL
  DEF HandoffSpec, ImplementsLease, Lease!LeaseSpec
-----------------------------------------------------------------------------
(* GoalHandoff implements HandoffPhases                                    *)

\* A row that nobody requested was neither recovered nor closed.
OnlyRequestedEnd == \A h \in Handoff : ~Requested(h) => Live(h)

PhaseInv == HandoffInv /\ ReviewColumnsAgree /\ OnlyRequestedEnd

\* What may become of the exchange about a row r, in one step: a row q.
PhaseStep(r, q) ==
  \/ PhaseOf(q) = PhaseOf(r)
  \/ PhaseOf(q) \in Exchange!Following[PhaseOf(r)]
  \/ PhaseOf(r) \in Exchange!OpenPhases /\ PhaseOf(q) \in {"recovered", "closed"}

\* Every commit takes the exchange about a row to a phase that follows, ends
\* it, or leaves it where it is.
LEMMA PhaseCommit ==
  ASSUME NEW s \in Session, PhaseInv, HandoffCommit(s), NEW x \in Handoff
  PROVE  PhaseStep(gh[x], gh'[x])
<1>1. /\ gh \in [Handoff -> HandoffRow]
      /\ ColumnsAgree(gh[x])
      /\ gh[x].requestedBy = None => gh[x].report = "none" /\ ~gh[x].recovered
      /\ s # None
  BY SessionAssumption DEF PhaseInv, HandoffInv, TypeOK, RowsOK,
     ReviewColumnsAgree, OnlyRequestedEnd, Requested, Live, Completed
<1>2. CASE UNCHANGED gh[x]
  BY <1>2 DEF PhaseStep
<1>3. CASE RequestCommit(s) \/ ClaimGoalRequest(s)
  <2>1. PICK h : RequestTx(s, h)
    BY <1>3 DEF RequestCommit, ClaimGoalRequest
  <2>2. CASE x = h
    <3>1. \/ gh'[x] = gh[x]
          \/ /\ gh[x].requestedBy = None
             /\ gh'[x] = [gh[x] EXCEPT !.requestedBy = s]
      BY <1>1, <2>1, <2>2 DEF RequestTx, HandoffRow
    <3>2. CASE /\ gh[x].requestedBy = None
               /\ gh'[x] = [gh[x] EXCEPT !.requestedBy = s]
      <4>1. PhaseOf(gh[x]) = "none" /\ gh[x].receivedBy = None
        BY <1>1, <3>2 DEF PhaseOf, ColumnsAgree
      <4>2. PhaseOf(gh'[x]) = "requested"
        BY <1>1, <3>2, <4>1 DEF PhaseOf, HandoffRow
      <4> QED BY <4>1, <4>2 DEF PhaseStep, Exchange!Following
    <3> QED BY <1>2, <3>1, <3>2
  <2>3. CASE x \in Others(h)
    BY <1>1, <2>1, <2>3 DEF RequestTx, Others, OpenHandoffs, Open, Requested,
       Live, Completed, PhaseStep, PhaseOf, HandoffRow, Exchange!OpenPhases
  <2> QED BY <1>2, <2>1, <2>2, <2>3 DEF RequestTx
<1>4. CASE ReceiveCommit(s)
  <2>1. CASE x = call[s].h
    <3>1. gh'[x] = [gh[x] EXCEPT !.receivedBy = s] /\ gh[x].requestedBy # None
      BY <1>1, <1>4, <2>1 DEF ReceiveCommit, ReceiveTx, MayReceive, Requested
    <3> QED
      BY <1>1, <3>1 DEF PhaseStep, PhaseOf, ColumnsAgree, HandoffRow,
         Exchange!Following
  <2> QED BY <1>1, <1>2, <1>4, <2>1 DEF ReceiveCommit, ReceiveTx
<1>5. CASE RequestReviewCommit(s)
  <2>1. CASE x = call[s].h
    <3>1. /\ gh'[x] = [gh[x] EXCEPT !.reviewRequestedBy = s,
                                    !.reviewReceivedBy  = None,
                                    !.reviewRejected    = FALSE,
                                    !.rejectionReceived = FALSE]
          /\ PhaseOf(gh[x]) \in {"received", "acknowledged"}
      BY <1>1, <1>5, <2>1 DEF RequestReviewCommit, RequestReviewTx, Open,
         Requested, Live, Completed, Received, PhaseOf, ColumnsAgree, HandoffRow
    <3>2. PhaseOf(gh'[x]) = "submitted"
      BY <1>1, <3>1 DEF PhaseOf, HandoffRow
    <3> QED BY <3>1, <3>2 DEF PhaseStep, Exchange!Following
  <2> QED BY <1>1, <1>2, <1>5, <2>1 DEF RequestReviewCommit, RequestReviewTx
<1>6. CASE ReceiveReviewCommit(s)
  <2>1. CASE x = call[s].h
    <3>1. /\ gh'[x] = [gh[x] EXCEPT !.reviewReceivedBy = s]
          /\ PhaseOf(gh[x]) \in {"submitted", "reviewing"}
          /\ ~gh[x].reviewRejected
      BY <1>1, <1>6, <2>1 DEF ReceiveReviewCommit, ReceiveReviewTx, Live,
         Completed, PhaseOf, ColumnsAgree, HandoffRow
    <3>2. PhaseOf(gh'[x]) = "reviewing"
      BY <1>1, <3>1 DEF PhaseOf, ColumnsAgree, HandoffRow
    <3> QED BY <3>1, <3>2 DEF PhaseStep, Exchange!Following
  <2> QED BY <1>1, <1>2, <1>6, <2>1 DEF ReceiveReviewCommit, ReceiveReviewTx
<1>7. CASE RejectReviewCommit(s)
  <2>1. CASE x = call[s].h
    <3>1. /\ gh'[x] = [gh[x] EXCEPT !.reviewReceivedBy = None,
                                    !.reviewRejected   = TRUE]
          /\ PhaseOf(gh[x]) = "reviewing"
          /\ ~gh[x].rejectionReceived
      BY <1>1, <1>7, <2>1 DEF RejectReviewCommit, RejectReviewTx, Live,
         Completed, PhaseOf, ColumnsAgree, HandoffRow
    <3>2. PhaseOf(gh'[x]) = "rejected"
      BY <1>1, <3>1 DEF PhaseOf, HandoffRow
    <3> QED BY <3>1, <3>2 DEF PhaseStep, Exchange!Following
  <2> QED BY <1>1, <1>2, <1>7, <2>1 DEF RejectReviewCommit, RejectReviewTx
<1>8. CASE ReceiveRejectionCommit(s)
  <2>1. CASE x = call[s].h
    <3>1. /\ gh'[x] = [gh[x] EXCEPT !.rejectionReceived = TRUE]
          /\ gh[x].reviewRejected
      BY <1>1, <1>8, <2>1 DEF ReceiveRejectionCommit, ReceiveRejectionTx
    <3>2. PhaseOf(gh'[x]) = PhaseOf(gh[x])
                \/ /\ PhaseOf(gh[x]) = "rejected"
                   /\ PhaseOf(gh'[x]) = "acknowledged"
      BY <1>1, <3>1 DEF PhaseOf, ColumnsAgree, HandoffRow
    <3> QED BY <3>2 DEF PhaseStep, Exchange!Following
  <2> QED BY <1>1, <1>2, <1>8, <2>1 DEF ReceiveRejectionCommit, ReceiveRejectionTx
<1>9. CASE RecoverCommit(s)
  <2>1. call[s].old # None
    BY <1>9, SessionAssumption
    DEF RecoverCommit, PhaseInv, HandoffInv, RecoverOps, RecoveryNamesOwner
  <2>2. CASE x # call[s].h
    BY <1>1, <1>2, <1>9, <2>2 DEF RecoverCommit, RecoverTx
  <2>3. CASE gh'[x] = [gh[x] EXCEPT !.recovered = TRUE]
             /\ gh[x].requestedBy # None /\ Live(x)
    <3>1. PhaseOf(gh[x]) \in Exchange!OpenPhases
      BY <1>1, <2>3 DEF Live, Completed, PhaseOf, Exchange!OpenPhases
    <3>2. PhaseOf(gh'[x]) = "recovered"
      BY <1>1, <2>3 DEF PhaseOf, HandoffRow
    <3> QED BY <3>1, <3>2 DEF PhaseStep
  <2>4. CASE gh'[x] = [gh[x] EXCEPT !.reviewReceivedBy = None]
             /\ gh[x].reviewReceivedBy # None /\ Live(x)
    <3>1. PhaseOf(gh[x]) = "reviewing" /\ ~gh[x].reviewRejected
      BY <1>1, <2>4 DEF Live, Completed, PhaseOf, ColumnsAgree
    <3>2. PhaseOf(gh'[x]) = "submitted"
      BY <1>1, <2>4, <3>1 DEF Live, Completed, PhaseOf, ColumnsAgree, HandoffRow
    <3> QED BY <3>1, <3>2 DEF PhaseStep, Exchange!Following
  <2> QED
    BY <1>1, <1>9, <2>1, <2>2, <2>3, <2>4
    DEF RecoverCommit, RecoverTx, ColumnsAgree
<1>10. CASE CompleteCommit(s) \/ ReleaseGoalCommit(s)
  <2>1. CASE x = call[s].h
    <3>1. /\ \E r \in {"completed", "released"} :
               gh'[x] = [gh[x] EXCEPT !.report = r]
          /\ PhaseOf(gh[x]) \in Exchange!OpenPhases
      BY <1>1, <1>10, <2>1 DEF CompleteCommit, CompleteByReviewerTx,
         ReleaseGoalCommit, Open, Requested, Live, Completed, PhaseOf,
         Exchange!OpenPhases
    <3>2. PhaseOf(gh'[x]) \in {"recovered", "closed"}
      BY <1>1, <3>1 DEF PhaseOf, HandoffRow, Exchange!OpenPhases
    <3> QED BY <3>1, <3>2 DEF PhaseStep
  <2> QED
    BY <1>1, <1>2, <1>10, <2>1
    DEF CompleteCommit, CompleteByReviewerTx, ReleaseGoalCommit
<1> QED
  BY <1>2, <1>3, <1>4, <1>5, <1>6, <1>7, <1>8, <1>9, <1>10
  DEF HandoffCommit, PlainCommit, ClaimGoalReceive

\* No row ends before it was requested.
LEMMA OnlyRequestedEndCommit ==
  ASSUME NEW s \in Session, PhaseInv, HandoffCommit(s)
  PROVE  OnlyRequestedEnd'
<1> SUFFICES ASSUME NEW x \in Handoff, ~Requested(x)' PROVE Live(x)'
  BY DEF OnlyRequestedEnd
<1>1. gh \in [Handoff -> HandoffRow] /\ ColumnsAgree(gh[x])
  BY DEF PhaseInv, HandoffInv, TypeOK, RowsOK, ReviewColumnsAgree
<1>2. gh[x].requestedBy = None /\ Live(x)
  <2>1. PhaseOf(gh'[x]) = "none"
    BY DEF Requested, PhaseOf
  <2>2. PhaseOf(gh[x]) = "none"
    BY <2>1, PhaseCommit DEF PhaseStep, PhaseOf, Exchange!Following
  <2> QED BY <2>2 DEF PhaseOf, PhaseInv, OnlyRequestedEnd, Requested
<1>3. CASE RecoverCommit(s)
  <2>1. call[s].old # None
    BY <1>3, SessionAssumption
    DEF RecoverCommit, PhaseInv, HandoffInv, RecoverOps, RecoveryNamesOwner
  <2>2. gh[x].receivedBy = None
    BY <1>1, <1>2 DEF ColumnsAgree
  <2>3. gh'[x].report = gh[x].report /\ gh'[x].recovered = gh[x].recovered
    BY <1>1, <1>2, <1>3, <2>1, <2>2 DEF RecoverCommit, RecoverTx, HandoffRow
  <2> QED BY <1>2, <2>3 DEF Live, Completed
<1>4. CASE ~RecoverCommit(s)
  <2>1. gh'[x].report = gh[x].report /\ gh'[x].recovered = gh[x].recovered
    <3>1. CASE RequestCommit(s) \/ ClaimGoalRequest(s)
      <4>1. PICK h : RequestTx(s, h)
        BY <3>1 DEF RequestCommit, ClaimGoalRequest
      <4>2. x \notin Others(h)
        BY <1>2 DEF Others, OpenHandoffs, Open, Requested
      <4> QED BY <1>1, <4>1, <4>2 DEF RequestTx, HandoffRow
    <3>2. CASE ReceiveCommit(s) \/ ClaimGoalReceive(s)
      BY <1>1, <3>2 DEF ReceiveCommit, ReceiveTx, ClaimGoalReceive, HandoffRow
    <3>3. CASE RequestReviewCommit(s)
      BY <1>1, <3>3 DEF RequestReviewCommit, RequestReviewTx, HandoffRow
    <3>4. CASE ReceiveReviewCommit(s) \/ RejectReviewCommit(s)
      BY <1>1, <3>4 DEF ReceiveReviewCommit, ReceiveReviewTx,
         RejectReviewCommit, RejectReviewTx, HandoffRow
    <3>5. CASE ReceiveRejectionCommit(s)
      BY <1>1, <3>5 DEF ReceiveRejectionCommit, ReceiveRejectionTx, HandoffRow
    <3>6. CASE CompleteCommit(s) \/ ReleaseGoalCommit(s)
      BY <1>1, <1>2, <3>6 DEF CompleteCommit, CompleteByReviewerTx,
         ReleaseGoalCommit, Open, Requested, HandoffRow
    <3> QED
      BY <1>4, <3>1, <3>2, <3>3, <3>4, <3>5, <3>6 DEF HandoffCommit, PlainCommit
  <2> QED BY <1>2, <2>1 DEF Live, Completed
<1> QED BY <1>3, <1>4

\* Every step keeps what the phases rest on.
LEMMA PhaseInvStep == PhaseInv /\ [HandoffNext]_handoffVars => PhaseInv'
<1> SUFFICES ASSUME PhaseInv, [HandoffNext]_handoffVars PROVE OnlyRequestedEnd'
  BY HandoffInvStep, ReviewColumnsStep DEF PhaseInv, HandoffInv
<1>1. CASE UNCHANGED gh
  BY <1>1 DEF PhaseInv, OnlyRequestedEnd, Requested, Live, Completed
<1>2. ASSUME NEW s \in Session, HandoffRead(s) PROVE UNCHANGED gh
  BY <1>2, ReadStep DEF PhaseInv, HandoffInv
<1> QED BY <1>1, <1>2, OnlyRequestedEndCommit DEF HandoffNext, handoffVars

\* The exchange starts with no row at all.
LEMMA PhaseInvInit == HandoffInit => PhaseInv /\ Exchange!PhasesInit
BY HandoffInvInit
DEF HandoffInit, PhaseInv, ReviewColumnsAgree, ColumnsAgree, OnlyRequestedEnd,
    Requested, Live, Completed, NoRow, PhaseOf, Exchange!PhasesInit

\* Every step of the protocol is a step of the exchange, or none.
LEMMA PhaseStepMaps ==
  PhaseInv /\ PhaseInv' /\ [HandoffNext]_handoffVars
    => [Exchange!PhasesNext]_[h \in Handoff |-> PhaseOf(gh[h])]
<1> SUFFICES ASSUME PhaseInv, PhaseInv', [HandoffNext]_handoffVars
             PROVE  [Exchange!PhasesNext]_[h \in Handoff |-> PhaseOf(gh[h])]
  OBVIOUS
<1>1. CASE UNCHANGED gh
  BY <1>1
<1>2. ASSUME NEW s \in Session, HandoffCommit(s) PROVE Exchange!PhasesNext
  <2> SUFFICES ASSUME NEW h \in Handoff
               PROVE  /\ \/ Exchange!Advances(h)
                         \/ Exchange!Ends(h)
                         \/ Exchange!Stays(h)
                      /\ Exchange!RequestedAlone(h)
    BY DEF Exchange!PhasesNext
  <2>1. PhaseStep(gh[h], gh'[h])
    BY <1>2, PhaseCommit
  <2>2. Exchange!Advances(h) \/ Exchange!Ends(h) \/ Exchange!Stays(h)
    BY <2>1 DEF PhaseStep, Exchange!Advances, Exchange!Ends, Exchange!Stays
  <2>3. ASSUME PhaseOf(gh'[h]) = "requested", NEW x \in Handoff \ {h}
        PROVE  PhaseOf(gh'[x]) \notin Exchange!OpenPhases
    <3>1. h \in OpenHandoffs'
      BY <2>3 DEF PhaseOf, OpenHandoffs, Open, Requested, Live, Completed
    <3>2. x \notin OpenHandoffs'
      BY <3>1 DEF PhaseInv, HandoffInv, AtMostOneOpen
    <3> QED
      BY <3>2 DEF PhaseOf, Exchange!OpenPhases, OpenHandoffs, Open, Requested,
         Live, Completed
  <2> QED BY <2>2, <2>3 DEF Exchange!RequestedAlone
<1>3. ASSUME NEW s \in Session, HandoffRead(s) PROVE UNCHANGED gh
  BY <1>3, ReadStep DEF PhaseInv, HandoffInv
<1> QED BY <1>1, <1>2, <1>3 DEF HandoffNext, handoffVars

\* Whatever sessions lapse, are replaced or act on what they read long ago, the
\* exchange about a goal handoff keeps its order: nothing is reviewed that was
\* not submitted, rejected that was not under review, or submitted again before
\* its rejection was received.
THEOREM HandoffImplementsPhases == HandoffSpec => ImplementsPhases
<1>1. HandoffSpec => []PhaseInv
  BY PhaseInvInit, PhaseInvStep, PTL DEF HandoffSpec
<1> QED
  BY <1>1, PhaseInvInit, PhaseStepMaps, PTL
  DEF HandoffSpec, ImplementsPhases, Exchange!PhasesSpec
-----------------------------------------------------------------------------
(* GoalReview: the human review and the end of the goal.                   *)

\* The calls that GoalReview adds to those of GoalHandoff.
ReviewCall(s) ==
  \/ RequestGoalReviewRead(s)
  \/ RequestGoalReviewCommit(s)
  \/ FinalizeRead(s)
  \/ FinalizeCommit(s)

\* To the handoffs a step is one of GoalHandoff, or one of goal.review.*.
LEMMA HandoffPart ==
  ASSUME [ReviewNext]_reviewVars
  PROVE  [HandoffNext]_handoffVars \/ \E s \in Session : ReviewCall(s)
<1>1. CASE UNCHANGED reviewVars
  BY <1>1 DEF reviewVars, handoffVars
<1>2. CASE HumanStep
  BY <1>2 DEF HumanStep, ApplyExpiredDefaults, WithdrawActiveGoal,
     ApproveGoalReview, RejectGoalReview, AnswerDecision, ReviseDecision,
     WithdrawDecision
<1>3. ASSUME NEW s \in Session,
             \/ SessionStep(s) /\ UNCHANGED gh
             \/ HandoffRead(s)
             \/ PlainCommit(s)
             \/ Request(s)
             \/ Receive(s)
             \/ Submit(s)
      PROVE  HandoffNext
  BY <1>3 DEF HandoffNext, HandoffCommit, Request, Receive, Submit
<1>4. ASSUME NEW s \in Session,
             \/ AskDecision(s)
             \/ PollDecisions(s)
             \/ \E i \in DOMAIN decisions : PollDecision(s, i)
      PROVE  UNCHANGED handoffVars
  BY <1>4 DEF AskDecision, PollDecisions, PollDecision, MarkApplied
<1> QED BY <1>1, <1>2, <1>3, <1>4 DEF ReviewNext, ReviewCall
-----------------------------------------------------------------------------
(* The handoff invariants, under finalization too                          *)

\* goal.review.request and goal.review.complete are typed calls, and a
\* finalization closes a handoff and opens none.
LEMMA ReviewCallStep ==
  ASSUME HandoffInv, ReviewColumnsAgree, NEW s \in Session, ReviewCall(s)
  PROVE  HandoffInv' /\ ReviewColumnsAgree'
<1>1. CASE RequestGoalReviewRead(s) \/ FinalizeRead(s)
  <2>1. PICK op \in {"requestGoalReview", "finalize"}, h \in Handoff,
             old \in Maybe(Session) : Begin(s, op, h, old)
    BY <1>1 DEF RequestGoalReviewRead, FinalizeRead, Maybe, HandoffInv, TypeOK,
       RowsOK, HandoffRow
  <2>2. h \in Maybe(Handoff) /\ op \in Ops /\ op \notin RecoverOps
    BY DEF Maybe, Ops, RecoverOps
  <2>3. UNCHANGED <<held, discarded, claim, gh>>
    BY <1>1 DEF RequestGoalReviewRead, FinalizeRead
  <2>4. call' \in [Session -> Call(Ops)]
    BY <2>1, <2>2, BeginType DEF HandoffInv
  <2>5. TypeOK'
    BY <2>3, <2>4 DEF HandoffInv, TypeOK, RowsOK
  <2>6. RecoveryNamesOwner'
    BY <2>1, <2>2 DEF Begin, RecoveryNamesOwner, HandoffInv, TypeOK
  <2>7. AtMostOneOpen' /\ ReviewColumnsAgree'
    BY <2>3 DEF HandoffInv, AtMostOneOpen, OpenHandoffs, Open, Requested, Live,
       Completed, ReviewColumnsAgree
  <2> QED BY <2>5, <2>6, <2>7 DEF HandoffInv
<1>2. CASE RequestGoalReviewCommit(s) \/ FinalizeCommit(s)
  <2>1. Return(s) /\ UNCHANGED <<held, discarded, claim>>
    BY <1>2 DEF RequestGoalReviewCommit, FinalizeCommit
  <2>2. \/ gh' = gh
        \/ \E h : gh' = [gh EXCEPT ![h].report = "completed"]
    BY <1>2 DEF RequestGoalReviewCommit, FinalizeCommit, CompleteByReviewerTx
  <2>3. gh \in [Handoff -> HandoffRow]
    BY DEF HandoffInv, TypeOK, RowsOK
  <2>4. gh' \in [Handoff -> HandoffRow]
    <3>1. "completed" \in Report
      BY DEF Report
    <3>2. ASSUME NEW h
          PROVE  [gh EXCEPT ![h].report = "completed"] \in [Handoff -> HandoffRow]
      BY <2>3, <3>1, ColumnUpdate
    <3> QED BY <2>2, <2>3, <3>2
  <2>5. TypeOK'
    BY <2>1, <2>4, ReturnType DEF HandoffInv, TypeOK, RowsOK
  <2>6. RecoveryNamesOwner'
    BY <2>1 DEF Return, Idle, RecoveryNamesOwner, RecoverOps, HandoffInv, TypeOK
  <2>7. ASSUME NEW x \in Handoff
        PROVE  /\ Open(x)' => Open(x)
               /\ ColumnsAgree(gh'[x])
    BY <2>2, <2>3 DEF Open, Requested, Live, Completed, HandoffRow,
       ReviewColumnsAgree, ColumnsAgree
  <2>8. AtMostOneOpen' /\ ReviewColumnsAgree'
    BY <2>7 DEF HandoffInv, AtMostOneOpen, OpenHandoffs, ReviewColumnsAgree
  <2> QED BY <2>5, <2>6, <2>8 DEF HandoffInv
<1> QED BY <1>1, <1>2 DEF ReviewCall

\* Every step keeps the invariants of the handoffs.
LEMMA HandoffInvKept ==
  ASSUME HandoffInv, ReviewColumnsAgree, [ReviewNext]_reviewVars
  PROVE  HandoffInv' /\ ReviewColumnsAgree'
<1>1. HandoffInv => TypeOK
  BY DEF HandoffInv
<1> QED
  BY <1>1, HandoffPart, HandoffInvStep, ReviewColumnsStep, ReviewCallStep

\* A finalization in flight names the handoff and the reviewer that it read.
\* Without this, a NULL reviewer would be the reviewer of a submission that
\* nobody received.
FinalizeNamesReviewer ==
  \A s \in Session : Doing(s, "finalize") =>
    call[s].h \in Handoff /\ call[s].old \in Session

\* goal.review.complete does not begin without a reviewer, and no other step
\* changes a finalization in flight.
LEMMA FinalizeNamesReviewerStep ==
  ASSUME HandoffInv, FinalizeNamesReviewer, [ReviewNext]_reviewVars
  PROVE  FinalizeNamesReviewer'
<1>0. call \in [Session -> Call(Ops)]
  BY DEF HandoffInv, TypeOK
<1>1. ASSUME UNCHANGED call PROVE FinalizeNamesReviewer'
  BY <1>1 DEF FinalizeNamesReviewer, Doing
<1>2. ASSUME NEW s \in Session, Return(s) PROVE FinalizeNamesReviewer'
  BY <1>0, <1>2 DEF Return, Idle, FinalizeNamesReviewer, Doing
<1>3. ASSUME NEW s \in Session, NEW op, NEW h, NEW old, Begin(s, op, h, old),
             op = "finalize" => h \in Handoff /\ old \in Session
      PROVE  FinalizeNamesReviewer'
  BY <1>0, <1>3 DEF Begin, FinalizeNamesReviewer, Doing
<1>4. ASSUME NEW s \in Session, SessionStep(s) PROVE FinalizeNamesReviewer'
  <2>1. CASE ClaimProjectRead(s)
    <3>1. Begin(s, "claimProject", None, claim)
      BY <2>1 DEF ClaimProjectRead
    <3> QED BY <3>1, <1>3
  <2>2. CASE ClaimProjectCommit(s) \/ Abort(s)
    BY <2>2, <1>2 DEF ClaimProjectCommit, Abort
  <2>3. CASE ~ClaimProjectRead(s) /\ UNCHANGED call
    BY <2>3, <1>1
  <2> QED
    BY <1>4, <2>1, <2>2, <2>3
    DEF SessionStep, RenewLease, LapseLease, ForceClaimProject,
        ReleaseProject, DiscardSession
<1>5. ASSUME NEW s \in Session, HandoffRead(s) PROVE FinalizeNamesReviewer'
  <2>1. PICK op, h, old : op # "finalize" /\ Begin(s, op, h, old)
    BY <1>5
    DEF HandoffRead, ReceiveForGoalRead, ReleaseGoalRead, RequestRead,
        ClaimGoalRead, ReceiveRead, RequestReviewRead, ReceiveReviewRead,
        RejectReviewRead, ReceiveRejectionRead, RecoverRead, RecoverPhase,
        CompleteRead
  <2> QED BY <2>1, <1>3
<1>6. ASSUME NEW s \in Session, HandoffCommit(s) PROVE FinalizeNamesReviewer'
  <2>1. CASE ClaimGoalRequest(s) \/ ClaimGoalReceive(s)
    BY <1>0, <2>1 DEF ClaimGoalRequest, ClaimGoalReceive, FinalizeNamesReviewer,
       Doing, Call
  <2>2. CASE Return(s)
    BY <2>2, <1>2
  <2> QED
    BY <1>6, <2>1, <2>2
    DEF HandoffCommit, PlainCommit, RequestCommit, ReceiveCommit,
        RequestReviewCommit, ReceiveReviewCommit, RejectReviewCommit,
        ReceiveRejectionCommit, RecoverCommit, CompleteCommit,
        ReleaseGoalCommit
<1>7. ASSUME NEW s \in Session, ReviewCall(s) PROVE FinalizeNamesReviewer'
  <2>1. CASE RequestGoalReviewRead(s)
    <3>1. PICK h : Begin(s, "requestGoalReview", h, None)
      BY <2>1 DEF RequestGoalReviewRead
    <3> QED BY <3>1, <1>3
  <2>2. CASE FinalizeRead(s)
    <3>1. PICK h \in Handoff : /\ AwaitsHuman(h)
                               /\ Begin(s, "finalize", h, gh[h].reviewReceivedBy)
      BY <2>2 DEF FinalizeRead
    <3>2. gh[h].reviewReceivedBy \in Session
      BY <3>1 DEF AwaitsHuman, HandoffInv, TypeOK, RowsOK, HandoffRow, Maybe
    <3> QED BY <3>1, <3>2, <1>3
  <2> QED
    BY <1>7, <2>1, <2>2, <1>2
    DEF ReviewCall, RequestGoalReviewCommit, FinalizeCommit
<1>8. CASE HandoffNext
  BY <1>8, <1>4, <1>5, <1>6 DEF HandoffNext
<1>9. CASE UNCHANGED handoffVars
  BY <1>9, <1>1 DEF handoffVars
<1> QED BY <1>7, <1>8, <1>9, HandoffPart
-----------------------------------------------------------------------------
(* The decisions                                                           *)

\* A row of decisions, without what is not needed: that a submission in flight
\* names a handoff.
Row == [kind   : {"ask", "review"},
        status : {"open", "answered", "applied", "withdrawn"},
        label  : {"none", "approve", "reject", "chosen"},
        by     : Session,
        after  : SUBSET Maybe(Handoff)]

\* Only a human's approval writes the label, and it applies the review at once.
\* Without this, a poll could make an approval of an answer that was none.
DecisionsAgree ==
  /\ decisions \in Seq(Row)
  /\ \A i \in Filed("answered") : decisions[i].label # "approve"

\* A rewrite of the rows keeps their sequence.
LEMMA Rewritten ==
  ASSUME NEW S, NEW s \in Seq(S), NEW t \in [DOMAIN s -> S]
  PROVE  t \in Seq(S)
<1>1. Len(s) \in Nat /\ DOMAIN s = 1..Len(s)
  BY LenProperties
<1> QED BY <1>1, SeqDef

\* A filed decision is open, and the others stay as they are.
LEMMA FileStep ==
  ASSUME DecisionsAgree, NEW kind \in {"ask", "review"}, NEW s \in Session,
         File(NewDecision(kind, s))
  PROVE  DecisionsAgree' /\ ApprovedReviews' = ApprovedReviews
<1> DEFINE d == NewDecision(kind, s)
<1>1. d \in Row /\ d.status = "open"
  BY DEF NewDecision, Row
<1>2. /\ decisions \in Seq(Row)
      /\ decisions' = Append(decisions, d)
      /\ Len(decisions) \in Nat
      /\ DOMAIN decisions = 1..Len(decisions)
  BY LenProperties DEF DecisionsAgree, File
<1>3. /\ decisions' \in Seq(Row)
      /\ DOMAIN decisions' = 1..(Len(decisions) + 1)
      /\ \A i \in 1..Len(decisions) : decisions'[i] = decisions[i]
      /\ decisions'[Len(decisions) + 1] = d
  BY <1>1, <1>2, AppendProperties, LenProperties
<1>4. \A i \in DOMAIN decisions' :
        \/ i \in DOMAIN decisions /\ decisions'[i] = decisions[i]
        \/ decisions'[i].status = "open"
  BY <1>1, <1>2, <1>3
<1>5. DOMAIN decisions \subseteq DOMAIN decisions'
  BY <1>2, <1>3
<1>6. \A i \in DOMAIN decisions : decisions'[i] = decisions[i]
  BY <1>2, <1>3
<1> QED
  BY <1>3, <1>4, <1>5, <1>6 DEF DecisionsAgree, Filed, ApprovedReviews, Reviews

\* What happens to one decision in a step that rewrites rows.
Rewrites(i) ==
  /\ decisions'[i] \in Row
  /\ decisions'[i].kind = decisions[i].kind
  /\ \/ /\ decisions'[i].status = decisions[i].status
        /\ decisions'[i].label = decisions[i].label
     \/ /\ decisions[i].status = "open"
        /\ decisions'[i].status \in {"answered", "withdrawn"}
        /\ decisions'[i].label # "approve"
     \/ /\ decisions[i].status = "answered"
        /\ decisions'[i].status = "applied"
        /\ decisions'[i].label = decisions[i].label

\* Such a step approves nothing.
LEMMA RewriteStep ==
  ASSUME DecisionsAgree, DOMAIN decisions' = DOMAIN decisions,
         decisions' = [i \in DOMAIN decisions |-> decisions'[i]],
         \A i \in DOMAIN decisions : Rewrites(i)
  PROVE  DecisionsAgree' /\ ApprovedReviews' = ApprovedReviews
<1>1. decisions' \in [DOMAIN decisions -> Row]
  BY DEF Rewrites
<1>2. decisions' \in Seq(Row)
  BY <1>1, Rewritten DEF DecisionsAgree
<1> QED
  BY <1>2 DEF DecisionsAgree, Rewrites, Filed, ApprovedReviews, Reviews

\* An update of open decisions other than an approval rewrites them.
LEMMA SettleStep ==
  ASSUME DecisionsAgree, NEW I, I \subseteq OpenDecisions,
         NEW status \in {"answered", "withdrawn"},
         NEW label \in {"none", "reject", "chosen"}, Settle(I, status, label)
  PROVE  DecisionsAgree' /\ ApprovedReviews' = ApprovedReviews
<1>1. \A i \in DOMAIN decisions : decisions[i] \in Row
  BY ElementOfSeq, LenProperties DEF DecisionsAgree
<1>2. \A i \in DOMAIN decisions : Rewrites(i)
  BY <1>1 DEF Settle, Rewrites, OpenDecisions, Filed, Row
<1> QED BY <1>2, RewriteStep DEF Settle

\* A poll applies answers, none of which is an approval.
LEMMA MarkAppliedStep ==
  ASSUME DecisionsAgree, NEW I, I \subseteq Filed("answered"), MarkApplied(I)
  PROVE  DecisionsAgree' /\ ApprovedReviews' = ApprovedReviews
<1>1. \A i \in DOMAIN decisions : decisions[i] \in Row
  BY ElementOfSeq, LenProperties DEF DecisionsAgree
<1>2. \A i \in DOMAIN decisions : Rewrites(i)
  BY <1>1 DEF MarkApplied, Rewrites, Filed, Row
<1> QED BY <1>2, RewriteStep DEF MarkApplied

\* Receipts and submissions of the handoff rewrite who waits and since when.
LEMMA HandoffStepOfDecisions ==
  ASSUME DecisionsAgree, HandoffInv, NEW s \in Session, Receive(s) \/ Submit(s)
  PROVE  DecisionsAgree' /\ ApprovedReviews' = ApprovedReviews
<1>1. \A i \in DOMAIN decisions : decisions[i] \in Row
  BY ElementOfSeq, LenProperties DEF DecisionsAgree
<1>2. CASE UNCHANGED decisions
  BY <1>2 DEF DecisionsAgree, Filed, ApprovedReviews, Reviews
<1>3. CASE Receive(s) /\ ~UNCHANGED decisions
  <2>1. decisions' = [i \in DOMAIN decisions |->
               IF /\ i \in Filed("open") \cup Filed("answered")
                  /\ decisions[i].by \in FormerReceivers(s)
               THEN [decisions[i] EXCEPT !.by = s] ELSE decisions[i]]
    BY <1>3 DEF Receive
  <2>2. \A i \in DOMAIN decisions : Rewrites(i)
    BY <1>1, <2>1 DEF Rewrites, Row
  <2> QED BY <2>1, <2>2, RewriteStep
<1>4. CASE Submit(s)
  <2>1. call[s].h \in Maybe(Handoff)
    BY DEF HandoffInv, TypeOK, Call
  <2>2. \A i \in DOMAIN decisions : Rewrites(i)
    BY <1>1, <1>4, <2>1 DEF Submit, Rewrites, Row
  <2> QED BY <1>4, <2>2, RewriteStep DEF Submit
<1> QED BY <1>2, <1>3, <1>4

\* The human approves an open review of an active goal.
Approval == \E i \in DOMAIN decisions : ApproveGoalReview(i)

\* An approval is kept with those before it.
LEMMA ApprovalStep ==
  ASSUME DecisionsAgree, Approval
  PROVE  /\ DecisionsAgree'
         /\ ApprovedReviews' # {}
         /\ goal = "active" /\ OpenDecisions # {}
         /\ UNCHANGED <<handoffVars, goal>>
<1>1. PICK i \in DOMAIN decisions : ApproveGoalReview(i)
  BY DEF Approval
<1>2. \A j \in DOMAIN decisions : decisions[j] \in Row
  BY ElementOfSeq, LenProperties DEF DecisionsAgree
<1>3. /\ i \in OpenDecisions \cap Reviews
      /\ decisions' = [j \in DOMAIN decisions |->
           IF j \in {i}
           THEN [decisions[j] EXCEPT !.status = "applied", !.label = "approve"]
           ELSE decisions[j]]
  BY <1>1 DEF ApproveGoalReview, Settle
<1>4. decisions' \in [DOMAIN decisions -> Row]
  <2>1. \A j \in DOMAIN decisions :
          [decisions[j] EXCEPT !.status = "applied", !.label = "approve"] \in Row
    BY <1>2 DEF Row
  <2> QED BY <1>2, <1>3, <2>1
<1>5. decisions' \in Seq(Row)
  BY <1>4, Rewritten DEF DecisionsAgree
<1>6. \A j \in Filed("answered")' : decisions'[j].label # "approve"
  BY <1>2, <1>3 DEF Filed, DecisionsAgree, Row
<1>7. i \in ApprovedReviews'
  BY <1>2, <1>3 DEF ApprovedReviews, Reviews, Filed, Row
<1> QED
  BY <1>1, <1>3, <1>5, <1>6, <1>7 DEF DecisionsAgree, ApproveGoalReview

\* Every other step leaves the approved reviews as they are.
LEMMA OtherStep ==
  ASSUME HandoffInv, DecisionsAgree, [ReviewNext]_reviewVars, ~Approval
  PROVE  DecisionsAgree' /\ ApprovedReviews' = ApprovedReviews
<1>1. CASE UNCHANGED decisions
  BY <1>1 DEF DecisionsAgree, Filed, ApprovedReviews, Reviews
<1>2. \A i \in DOMAIN decisions : decisions[i] \in Row
  BY ElementOfSeq, LenProperties DEF DecisionsAgree
<1>3. CASE HumanStep
  <2>1. CASE WithdrawActiveGoal
    BY <2>1, SettleStep DEF WithdrawActiveGoal
  <2>2. CASE ApplyExpiredDefaults
    <3>1. PICK due : due \subseteq OpenDecisions /\ Settle(due, "answered", "chosen")
      BY <2>2 DEF ApplyExpiredDefaults
    <3> QED BY <3>1, SettleStep
  <2>3. ASSUME NEW i \in DOMAIN decisions,
               RejectGoalReview(i) \/ AnswerDecision(i) \/ WithdrawDecision(i)
        PROVE  DecisionsAgree' /\ ApprovedReviews' = ApprovedReviews
    <3>1. {i} \subseteq OpenDecisions
      BY <2>3 DEF RejectGoalReview, AnswerDecision, WithdrawDecision
    <3> QED
      BY <2>3, <3>1, SettleStep
      DEF RejectGoalReview, AnswerDecision, WithdrawDecision
  <2>4. ASSUME NEW i \in DOMAIN decisions, ReviseDecision(i)
        PROVE  DecisionsAgree' /\ ApprovedReviews' = ApprovedReviews
    BY <1>2, <2>4, FileStep DEF ReviseDecision, Row
  <2> QED BY <1>3, <2>1, <2>2, <2>3, <2>4 DEF HumanStep, Approval
<1>4. ASSUME NEW s \in Session, RequestGoalReviewCommit(s) \/ AskDecision(s)
      PROVE  DecisionsAgree' /\ ApprovedReviews' = ApprovedReviews
  BY <1>4, FileStep DEF RequestGoalReviewCommit, AskDecision
<1>5. ASSUME NEW s \in Session,
             PollDecisions(s) \/ \E i \in DOMAIN decisions : PollDecision(s, i)
      PROVE  DecisionsAgree' /\ ApprovedReviews' = ApprovedReviews
  <2>1. PICK I : I \subseteq Filed("answered") /\ MarkApplied(I)
    BY <1>5 DEF PollDecisions, PollDecision
  <2> QED BY <2>1, MarkAppliedStep
<1>6. ASSUME NEW s \in Session, Receive(s) \/ Submit(s)
      PROVE  DecisionsAgree' /\ ApprovedReviews' = ApprovedReviews
  BY <1>6, HandoffStepOfDecisions
<1> QED
  BY <1>1, <1>3, <1>4, <1>5, <1>6
  DEF ReviewNext, reviewVars, Request, RequestGoalReviewRead, FinalizeRead,
      FinalizeCommit
-----------------------------------------------------------------------------
(* What it takes to finish a goal                                          *)

ReviewInv ==
  /\ HandoffInv
  /\ ReviewColumnsAgree
  /\ FinalizeNamesReviewer
  /\ DecisionsAgree
  /\ goal \in GoalStatus
  /\ DoneWasReviewed

\* Only a finalization and a withdrawal move the goal.
LEMMA GoalStep ==
  ASSUME [ReviewNext]_reviewVars, goal' # goal
  PROVE  WithdrawActiveGoal \/ \E s \in Session : FinalizeCommit(s)
BY DEF ReviewNext, reviewVars, HumanStep, ApplyExpiredDefaults,
   ApproveGoalReview, RejectGoalReview, AnswerDecision, ReviseDecision,
   WithdrawDecision, Request, Receive, Submit, RequestGoalReviewRead,
   RequestGoalReviewCommit, FinalizeRead, AskDecision, PollDecisions,
   PollDecision, MarkApplied

\* A finalization finds nothing to decide and closes the one open handoff,
\* whose submission stands received.
LEMMA FinalizeEffect ==
  ASSUME ReviewInv, NEW s \in Session, FinalizeCommit(s)
  PROVE  /\ goal = "active" /\ goal' = "done"
         /\ OpenDecisions = {} /\ ApprovedReviews # {}
         /\ UNCHANGED decisions
         /\ \E h \in Handoff : /\ OpenHandoffs = {h}
                               /\ gh'[h] = [gh[h] EXCEPT !.report = "completed"]
                               /\ gh[h].reviewReceivedBy # None
                               /\ gh[h].reviewRequestedBy # None
                               /\ ~gh[h].reviewRejected
<1> DEFINE h == call[s].h
<1>1. h \in Handoff /\ call[s].old \in Session
  BY DEF ReviewInv, FinalizeNamesReviewer, FinalizeCommit
<1>2. /\ Open(h)
      /\ gh[h].reviewReceivedBy = call[s].old
      /\ gh' = [gh EXCEPT ![h].report = "completed"]
  BY DEF FinalizeCommit, CompleteByReviewerTx
<1>3. ColumnsAgree(gh[h]) /\ gh[h].reviewReceivedBy # None
  BY <1>1, <1>2, SessionAssumption DEF ReviewInv, ReviewColumnsAgree
<1>4. OpenHandoffs = {h}
  BY <1>1, <1>2 DEF ReviewInv, HandoffInv, AtMostOneOpen, OpenHandoffs
<1>5. gh'[h] = [gh[h] EXCEPT !.report = "completed"]
  BY <1>1, <1>2 DEF ReviewInv, HandoffInv, TypeOK, RowsOK
<1> QED
  BY <1>1, <1>3, <1>4, <1>5 DEF FinalizeCommit, ColumnsAgree

ReviewedRow(h) ==
  /\ gh[h].report = "completed"
  /\ gh[h].reviewReceivedBy # None
  /\ gh[h].reviewRequestedBy # None

\* A handoff that was completed keeps the receipt of its submission.
LEMMA ReviewedRowStays ==
  ASSUME HandoffInv, [ReviewNext]_reviewVars,
         NEW x \in Handoff, ReviewedRow(x)
  PROVE  ReviewedRow(x)'
<1>1. gh \in [Handoff -> HandoffRow] /\ ~Live(x) /\ ~Open(x)
  BY DEF HandoffInv, TypeOK, RowsOK, ReviewedRow, Live, Completed, Open
<1>2. CASE UNCHANGED gh
  BY <1>2 DEF ReviewedRow
<1>3. ASSUME NEW s \in Session, HandoffCommit(s) PROVE ReviewedRow(x)'
  <2>1. CASE RequestCommit(s) \/ ClaimGoalRequest(s)
    <3>1. PICK h : RequestTx(s, h)
      BY <2>1 DEF RequestCommit, ClaimGoalRequest
    <3> QED BY <1>1, <3>1 DEF RequestTx, Others, OpenHandoffs, ReviewedRow,
               HandoffRow
  <2>2. CASE ReceiveCommit(s) \/ RequestReviewCommit(s) \/ ClaimGoalReceive(s)
    <3>1. CASE ReceiveCommit(s) \/ ClaimGoalReceive(s)
      BY <1>1, <3>1 DEF ReceiveCommit, ReceiveTx, ClaimGoalReceive,
         ReviewedRow, HandoffRow
    <3>2. CASE RequestReviewCommit(s)
      BY <1>1, <3>2 DEF RequestReviewCommit, RequestReviewTx, ReviewedRow
    <3> QED BY <2>2, <3>1, <3>2
  <2>3. CASE \/ ReceiveReviewCommit(s) \/ RejectReviewCommit(s)
             \/ ReceiveRejectionCommit(s)
    <3>1. CASE ReceiveReviewCommit(s)
      BY <1>1, <3>1 DEF ReceiveReviewCommit, ReceiveReviewTx, ReviewedRow
    <3>2. CASE RejectReviewCommit(s)
      BY <1>1, <3>2 DEF RejectReviewCommit, RejectReviewTx, ReviewedRow
    <3>3. CASE ReceiveRejectionCommit(s)
      BY <1>1, <3>3 DEF ReceiveRejectionCommit, ReceiveRejectionTx,
         ReviewedRow, HandoffRow
    <3> QED BY <2>3, <3>1, <3>2, <3>3
  <2>4. CASE RecoverCommit(s)
    BY <1>1, <2>4 DEF RecoverCommit, RecoverTx, ReviewedRow, HandoffRow
  <2>5. CASE CompleteCommit(s) \/ ReleaseGoalCommit(s)
    BY <1>1, <2>5 DEF CompleteCommit, CompleteByReviewerTx, ReleaseGoalCommit,
       ReviewedRow, HandoffRow
  <2> QED
    BY <1>3, <2>1, <2>2, <2>3, <2>4, <2>5 DEF HandoffCommit, PlainCommit
<1>4. ASSUME NEW s \in Session, HandoffRead(s) PROVE UNCHANGED gh
  BY <1>4, ReadStep DEF HandoffInv
<1>5. ASSUME NEW s \in Session, ReviewCall(s) PROVE ReviewedRow(x)'
  <2>1. CASE FinalizeCommit(s)
    BY <1>1, <2>1 DEF FinalizeCommit, CompleteByReviewerTx, ReviewedRow,
       HandoffRow
  <2> QED
    BY <1>2, <1>5, <2>1 DEF ReviewCall, RequestGoalReviewRead,
       RequestGoalReviewCommit, FinalizeRead
<1> QED
  BY <1>2, <1>3, <1>4, <1>5, HandoffPart DEF HandoffNext, handoffVars

\* The invariant holds of the empty tables.
LEMMA ReviewInvInit == ReviewInit => ReviewInv
<1> SUFFICES ASSUME ReviewInit PROVE ReviewInv
  OBVIOUS
<1>1. HandoffInv
  BY HandoffInvInit DEF ReviewInit
<1>2. ReviewColumnsAgree
  BY DEF ReviewInit, HandoffInit, ReviewColumnsAgree, ColumnsAgree, NoRow
<1>3. FinalizeNamesReviewer
  BY DEF ReviewInit, HandoffInit, SessionInit, FinalizeNamesReviewer, Doing,
     Idle
<1>4. DecisionsAgree
  BY EmptySeq DEF ReviewInit, DecisionsAgree, Filed
<1> QED
  BY <1>1, <1>2, <1>3, <1>4 DEF ReviewInit, ReviewInv, GoalStatus,
     DoneWasReviewed

\* Every step keeps it.
LEMMA ReviewInvStep == ReviewInv /\ [ReviewNext]_reviewVars => ReviewInv'
<1> SUFFICES ASSUME ReviewInv, [ReviewNext]_reviewVars PROVE ReviewInv'
  OBVIOUS
<1>1. HandoffInv' /\ ReviewColumnsAgree' /\ FinalizeNamesReviewer'
  BY HandoffInvKept, FinalizeNamesReviewerStep DEF ReviewInv
<1>2. /\ DecisionsAgree'
      /\ ApprovedReviews # {} => ApprovedReviews' # {}
  BY ApprovalStep, OtherStep DEF ReviewInv
<1>3. goal' \in GoalStatus
  BY GoalStep DEF ReviewInv, GoalStatus, WithdrawActiveGoal, FinalizeCommit
<1>4. DoneWasReviewed'
  <2>1. CASE goal = "done"
    <3>1. PICK h \in Handoff : ReviewedRow(h)
      BY <2>1 DEF ReviewInv, DoneWasReviewed, ReviewedRow
    <3>2. ReviewedRow(h)'
      BY <3>1, ReviewedRowStays DEF ReviewInv
    <3> QED
      BY <1>2, <2>1, <3>2 DEF ReviewInv, DoneWasReviewed, ReviewedRow
  <2>2. CASE goal # "done" /\ goal' = "done"
    <3>1. PICK s \in Session : FinalizeCommit(s)
      BY <2>2, GoalStep DEF WithdrawActiveGoal
    <3>2. PICK h \in Handoff : /\ gh'[h] = [gh[h] EXCEPT !.report = "completed"]
                              /\ gh[h].reviewReceivedBy # None
                              /\ gh[h].reviewRequestedBy # None
      BY <3>1, FinalizeEffect
    <3>3. gh[h] \in HandoffRow
      BY DEF ReviewInv, HandoffInv, TypeOK, RowsOK
    <3>4. /\ gh'[h].report = "completed"
          /\ gh'[h].reviewReceivedBy # None
          /\ gh'[h].reviewRequestedBy # None
      BY <3>2, <3>3 DEF HandoffRow
    <3>5. ApprovedReviews' # {}
      BY <1>2, <3>1, FinalizeEffect
    <3> QED BY <3>4, <3>5 DEF DoneWasReviewed
  <2>3. CASE goal' # "done"
    BY <2>3 DEF DoneWasReviewed
  <2> QED BY <2>1, <2>2, <2>3
<1> QED BY <1>1, <1>2, <1>3, <1>4 DEF ReviewInv

\* The invariant holds of every reachable state.
LEMMA ReviewInvariant == ReviewSpec => []ReviewInv
BY ReviewInvInit, ReviewInvStep, PTL DEF ReviewSpec

\* A done goal was approved by the human and keeps the completed handoff whose
\* submission the commander received, whatever is revised, withdrawn, polled
\* or received later (FinalizeGoalReview).
THEOREM DoneIsReviewed == ReviewSpec => []DoneWasReviewed
<1>1. ReviewInv => DoneWasReviewed
  BY DEF ReviewInv
<1> QED BY <1>1, ReviewInvariant, PTL
-----------------------------------------------------------------------------
(* Action properties                                                       *)

\* The step that finishes the goal closes its one open handoff, reviewed.
LEMMA FinalizeStep ==
  ReviewInv /\ [ReviewNext]_reviewVars =>
    [goal = "active" /\ goal' = "done" =>
       /\ OpenDecisions = {}
       /\ \E h \in Handoff : /\ OpenHandoffs = {h}
                             /\ gh'[h].report = "completed"
                             /\ gh[h].reviewReceivedBy # None
                             /\ ~gh[h].reviewRejected]_reviewVars
<1> SUFFICES ASSUME ReviewInv, [ReviewNext]_reviewVars,
                    goal = "active", goal' = "done"
             PROVE  /\ OpenDecisions = {}
                    /\ \E h \in Handoff : /\ OpenHandoffs = {h}
                                          /\ gh'[h].report = "completed"
                                          /\ gh[h].reviewReceivedBy # None
                                          /\ ~gh[h].reviewRejected
  OBVIOUS
<1>1. PICK s \in Session : FinalizeCommit(s)
  BY GoalStep DEF WithdrawActiveGoal
<1>2. PICK h \in Handoff : /\ OpenHandoffs = {h}
                          /\ gh'[h] = [gh[h] EXCEPT !.report = "completed"]
                          /\ gh[h].reviewReceivedBy # None
                          /\ ~gh[h].reviewRejected
  BY <1>1, FinalizeEffect
<1>3. gh[h] \in HandoffRow
  BY DEF ReviewInv, HandoffInv, TypeOK, RowsOK
<1>4. gh'[h].report = "completed"
  BY <1>2, <1>3 DEF HandoffRow
<1> QED BY <1>1, <1>2, <1>4, FinalizeEffect

\* goal.review.complete finishes a goal only together with its one open handoff,
\* whose submission stands received and unrejected in that very transaction,
\* although the caller chose the handoff in an earlier read.
THEOREM FinalizeIsOfReviewed == ReviewSpec => FinalizeClosesReviewedHandoff
BY ReviewInvariant, FinalizeStep, PTL
DEF ReviewSpec, FinalizeClosesReviewedHandoff

\* Only a receive gives a handoff another receiver.
LEMMA ReceiverStep ==
  ASSUME ReviewInv, [ReviewNext]_reviewVars, NEW h \in Handoff,
         gh'[h].receivedBy # gh[h].receivedBy
  PROVE  \E s \in Session : Receive(s) /\ call[s].h = h /\ gh'[h].receivedBy = s
<1>1. gh \in [Handoff -> HandoffRow]
  BY DEF ReviewInv, HandoffInv, TypeOK, RowsOK
<1>2. ~UNCHANGED gh
  OBVIOUS
<1>3. ASSUME NEW s \in Session, Request(s) PROVE FALSE
  <2>1. PICK x : RequestTx(s, x)
    BY <1>3 DEF Request, RequestCommit, ClaimGoalRequest
  <2> QED BY <1>1, <2>1 DEF RequestTx, HandoffRow
<1>4. ASSUME NEW s \in Session, Submit(s) PROVE FALSE
  BY <1>1, <1>4 DEF Submit, RequestReviewCommit, RequestReviewTx, HandoffRow
<1>5. ASSUME NEW s \in Session, PlainCommit(s) PROVE FALSE
  BY <1>1, <1>5, PlainKeepsParties
<1>6. ASSUME NEW s \in Session, HandoffRead(s) PROVE FALSE
  BY <1>2, <1>6, ReadStep DEF ReviewInv, HandoffInv
<1>7. ASSUME NEW s \in Session, ReviewCall(s) PROVE FALSE
  BY <1>1, <1>2, <1>7 DEF ReviewCall, RequestGoalReviewRead,
     RequestGoalReviewCommit, FinalizeRead, FinalizeCommit,
     CompleteByReviewerTx, HandoffRow
<1>8. ASSUME NEW s \in Session, Receive(s)
      PROVE  call[s].h = h /\ gh'[h].receivedBy = s
  BY <1>1, <1>8 DEF Receive, ReceiveCommit, ReceiveTx, HandoffRow
<1>9. PICK s \in Session : HandoffCommit(s)
  BY <1>2, <1>6, <1>7, HandoffPart DEF HandoffNext, handoffVars
<1>10. CASE HumanStep
  BY <1>2, <1>10 DEF HumanStep, ApplyExpiredDefaults, WithdrawActiveGoal,
     ApproveGoalReview, RejectGoalReview, AnswerDecision, ReviseDecision,
     WithdrawDecision, handoffVars
<1>11. ASSUME NEW t \in Session,
              \/ AskDecision(t)
              \/ PollDecisions(t)
              \/ \E i \in DOMAIN decisions : PollDecision(t, i)
       PROVE  FALSE
  BY <1>2, <1>11 DEF AskDecision, PollDecisions, PollDecision, MarkApplied,
     handoffVars
<1> QED
  BY <1>2, <1>3, <1>4, <1>5, <1>6, <1>7, <1>8, <1>10, <1>11
  DEF ReviewNext, reviewVars, ReviewCall

\* A receive takes over what its predecessors still wait for.
LEMMA TakeoverStep ==
  ReviewInv /\ [ReviewNext]_reviewVars =>
    [\A h \in Handoff :
       LET old == gh[h].receivedBy IN
       old # None /\ gh'[h].receivedBy # old =>
         \A i \in DOMAIN decisions' :
           decisions'[i].status \in {"open", "answered"}
             => decisions'[i].by # old]_reviewVars
<1> SUFFICES ASSUME ReviewInv, [ReviewNext]_reviewVars, NEW h \in Handoff,
                    gh[h].receivedBy # None,
                    gh'[h].receivedBy # gh[h].receivedBy,
                    NEW i \in DOMAIN decisions',
                    decisions'[i].status \in {"open", "answered"}
             PROVE  decisions'[i].by # gh[h].receivedBy
  OBVIOUS
<1>1. PICK s \in Session : /\ Receive(s)
                          /\ call[s].h = h
                          /\ gh'[h].receivedBy = s
  BY ReceiverStep
<1>2. gh[h].receivedBy \in FormerReceivers(s)
  BY <1>1 DEF FormerReceivers
<1>3. decisions' = [j \in DOMAIN decisions |->
               IF /\ j \in Filed("open") \cup Filed("answered")
                  /\ decisions[j].by \in FormerReceivers(s)
               THEN [decisions[j] EXCEPT !.by = s] ELSE decisions[j]]
  BY <1>1 DEF Receive
<1>4. i \in DOMAIN decisions /\ decisions[i] \in Row
  BY <1>3, ElementOfSeq, LenProperties DEF ReviewInv, DecisionsAgree
<1>5. i \in Filed("open") \cup Filed("answered")
  BY <1>3, <1>4 DEF Filed, Row
<1>6. CASE decisions[i].by \in FormerReceivers(s)
  BY <1>1, <1>3, <1>4, <1>5, <1>6 DEF Row
<1>7. CASE decisions[i].by \notin FormerReceivers(s)
  BY <1>2, <1>3, <1>4, <1>7
<1> QED BY <1>6, <1>7

\* Every open or unapplied decision of a lapsed receiver goes to its successor
\* in the transaction of the receive (ReassignGoalDecisionsToReceiver), however
\* many receivers the goal had.
THEOREM TakeoverTakesDecisions == ReviewSpec => DecisionsFollowTakeover
BY ReviewInvariant, TakeoverStep, PTL DEF ReviewSpec, DecisionsFollowTakeover
-----------------------------------------------------------------------------
(* GoalReview implements GoalLifecycle                                     *)

\* The goal begins active, with nothing asked.
LEMMA LifecycleInitMaps == ReviewInit => Lifecycle!LifecycleInit
BY DEF ReviewInit, Lifecycle!LifecycleInit, OpenDecisions, ApprovedReviews,
   Reviews, Filed

\* Every step is a step of the lifecycle, or none.
LEMMA LifecycleStepMaps ==
  ReviewInv /\ [ReviewNext]_reviewVars
    => [Lifecycle!LifecycleNext]_(Lifecycle!lifecycleVars)
<1> SUFFICES ASSUME ReviewInv, [ReviewNext]_reviewVars
             PROVE  [Lifecycle!LifecycleNext]_(Lifecycle!lifecycleVars)
  OBVIOUS
<1>1. CASE Approval
  <2>1. /\ goal = "active" /\ goal' = goal
        /\ OpenDecisions # {} /\ ApprovedReviews' # {}
    BY <1>1, ApprovalStep DEF ReviewInv
  <2>2. Lifecycle!Approve
    BY <2>1 DEF Lifecycle!Approve
  <2> QED BY <2>2 DEF Lifecycle!LifecycleNext
<1>2. CASE ~Approval /\ goal' = goal
  <2>1. ApprovedReviews' = ApprovedReviews
    BY <1>2, OtherStep DEF ReviewInv
  <2>2. CASE OpenDecisions' # {}
    BY <1>2, <2>1, <2>2 DEF Lifecycle!Ask, Lifecycle!LifecycleNext
  <2>3. CASE OpenDecisions' = {} /\ OpenDecisions # {}
    BY <1>2, <2>1, <2>3 DEF Lifecycle!Answer, Lifecycle!LifecycleNext
  <2>4. CASE OpenDecisions' = {} /\ OpenDecisions = {}
    BY <1>2, <2>1, <2>4 DEF Lifecycle!lifecycleVars
  <2> QED BY <2>2, <2>3, <2>4
<1>3. ASSUME NEW s \in Session, FinalizeCommit(s)
      PROVE  Lifecycle!LifecycleNext
  <2>1. /\ goal = "active" /\ goal' = "done"
        /\ OpenDecisions = {} /\ ApprovedReviews # {}
        /\ UNCHANGED decisions
    BY <1>3, FinalizeEffect
  <2>2. OpenDecisions' = OpenDecisions /\ ApprovedReviews' = ApprovedReviews
    BY <2>1 DEF OpenDecisions, ApprovedReviews, Reviews, Filed
  <2>3. Lifecycle!Finish
    BY <2>1, <2>2 DEF Lifecycle!Finish
  <2> QED BY <2>3 DEF Lifecycle!LifecycleNext
<1>4. CASE ~Approval /\ WithdrawActiveGoal
  <2>1. ApprovedReviews' = ApprovedReviews
    BY <1>4, OtherStep DEF ReviewInv
  <2>2. OpenDecisions' = {}
    <3>1. \A i \in DOMAIN decisions : decisions[i] \in Row
      BY ElementOfSeq, LenProperties DEF ReviewInv, DecisionsAgree
    <3> QED
      BY <1>4, <3>1 DEF WithdrawActiveGoal, Settle, OpenDecisions, Filed, Row
  <2>3. Lifecycle!Drop
    BY <1>4, <2>1, <2>2 DEF WithdrawActiveGoal, Lifecycle!Drop
  <2> QED BY <2>3 DEF Lifecycle!LifecycleNext
<1> QED BY <1>1, <1>2, <1>3, <1>4, GoalStep

\* With sessions, human and maintenance tick interleaved in any way, decisions
\* revised or withdrawn at any time and handoffs changing hands, the goal goes
\* through its lifecycle: finished only when approved with nothing left to
\* decide, dropped at any time before, and never moved after.
THEOREM ReviewImplementsLifecycle == ReviewSpec => ImplementsLifecycle
BY ReviewInvariant, LifecycleInitMaps, LifecycleStepMaps, PTL
DEF ReviewSpec, ImplementsLifecycle, Lifecycle!LifecycleSpec
-----------------------------------------------------------------------------
(* GoalReview implements HandoffPhases                                     *)

\* To the rows, the calls of the human review close an open one or nothing.
LEMMA ReviewCallPhase ==
  ASSUME ReviewInv, NEW s \in Session, ReviewCall(s), NEW x \in Handoff
  PROVE  \/ gh'[x] = gh[x]
         \/ Open(x) /\ gh'[x] = [gh[x] EXCEPT !.report = "completed"]
<1>1. CASE FinalizeCommit(s)
  <2>1. PICK h \in Handoff : Open(h) /\ gh' = [gh EXCEPT ![h].report = "completed"]
    BY <1>1 DEF ReviewInv, FinalizeNamesReviewer, FinalizeCommit,
       CompleteByReviewerTx
  <2> QED BY <2>1 DEF ReviewInv, HandoffInv, TypeOK, RowsOK
<1>2. CASE ~FinalizeCommit(s)
  BY <1>2 DEF ReviewCall, RequestGoalReviewRead, RequestGoalReviewCommit,
     FinalizeRead
<1> QED BY <1>1, <1>2

\* They keep the exchange in order and open nothing.
LEMMA ReviewCallPhases ==
  ASSUME ReviewInv, OnlyRequestedEnd, NEW s \in Session, ReviewCall(s)
  PROVE  OnlyRequestedEnd' /\ Exchange!PhasesNext
<1>1. ASSUME NEW x \in Handoff, gh'[x] # gh[x]
      PROVE  /\ PhaseOf(gh[x]) \in Exchange!OpenPhases
             /\ PhaseOf(gh'[x]) = "closed"
             /\ Requested(x)'
  <2>1. Open(x) /\ gh'[x] = [gh[x] EXCEPT !.report = "completed"]
    BY <1>1, ReviewCallPhase
  <2>2. gh[x] \in HandoffRow
    BY DEF ReviewInv, HandoffInv, TypeOK, RowsOK
  <2> QED
    BY <2>1, <2>2 DEF Open, Requested, Live, Completed, PhaseOf, HandoffRow,
       Exchange!OpenPhases
<1>2. OnlyRequestedEnd'
  BY <1>1 DEF OnlyRequestedEnd, Requested, Live, Completed
<1>3. ASSUME NEW x \in Handoff
      PROVE  /\ Exchange!Ends(x) \/ Exchange!Stays(x)
             /\ PhaseOf(gh'[x]) = "requested" => PhaseOf(gh[x]) = "requested"
  BY <1>1 DEF Exchange!Ends, Exchange!Stays
<1> QED
  BY <1>2, <1>3 DEF Exchange!PhasesNext, Exchange!RequestedAlone

\* Every step of GoalReview keeps the exchange in order.
LEMMA ReviewPhaseStep ==
  ReviewInv /\ OnlyRequestedEnd /\ [ReviewNext]_reviewVars
    => /\ OnlyRequestedEnd'
       /\ [Exchange!PhasesNext]_[h \in Handoff |-> PhaseOf(gh[h])]
<1> SUFFICES ASSUME ReviewInv, OnlyRequestedEnd, [ReviewNext]_reviewVars
             PROVE  /\ OnlyRequestedEnd'
                    /\ [Exchange!PhasesNext]_[h \in Handoff |-> PhaseOf(gh[h])]
  OBVIOUS
<1>1. PhaseInv
  BY DEF ReviewInv, PhaseInv
<1>2. CASE [HandoffNext]_handoffVars
  BY <1>1, <1>2, PhaseInvStep, PhaseStepMaps DEF PhaseInv
<1> QED BY <1>2, HandoffPart, ReviewCallPhases

\* The human review and the end of a goal respect the exchange as well: what
\* finishes a goal only closes the handoff that is open.
THEOREM ReviewImplementsPhases == ReviewSpec => ImplementsPhases
<1>1. ReviewInit => OnlyRequestedEnd /\ Exchange!PhasesInit
  BY PhaseInvInit DEF ReviewInit, PhaseInv
<1> QED
  BY <1>1, ReviewInvariant, ReviewPhaseStep, PTL
  DEF ReviewSpec, ImplementsPhases, Exchange!PhasesSpec
=============================================================================
