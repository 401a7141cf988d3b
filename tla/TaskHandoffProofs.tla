--------------------------- MODULE TaskHandoffProofs ---------------------------
(***************************************************************************)
(* Proofs about TaskHandoff for every set of sessions and handoffs.        *)
(***************************************************************************)
EXTENDS TaskHandoff, TLAPS

\* A handler that passed its checks records a well-typed call.
LEMMA TaskBeginType ==
  ASSUME NEW s \in Session, NEW op \in Ops, NEW h \in Maybe(Handoff),
         NEW old \in Maybe(Session), TaskTypeOK, Begin(s, op, h, old)
  PROVE  call' \in [Session -> Call]
BY DEF TaskTypeOK, Begin, Call

\* A call that returns leaves its session idle, and the calls well typed.
LEMMA TaskReturnType ==
  ASSUME NEW s \in Session, TaskTypeOK, Return(s)
  PROVE  call' \in [Session -> Call]
BY DEF TaskTypeOK, Return, Idle, Call, Ops, Maybe

\* Leases, claims, discards and aborted calls keep every type.
LEMMA TaskSessionStepType ==
  ASSUME NEW s \in Session, TaskTypeOK, SessionStep(s),
         UNCHANGED <<th, task, goalVars>>
  PROVE  TaskTypeOK'
<1> USE DEF TaskTypeOK, Maybe, goalVars
<1>1. CASE RenewLease(s)
  BY <1>1 DEF RenewLease
<1>2. CASE LapseLease(s)
  BY <1>2 DEF LapseLease
<1>3. CASE ClaimProjectRead(s)
  <2>1. Begin(s, "claimProject", None, claim)
    BY <1>3 DEF ClaimProjectRead
  <2>2. call' \in [Session -> Call]
    BY <2>1, TaskBeginType DEF Ops
  <2> QED BY <1>3, <2>2 DEF ClaimProjectRead
<1>4. CASE ClaimProjectCommit(s)
  BY <1>4, TaskReturnType DEF ClaimProjectCommit
<1>5. CASE ForceClaimProject(s)
  BY <1>5 DEF ForceClaimProject
<1>6. CASE ReleaseProject(s)
  BY <1>6 DEF ReleaseProject
<1>7. CASE \E t \in Session : DiscardSession(s, t)
  BY <1>7 DEF DiscardSession
<1>8. CASE Abort(s)
  BY <1>8, TaskReturnType DEF Abort
<1> QED
  BY <1>1, <1>2, <1>3, <1>4, <1>5, <1>6, <1>7, <1>8 DEF SessionStep

\* A read changes nothing but the caller's call.
LEMMA TaskReadStep ==
  ASSUME NEW s \in Session, TaskRead(s)
  PROVE  UNCHANGED <<held, discarded, claim, th, task, goalVars>>
BY DEF TaskRead, ReceiveForTaskRead, UpdateRead, RequestRead, ReceiveRead,
       RequestReviewRead, ReceiveReviewRead, DecideRead, ReceiveRejectionRead,
       ReportRead, RecoverRead, Check

\* What a read records: a recovery the session it replaces, a receive an
\* existing handoff.
Fits(op, h, old) ==
  /\ op \in {"recoverReview", "recoverReceiver", "recoverRequester"}
       => old \in Session
  /\ op = "receive" => h \in Handoff /\ Requested(h)

\* Every read begins a well-typed call that fits the rows it read.
LEMMA TaskReadBegins ==
  ASSUME NEW s \in Session, TaskTypeOK, TaskRead(s)
  PROVE  \E op \in Ops, h \in Maybe(Handoff), old \in Maybe(Session) :
           Begin(s, op, h, old) /\ Fits(op, h, old)
<1>1. None \in Maybe(Handoff) /\ None \in Maybe(Session)
  BY DEF Maybe
<1>2. Handoff \subseteq Maybe(Handoff) /\ Session \subseteq Maybe(Session)
  BY DEF Maybe
<1>3. CASE \E h \in Handoff : RecoverRead(s, h)
  <2>1. PICK h \in Handoff : RecoverRead(s, h)
    BY <1>3
  <2>2. Begin(s, RecoverPhase(h), h, PhaseOwner(h))
    BY <2>1 DEF RecoverRead, Check
  <2>3. PhaseOwner(h) \in Session
    BY <2>1 DEF RecoverRead, PhaseOwner, Owner, OpenRows, Requested, Received,
       TaskTypeOK, HandoffRow, Maybe
  <2>4. RecoverPhase(h) \in Ops \ {"receive"}
    BY DEF RecoverPhase, Ops
  <2> QED BY <1>2, <2>2, <2>3, <2>4 DEF Fits
<1>4. CASE \E h \in Handoff : ReceiveRead(s, h)
  <2>1. PICK h \in Handoff : Requested(h) /\ Begin(s, "receive", h, None)
    BY <1>4 DEF ReceiveRead, Check
  <2> QED BY <1>1, <1>2, <2>1 DEF Fits, Ops
<1>5. CASE \E status \in Releasing : UpdateRead(s, status)
  <2>1. PICK status \in Releasing, h \in Maybe(Handoff) :
          Begin(s, status, h, None)
    BY <1>1, <1>2, <1>5 DEF UpdateRead
  <2>2. status \in Ops /\ Fits(status, h, None)
    BY DEF Releasing, Ops, Fits
  <2> QED BY <1>1, <2>1, <2>2
<1>6. CASE \E h \in Handoff : RequestRead(s, h)
  <2>1. PICK h \in Handoff : Begin(s, "request", h, None)
    BY <1>6 DEF RequestRead, Check
  <2> QED BY <1>1, <1>2, <2>1 DEF Fits, Ops
<1>7. CASE \E h \in Handoff : RequestReviewRead(s, h)
  <2>1. PICK h \in Handoff : Begin(s, "requestReview", h, None)
    BY <1>7 DEF RequestReviewRead, Check
  <2> QED BY <1>1, <1>2, <2>1 DEF Fits, Ops
<1>8. CASE \E h \in Handoff : ReceiveReviewRead(s, h)
  <2>1. PICK h \in Handoff : Begin(s, "receiveReview", h, None)
    BY <1>8 DEF ReceiveReviewRead, Check
  <2> QED BY <1>1, <1>2, <2>1 DEF Fits, Ops
<1>9. CASE \E h \in Handoff, op \in {"rejectReview", "complete"} :
             DecideRead(s, op, h)
  <2>1. PICK h \in Handoff, op \in {"rejectReview", "complete"} :
          Begin(s, op, h, None)
    BY <1>9 DEF DecideRead, Check
  <2> QED BY <1>1, <1>2, <2>1 DEF Fits, Ops
<1>10. CASE \E h \in Handoff : ReceiveRejectionRead(s, h)
  <2>1. PICK h \in Handoff : Begin(s, "receiveRejection", h, None)
    BY <1>10 DEF ReceiveRejectionRead, Check
  <2> QED BY <1>1, <1>2, <2>1 DEF Fits, Ops
<1>11. CASE \E h \in Handoff : ReportRead(s, h)
  <2>1. PICK h \in Handoff : Begin(s, "report", h, None)
    BY <1>11 DEF ReportRead
  <2> QED BY <1>1, <1>2, <2>1 DEF Fits, Ops
<1> QED
  BY <1>3, <1>4, <1>5, <1>6, <1>7, <1>8, <1>9, <1>10, <1>11
  DEF TaskRead, ReceiveForTaskRead

\* The checks that precede a transaction keep every type.
LEMMA TaskReadType ==
  ASSUME NEW s \in Session, TaskTypeOK, TaskRead(s)
  PROVE  TaskTypeOK'
<1>1. call' \in [Session -> Call]
  BY TaskReadBegins, TaskBeginType
<1> QED BY <1>1, TaskReadStep DEF TaskTypeOK, goalVars

\* A transaction that changes the row of the call changes only it, and keeps
\* the row's type; only a request also reclaims.
LEMMA TaskRowsType ==
  ASSUME NEW s \in Session, TaskTypeOK, TaskCommit(s)
  PROVE  th' \in [Handoff -> HandoffRow]
<1> DEFINE h == call[s].h
<1>1. th \in [Handoff -> HandoffRow] /\ s \in Maybe(Session)
      /\ None \in Maybe(Session)
  BY DEF TaskTypeOK, Maybe
<1>2. CASE RequestCommit(s)
  BY <1>1, <1>2 DEF RequestCommit, HandoffRow, Report
<1>3. CASE ReceiveAgain(s)
  BY <1>1, <1>3 DEF ReceiveAgain
<1>4. CASE ReceiveCommit(s)
  BY <1>1, <1>4 DEF ReceiveCommit, HandoffRow
<1>5. CASE RequestReviewCommit(s)
  <2>1. \A x \in Handoff :
          [th[x] EXCEPT !.reviewRequestedBy = s,
                        !.reviewReceivedBy  = None,
                        !.reviewRejected    = FALSE,
                        !.rejectionReceived = FALSE] \in HandoffRow
    BY <1>1 DEF HandoffRow
  <2> QED BY <1>1, <1>5, <2>1 DEF RequestReviewCommit
<1>6. CASE ReceiveReviewCommit(s) \/ RecoverReview(s)
  BY <1>1, <1>6 DEF ReceiveReviewCommit, RecoverReview, HandoffRow
<1>7. CASE RejectReviewCommit(s)
  <2>1. \A x \in Handoff : [th[x] EXCEPT !.reviewReceivedBy = None,
                                         !.reviewRejected = TRUE] \in HandoffRow
    BY <1>1 DEF HandoffRow
  <2> QED BY <1>1, <1>7, <2>1 DEF RejectReviewCommit
<1>8. CASE ReceiveRejectionCommit(s)
  <2>1. \A x \in Handoff : [th[x] EXCEPT !.rejectionReceived = TRUE] \in HandoffRow
    BY <1>1 DEF HandoffRow
  <2> QED BY <1>1, <1>8, <2>1 DEF ReceiveRejectionCommit
<1>9. CASE CompleteCommit(s) \/ ReportCommit(s)
  BY <1>1, <1>9 DEF CompleteCommit, ReportCommit, HandoffRow, Report
<1>10. CASE RecoverReceiver(s) \/ RecoverRequester(s)
  <2>1. \A x \in Handoff : [th[x] EXCEPT !.recovered = TRUE] \in HandoffRow
    BY <1>1 DEF HandoffRow
  <2> QED BY <1>1, <1>10, <2>1 DEF RecoverReceiver, RecoverRequester
<1>11. CASE \E status \in Releasing : UpdateCommit(s, status)
  BY <1>1, <1>11 DEF UpdateCommit, HandoffRow, Report
<1> QED
  BY <1>2, <1>3, <1>4, <1>5, <1>6, <1>7, <1>8, <1>9, <1>10, <1>11
  DEF TaskCommit

\* A commit returns, moves nothing of the sessions or the goal, and leaves the
\* task in a status.
LEMMA TaskCommitFrame ==
  ASSUME NEW s \in Session, TaskTypeOK, TaskCommit(s)
  PROVE  /\ Return(s)
         /\ UNCHANGED <<held, discarded, claim, goalVars>>
         /\ task' \in TaskStatus
BY DEF TaskTypeOK, TaskStatus, Releasing, Finish, TaskCommit, RequestCommit,
       ReceiveAgain, ReceiveCommit, RequestReviewCommit, ReceiveReviewCommit,
       RejectReviewCommit, ReceiveRejectionCommit, CompleteCommit,
       ReportCommit, RecoverReceiver, RecoverRequester, RecoverReview,
       UpdateCommit

\* The transactions on task_handoffs and tasks keep every type.
LEMMA TaskCommitType ==
  ASSUME NEW s \in Session, TaskTypeOK, TaskCommit(s)
  PROVE  TaskTypeOK'
BY TaskCommitFrame, TaskRowsType, TaskReturnType DEF TaskTypeOK, goalVars

\* An update without a handoff, and the moves of the goal and its decisions,
\* keep every type.
LEMMA TaskOtherType ==
  ASSUME TaskTypeOK,
         \/ \E s \in Session, status \in {"doing", "review"} :
              UpdateFreely(s, status)
         \/ DecisionsMove \/ GoalHolderMoves \/ WithdrawActiveGoal
  PROVE  TaskTypeOK'
<1>1. CASE \E s \in Session, status \in {"doing", "review"} :
             UpdateFreely(s, status)
  BY <1>1 DEF UpdateFreely, TaskTypeOK, TaskStatus, goalVars
<1>2. CASE DecisionsMove \/ GoalHolderMoves
  BY <1>2 DEF DecisionsMove, GoalHolderMoves, TaskTypeOK
<1>3. CASE WithdrawActiveGoal
  <2>1. th' \in [Handoff -> HandoffRow]
    BY <1>3 DEF WithdrawActiveGoal, TaskTypeOK, HandoffRow, Report
  <2> QED BY <1>3, <2>1 DEF WithdrawActiveGoal, TaskTypeOK, TaskStatus
<1> QED BY <1>1, <1>2, <1>3

\* The daemon starts in well-typed states.
LEMMA TaskInitType == TaskInit => TaskTypeOK
<1>1. NoRow \in HandoffRow
  BY DEF NoRow, HandoffRow, Report, Maybe
<1>2. Idle \in Call
  BY DEF Idle, Call, Ops, Maybe
<1> QED
  BY <1>1, <1>2 DEF TaskInit, SessionInit, TaskTypeOK, Maybe, TaskStatus

\* Every step of the protocol keeps every type.
LEMMA TaskNextType == TaskTypeOK /\ [TaskNext]_taskVars => TaskTypeOK'
<1> SUFFICES ASSUME TaskTypeOK, [TaskNext]_taskVars PROVE TaskTypeOK'
  OBVIOUS
<1>1. CASE UNCHANGED taskVars
  BY <1>1 DEF taskVars, TaskTypeOK
<1>2. CASE TaskNext
  BY <1>2, TaskSessionStepType, TaskReadType, TaskCommitType, TaskOtherType
  DEF TaskNext
<1> QED BY <1>1, <1>2

\* Every variable of the task protocol stays in its type, whatever the
\* sessions, the handoff ids and the bounds.
THEOREM TaskTypeCorrect == TaskSpec => []TaskTypeOK
BY TaskInitType, TaskNextType, PTL DEF TaskSpec
-----------------------------------------------------------------------------
(* What a commit may do to one row, in terms of who holds it and of its end *)

KeepsHolder(x) ==
  /\ th'[x].requestedBy = th[x].requestedBy
  /\ th'[x].receivedBy = th[x].receivedBy
  /\ th'[x].report = th[x].report
  /\ th'[x].recovered = th[x].recovered

BecomesRequested(x) ==
  /\ ~Requested(x)
  /\ th'[x].receivedBy = th[x].receivedBy
  /\ th'[x].report = th[x].report
  /\ th'[x].recovered = th[x].recovered

Reclaimed(x) ==
  /\ x \in OpenRows
  /\ Owner(x) \notin held
  /\ th'[x] = [th[x] EXCEPT !.report = "reclaimed"]

ReceivedByOf(s, x) ==
  /\ Requested(x)
  /\ th[x].receivedBy \notin held
  /\ th'[x] = [th[x] EXCEPT !.receivedBy = s]

Recovered(x) ==
  /\ Live(x)
  /\ CanRecover(Owner(x))
  /\ th'[x] = [th[x] EXCEPT !.recovered = TRUE]

Ended(x) ==
  /\ x \in OpenRows
  /\ \/ th'[x] = [th[x] EXCEPT !.report = "completed"]
     \/ th'[x] = [th[x] EXCEPT !.report = "released"]

Effect(s, x) ==
  \/ KeepsHolder(x)
  \/ BecomesRequested(x)
  \/ Reclaimed(x)
  \/ ReceivedByOf(s, x)
  \/ Recovered(x)
  \/ Ended(x)

\* The calls in flight still fit the rows: a recovery names a session, so that
\* a NULL owner does not pass canRecoverSessionInTx for want of a lease, and
\* the UPDATE of a receive, which does not ask who requested the handoff, finds
\* one that exists.
CallsFit == \A s \in Session : Fits(call[s].op, call[s].h, call[s].old)

\* Every commit has one of six effects on a row, and each effect comes with
\* the check of the row that its transaction made.
LEMMA TaskCommitEffect ==
  ASSUME NEW s \in Session, TaskTypeOK, CallsFit, TaskCommit(s),
         NEW x \in Handoff
  PROVE  Effect(s, x)
<1>1. th \in [Handoff -> HandoffRow] /\ Fits(call[s].op, call[s].h, call[s].old)
  BY DEF TaskTypeOK, CallsFit
<1>2. CASE RequestCommit(s)
  <2>1. CASE x = call[s].h
    BY <1>1, <1>2, <2>1 DEF RequestCommit, HandoffRow, Effect, KeepsHolder,
       BecomesRequested, Requested
  <2>2. CASE x # call[s].h /\ x \in Others(call[s].h)
    BY <1>1, <1>2, <2>2 DEF RequestCommit, Reclaimable, Others, Effect,
       Reclaimed
  <2> QED
    BY <1>1, <1>2, <2>1, <2>2 DEF RequestCommit, Effect, KeepsHolder
<1>3. CASE ReceiveAgain(s)
  BY <1>3 DEF ReceiveAgain, Effect, KeepsHolder
<1>4. CASE ReceiveCommit(s)
  <2>1. CASE x = call[s].h
    BY <1>1, <1>4, <2>1 DEF ReceiveCommit, Finish, Doing, Fits, Effect,
       ReceivedByOf
  <2> QED
    BY <1>1, <1>4, <2>1 DEF ReceiveCommit, Effect, KeepsHolder
<1>5. CASE RequestReviewCommit(s)
  <2>1. CASE x = call[s].h
    <3>1. th'[x] = [th[x] EXCEPT !.reviewRequestedBy = s,
                                 !.reviewReceivedBy  = None,
                                 !.reviewRejected    = FALSE,
                                 !.rejectionReceived = FALSE]
      BY <1>1, <1>5, <2>1 DEF RequestReviewCommit
    <3> QED BY <1>1, <3>1 DEF Effect, KeepsHolder, HandoffRow
  <2> QED BY <1>1, <1>5, <2>1 DEF RequestReviewCommit, Effect, KeepsHolder
<1>6. CASE ReceiveReviewCommit(s) \/ RejectReviewCommit(s)
  BY <1>1, <1>6 DEF ReceiveReviewCommit, RejectReviewCommit, Effect,
     KeepsHolder, HandoffRow
<1>7. CASE ReceiveRejectionCommit(s) \/ RecoverReview(s)
  BY <1>1, <1>7 DEF ReceiveRejectionCommit, RecoverReview, Effect,
     KeepsHolder, HandoffRow
<1>8. CASE CompleteCommit(s) \/ ReportCommit(s)
  BY <1>1, <1>8 DEF CompleteCommit, ReportCommit, ReceivedRows, Effect,
     KeepsHolder, Ended, HandoffRow
<1>9. CASE RecoverReceiver(s) \/ RecoverRequester(s)
  <2> DEFINE h == call[s].h
  <2>1. call[s].old # None
    BY <1>1, <1>9, SessionAssumption DEF RecoverReceiver, RecoverRequester,
       Finish, Doing, Fits
  <2>2. Live(h) /\ CanRecover(Owner(h)) /\ th' = [th EXCEPT ![h].recovered = TRUE]
    BY <1>9, <2>1 DEF RecoverReceiver, RecoverRequester, Owner, Received
  <2>3. CASE x = h
    BY <1>1, <2>2, <2>3 DEF Effect, Recovered
  <2>4. CASE x # h
    BY <1>1, <2>2, <2>4 DEF Effect, KeepsHolder
  <2> QED BY <2>3, <2>4
<1>10. CASE \E status \in Releasing : UpdateCommit(s, status)
  BY <1>1, <1>10 DEF UpdateCommit, Effect, KeepsHolder, Ended, HandoffRow
<1> QED
  BY <1>2, <1>3, <1>4, <1>5, <1>6, <1>7, <1>8, <1>9, <1>10 DEF TaskCommit

\* A withdrawal of the goal ends every open handoff and touches no other.
LEMMA WithdrawEffect ==
  ASSUME TaskTypeOK, WithdrawActiveGoal, NEW x \in Handoff
  PROVE  IF x \in OpenRows THEN Ended(x) ELSE th'[x] = th[x]
BY DEF WithdrawActiveGoal, Ended

\* The steps after which every row is as it was.
LEMMA RowsKept ==
  ASSUME [TaskNext]_taskVars, ~WithdrawActiveGoal,
         \A s \in Session : ~TaskCommit(s)
  PROVE  th' = th
<1>1. ASSUME NEW s \in Session, TaskRead(s) PROVE th' = th
  BY <1>1, TaskReadStep
<1> QED
  BY <1>1 DEF TaskNext, taskVars, UpdateFreely, DecisionsMove, GoalHolderMoves

\* What is true of the rows under every step.
LEMMA TaskStepEffect ==
  ASSUME TaskTypeOK, CallsFit, [TaskNext]_taskVars
  PROVE  \/ th' = th
         \/ WithdrawActiveGoal
         \/ \E s \in Session : TaskCommit(s) /\ \A x \in Handoff : Effect(s, x)
<1>1. ASSUME NEW s \in Session, TaskCommit(s)
      PROVE  \A x \in Handoff : Effect(s, x)
  BY <1>1, TaskCommitEffect
<1> QED BY <1>1, RowsKept

\* A handoff that was requested stays requested.
LEMMA RequestedStays ==
  ASSUME TaskTypeOK, CallsFit, [TaskNext]_taskVars, NEW x \in Handoff,
         Requested(x)
  PROVE  Requested(x)'
<1>1. th \in [Handoff -> HandoffRow]
  BY DEF TaskTypeOK
<1>2. ASSUME NEW s \in Session, Effect(s, x) PROVE Requested(x)'
  BY <1>1, <1>2 DEF Effect, KeepsHolder, BecomesRequested, Reclaimed,
     ReceivedByOf, Recovered, Ended, Requested, HandoffRow
<1>3. CASE WithdrawActiveGoal
  BY <1>1, <1>3, WithdrawEffect DEF Ended, Requested, HandoffRow
<1> QED BY <1>2, <1>3, TaskStepEffect DEF Requested

\* No step leaves a call that does not fit.
LEMMA CallsFitStep ==
  TaskTypeOK /\ CallsFit /\ [TaskNext]_taskVars => CallsFit'
<1> SUFFICES ASSUME TaskTypeOK, CallsFit, [TaskNext]_taskVars,
                    NEW t \in Session
             PROVE  Fits(call[t].op, call[t].h, call[t].old)'
  BY DEF CallsFit
<1>1. call \in [Session -> Call]
  BY DEF TaskTypeOK
<1>2. CASE call'[t] = call[t]
  <2>1. Fits(call[t].op, call[t].h, call[t].old)
    BY DEF CallsFit
  <2>2. \A h \in Handoff : Requested(h) => Requested(h)'
    BY RequestedStays
  <2> QED BY <1>2, <2>1, <2>2 DEF Fits, Requested
<1>3. CASE call'[t] = Idle
  BY <1>3 DEF Idle, Fits
<1>4. ASSUME NEW s \in Session, Return(s)
      PROVE  call'[t] = call[t] \/ call'[t] = Idle
  BY <1>1, <1>4 DEF Return
<1>5. ASSUME NEW s \in Session, NEW op, NEW h, NEW old, Begin(s, op, h, old),
             Fits(op, h, old), th' = th
      PROVE  Fits(call[t].op, call[t].h, call[t].old)'
  <2>1. CASE t = s
    BY <1>1, <1>5, <2>1 DEF Begin, Fits, Requested
  <2>2. CASE t # s
    BY <1>1, <1>2, <1>5, <2>2 DEF Begin
  <2> QED BY <2>1, <2>2
<1>6. ASSUME NEW s \in Session, TaskRead(s)
      PROVE  Fits(call[t].op, call[t].h, call[t].old)'
  BY <1>5, <1>6, TaskReadBegins, TaskReadStep
<1>7. ASSUME NEW s \in Session, TaskCommit(s)
      PROVE  call'[t] = call[t] \/ call'[t] = Idle
  BY <1>4, <1>7, TaskCommitFrame
<1>8. ASSUME NEW s \in Session, SessionStep(s), UNCHANGED <<th, task, goalVars>>
      PROVE  Fits(call[t].op, call[t].h, call[t].old)'
  <2>1. CASE ClaimProjectRead(s)
    <3>1. Begin(s, "claimProject", None, claim)
      BY <2>1 DEF ClaimProjectRead
    <3>2. Fits("claimProject", None, claim)
      BY DEF Fits
    <3> QED BY <1>5, <1>8, <3>1, <3>2
  <2>2. CASE Return(s)
    BY <1>2, <1>3, <1>4, <2>2
  <2>3. CASE UNCHANGED call
    BY <1>2, <2>3
  <2> QED
    BY <1>8, <2>1, <2>2, <2>3
    DEF SessionStep, RenewLease, LapseLease, ClaimProjectCommit,
        ForceClaimProject, ReleaseProject, DiscardSession, Abort
<1>9. CASE UNCHANGED call
  BY <1>2, <1>9
<1> QED
  BY <1>2, <1>3, <1>6, <1>7, <1>8, <1>9
  DEF TaskNext, taskVars, UpdateFreely, DecisionsMove, GoalHolderMoves,
      WithdrawActiveGoal
-----------------------------------------------------------------------------
(* The inductive invariant                                                 *)

\* Every transaction leaves the review columns of a row in agreement.
LEMMA TaskColumnsCommit ==
  ASSUME NEW s \in Session, TaskTypeOK, CallsFit, TaskColumnsAgree,
         TaskCommit(s), NEW x \in Handoff
  PROVE  ColumnsAgree(th'[x])
<1>1. /\ th \in [Handoff -> HandoffRow]
      /\ ColumnsAgree(th[x])
      /\ s # None
      /\ Fits(call[s].op, call[s].h, call[s].old)
  BY SessionAssumption DEF TaskTypeOK, TaskColumnsAgree, CallsFit
<1>2. CASE RequestCommit(s) \/ ReceiveAgain(s)
  BY <1>1, <1>2 DEF RequestCommit, ReceiveAgain, ColumnsAgree, HandoffRow
<1>3. CASE ReceiveCommit(s)
  BY <1>1, <1>3 DEF ReceiveCommit, Finish, Doing, Fits, Requested, ColumnsAgree,
     HandoffRow
<1>4. CASE RequestReviewCommit(s)
  <2>1. CASE x = call[s].h
    <3>1. /\ th[x].receivedBy # None
          /\ th'[x] = [th[x] EXCEPT !.reviewRequestedBy = s,
                                    !.reviewReceivedBy  = None,
                                    !.reviewRejected    = FALSE,
                                    !.rejectionReceived = FALSE]
      BY <1>1, <1>4, <2>1 DEF RequestReviewCommit, ReceivedRows, Received
    <3> QED BY <1>1, <3>1 DEF ColumnsAgree, HandoffRow
  <2> QED BY <1>1, <1>4, <2>1 DEF RequestReviewCommit
<1>5. CASE ReceiveReviewCommit(s) \/ RejectReviewCommit(s)
  BY <1>1, <1>5 DEF ReceiveReviewCommit, RejectReviewCommit, Submitted,
     ColumnsAgree, HandoffRow
<1>6. CASE ReceiveRejectionCommit(s) \/ RecoverReview(s)
  BY <1>1, <1>6 DEF ReceiveRejectionCommit, RecoverReview, ColumnsAgree,
     HandoffRow
<1>7. CASE CompleteCommit(s) \/ ReportCommit(s)
  BY <1>1, <1>7 DEF CompleteCommit, ReportCommit, ColumnsAgree, HandoffRow
<1>8. CASE RecoverReceiver(s) \/ RecoverRequester(s)
  BY <1>1, <1>8 DEF RecoverReceiver, RecoverRequester, ColumnsAgree, HandoffRow
<1>9. CASE \E status \in Releasing : UpdateCommit(s, status)
  BY <1>1, <1>9 DEF UpdateCommit, ColumnsAgree, HandoffRow
<1> QED
  BY <1>2, <1>3, <1>4, <1>5, <1>6, <1>7, <1>8, <1>9 DEF TaskCommit

\* Every step keeps the review columns in agreement.
LEMMA TaskColumnsStep ==
  TaskTypeOK /\ CallsFit /\ TaskColumnsAgree /\ [TaskNext]_taskVars
    => TaskColumnsAgree'
<1> SUFFICES ASSUME TaskTypeOK, CallsFit, TaskColumnsAgree,
                    [TaskNext]_taskVars, NEW x \in Handoff
             PROVE  ColumnsAgree(th'[x])
  BY DEF TaskColumnsAgree
<1>1. CASE th' = th
  BY <1>1 DEF TaskColumnsAgree
<1>2. CASE WithdrawActiveGoal
  <2>1. th'[x] = th[x] \/ Ended(x)
    BY <1>2, WithdrawEffect
  <2>2. ColumnsAgree(th[x]) /\ th[x] \in HandoffRow
    BY DEF TaskColumnsAgree, TaskTypeOK
  <2> QED BY <2>1, <2>2 DEF Ended, ColumnsAgree, HandoffRow
<1> QED BY <1>1, <1>2, RowsKept, TaskColumnsCommit

\* Only a request opens a handoff, and then it has closed every other one.
LEMMA TaskOpenSetStep ==
  ASSUME NEW s \in Session, TaskTypeOK, CallsFit, TaskCommit(s)
  PROVE  OpenRows' \subseteq OpenRows \/ \E h : OpenRows' \subseteq {h}
<1>1. CASE RequestCommit(s)
  <2> DEFINE h == call[s].h
  <2>1. \A x \in Others(h) : x # h /\ x \in Handoff
    BY DEF Others, OpenRows
  <2>2. \A x \in Others(h) : th'[x].report = "reclaimed"
    BY <1>1, <2>1 DEF RequestCommit, TaskTypeOK, HandoffRow
  <2>3. \A x \in Handoff : x # h /\ x \notin Others(h) => th'[x] = th[x]
    BY <1>1 DEF RequestCommit
  <2>4. ASSUME NEW x \in OpenRows', x # h PROVE FALSE
    BY <2>2, <2>3, <2>4 DEF OpenRows, Others, Requested, Live, Completed
  <2> QED BY <2>4
<1>2. CASE ~RequestCommit(s)
  <2>1. ASSUME NEW x \in Handoff PROVE th'[x].requestedBy = th[x].requestedBy
    <3>1. th \in [Handoff -> HandoffRow]
      BY DEF TaskTypeOK
    <3>2. CASE ReceiveAgain(s) \/ ReceiveCommit(s)
      BY <3>1, <3>2 DEF ReceiveAgain, ReceiveCommit, HandoffRow
    <3>3. CASE RequestReviewCommit(s)
      BY <3>1, <3>3 DEF RequestReviewCommit, HandoffRow
    <3>4. CASE ReceiveReviewCommit(s) \/ RecoverReview(s)
      BY <3>1, <3>4 DEF ReceiveReviewCommit, RecoverReview, HandoffRow
    <3>5. CASE RejectReviewCommit(s)
      BY <3>1, <3>5 DEF RejectReviewCommit, HandoffRow
    <3>6. CASE ReceiveRejectionCommit(s)
      BY <3>1, <3>6 DEF ReceiveRejectionCommit, HandoffRow
    <3>7. CASE CompleteCommit(s) \/ ReportCommit(s)
      BY <3>1, <3>7 DEF CompleteCommit, ReportCommit, HandoffRow
    <3>8. CASE RecoverReceiver(s) \/ RecoverRequester(s)
      BY <3>1, <3>8 DEF RecoverReceiver, RecoverRequester, HandoffRow
    <3>9. CASE \E status \in Releasing : UpdateCommit(s, status)
      BY <3>1, <3>9 DEF UpdateCommit, HandoffRow
    <3> QED
      BY <1>2, <3>2, <3>3, <3>4, <3>5, <3>6, <3>7, <3>8, <3>9 DEF TaskCommit
  <2>2. \A x \in Handoff : Effect(s, x)
    BY TaskCommitEffect
  <2>3. ASSUME NEW x \in Handoff, x \in OpenRows' PROVE x \in OpenRows
    <3>1. th[x] \in HandoffRow /\ Effect(s, x)
      BY <2>2 DEF TaskTypeOK
    <3>2. th'[x].requestedBy # None /\ th'[x].report = "none" /\ ~th'[x].recovered
      BY <2>3 DEF OpenRows, Requested, Live, Completed
    <3>3. KeepsHolder(x) \/ ReceivedByOf(s, x)
      BY <2>1, <3>1, <3>2 DEF Effect, BecomesRequested, Reclaimed, Recovered,
         Ended, Requested, HandoffRow
    <3>4. th[x].report = "none" /\ ~th[x].recovered
      BY <3>1, <3>2, <3>3 DEF KeepsHolder, ReceivedByOf, HandoffRow
    <3> QED BY <2>1, <3>2, <3>4 DEF OpenRows, Requested, Live, Completed
  <2> QED BY <2>3 DEF OpenRows
<1> QED BY <1>1, <1>2

TaskInv == TaskTypeOK /\ CallsFit /\ TaskColumnsAgree /\ AtMostOneOpenTaskHandoff

\* No step makes a second open handoff.
LEMMA AtMostOneOpenStep ==
  TaskInv /\ [TaskNext]_taskVars => AtMostOneOpenTaskHandoff'
<1> SUFFICES ASSUME TaskInv, [TaskNext]_taskVars
             PROVE  AtMostOneOpenTaskHandoff'
  OBVIOUS
<1>1. CASE th' = th
  BY <1>1 DEF TaskInv, AtMostOneOpenTaskHandoff, OpenRows, Requested, Live,
     Completed
<1>2. CASE WithdrawActiveGoal
  <2>1. \A x \in Handoff : x \in OpenRows' => x \in OpenRows
    BY <1>2, WithdrawEffect DEF TaskInv, OpenRows, Requested, Live, Completed,
       Ended, TaskTypeOK, HandoffRow
  <2> QED BY <2>1 DEF TaskInv, AtMostOneOpenTaskHandoff, OpenRows
<1>3. ASSUME NEW s \in Session, TaskCommit(s) PROVE AtMostOneOpenTaskHandoff'
  BY <1>3, TaskOpenSetStep DEF TaskInv, AtMostOneOpenTaskHandoff
<1> QED BY <1>1, <1>2, <1>3, RowsKept

\* The inductive invariant holds of the empty table.
LEMMA TaskInvInit == TaskInit => TaskInv
<1> SUFFICES ASSUME TaskInit PROVE TaskInv
  OBVIOUS
<1>1. CallsFit
  BY DEF TaskInit, SessionInit, CallsFit, Fits, Idle
<1>2. TaskColumnsAgree /\ AtMostOneOpenTaskHandoff
  BY DEF TaskInit, TaskColumnsAgree, ColumnsAgree, NoRow,
     AtMostOneOpenTaskHandoff, OpenRows, Requested
<1> QED BY <1>1, <1>2, TaskInitType DEF TaskInv

\* Every step keeps the inductive invariant.
LEMMA TaskInvStep == TaskInv /\ [TaskNext]_taskVars => TaskInv'
BY TaskNextType, CallsFitStep, TaskColumnsStep, AtMostOneOpenStep DEF TaskInv

\* The inductive invariant holds of every reachable state.
LEMMA TaskInvariant == TaskSpec => []TaskInv
BY TaskInvInit, TaskInvStep, PTL DEF TaskSpec

\* A task never has two open handoffs: whatever sessions request, receive,
\* recover and release at once, the reclaim inside the request transaction
\* (reclaimOpenTaskHandoffTx) leaves the task with one.
THEOREM OneOpenTaskHandoff == TaskSpec => []AtMostOneOpenTaskHandoff
<1>1. TaskInv => AtMostOneOpenTaskHandoff
  BY DEF TaskInv
<1> QED BY <1>1, TaskInvariant, PTL

\* The review columns of a task handoff agree in whatever order the reviewer,
\* its successor and the executor commit, and although the UPDATE of a receive
\* looks at neither the requester nor the report.
THEOREM TaskColumnsSafe == TaskSpec => []TaskColumnsAgree
<1>1. TaskInv => TaskColumnsAgree
  BY DEF TaskInv
<1> QED BY <1>1, TaskInvariant, PTL
-----------------------------------------------------------------------------
(* Action properties                                                       *)

\* No step from a reachable state displaces a live executor: of the effects, a
\* reclaim, a receive and a recovery each looked at the lease of the owner.
LEMMA LiveExecutorsStep ==
  TaskInv /\ [TaskNext]_taskVars => [KeepLiveExecutors]_taskVars
<1> SUFFICES ASSUME TaskInv, [TaskNext]_taskVars, NEW h \in OpenRows,
                    th[h].receivedBy \in held \ discarded
             PROVE  /\ th'[h].receivedBy = th[h].receivedBy
                    /\ ~th'[h].recovered
                    /\ th'[h].report # "reclaimed"
  BY DEF KeepLiveExecutors
<1>1. /\ h \in Handoff
      /\ th[h] \in HandoffRow
      /\ Owner(h) \in held \ discarded
      /\ ~th[h].recovered
      /\ th[h].report = "none"
  BY SessionAssumption DEF TaskInv, TaskTypeOK, OpenRows, Received, Owner, Live,
     Completed
<1>2. CASE th' = th
  BY <1>1, <1>2
<1>3. CASE Ended(h)
  BY <1>1, <1>3 DEF Ended, HandoffRow
<1>4. ASSUME NEW s \in Session, Effect(s, h)
      PROVE  /\ th'[h].receivedBy = th[h].receivedBy
             /\ ~th'[h].recovered
             /\ th'[h].report # "reclaimed"
  BY <1>1, <1>3, <1>4
  DEF Effect, KeepsHolder, BecomesRequested, Reclaimed, ReceivedByOf,
      Recovered, CanRecover, OpenRows
<1> QED
  BY <1>1, <1>2, <1>3, <1>4, TaskStepEffect, WithdrawEffect DEF TaskInv

\* No step takes an open task from an executor whose lease is held and that was
\* not discarded: each takeover checks the lease in its own transaction, so a
\* read that found the executor dead does not displace it once it is back.
THEOREM LiveExecutorSafe == TaskSpec => LiveExecutorKeepsTask
BY TaskInvariant, LiveExecutorsStep, PTL DEF TaskSpec, LiveExecutorKeepsTask

\* No step from a reachable state rewrites how a handoff ended.
LEMMA TaskOutcomesStep ==
  TaskInv /\ [TaskNext]_taskVars => [KeepTaskOutcomes]_taskVars
<1> SUFFICES ASSUME TaskInv, [TaskNext]_taskVars,
                    NEW h \in Handoff, Requested(h), ~Live(h)
             PROVE  /\ th'[h].report = th[h].report
                    /\ th'[h].recovered = th[h].recovered
                    /\ th'[h].requestedBy = th[h].requestedBy
  BY DEF KeepTaskOutcomes
<1>1. th[h] \in HandoffRow /\ h \notin OpenRows
  BY DEF TaskInv, TaskTypeOK, OpenRows
<1>2. CASE th'[h] = th[h]
  BY <1>2
<1>3. ASSUME NEW s \in Session, Effect(s, h)
      PROVE  /\ th'[h].report = th[h].report
             /\ th'[h].recovered = th[h].recovered
             /\ th'[h].requestedBy = th[h].requestedBy
  BY <1>1, <1>3
  DEF Effect, KeepsHolder, BecomesRequested, Reclaimed, ReceivedByOf,
      Recovered, Ended, HandoffRow
<1> QED BY <1>1, <1>2, <1>3, TaskStepEffect, WithdrawEffect DEF TaskInv

\* A closed task handoff keeps its outcome: a request, receive, recovery,
\* completion or release in flight when it closed does not rewrite it.
THEOREM ClosedTaskIsFinal == TaskSpec => ClosedTaskHandoffStaysClosed
BY TaskInvariant, TaskOutcomesStep, PTL
DEF TaskSpec, ClosedTaskHandoffStaysClosed

\* Of all the writers of the status only the reviewer's completion and
\* task.update write done, and both look at the decisions as they do.
LEMMA DoneStep ==
  [TaskNext]_taskVars
    => [task' = "done" /\ task # "done" => ~asked]_taskVars
<1> SUFFICES ASSUME [TaskNext]_taskVars, task' = "done", task # "done"
             PROVE  ~asked
  OBVIOUS
<1>1. ASSUME NEW s \in Session, TaskCommit(s) PROVE ~asked
  BY <1>1 DEF TaskCommit, RequestCommit, ReceiveAgain, ReceiveCommit,
     RequestReviewCommit, ReceiveReviewCommit, RejectReviewCommit,
     ReceiveRejectionCommit, CompleteCommit, ReportCommit, RecoverReceiver,
     RecoverRequester, RecoverReview, UpdateCommit
<1>2. CASE WithdrawActiveGoal
  BY <1>2 DEF WithdrawActiveGoal
<1>3. ASSUME NEW s \in Session, TaskRead(s) PROVE task' = task
  BY <1>3, TaskReadStep
<1> QED
  BY <1>1, <1>2, <1>3 DEF TaskNext, taskVars, UpdateFreely, DecisionsMove,
     GoalHolderMoves

\* A task never becomes done while a decision about it is open, whatever was
\* asked between the checks of the call and its transaction.
THEOREM DoneIsSettled == TaskSpec => DoneOnlyWhenSettled
BY DoneStep, PTL DEF TaskSpec, DoneOnlyWhenSettled
-----------------------------------------------------------------------------
(* The task handoffs implement GoalLease                                   *)

\* The protocol starts with nobody on the task, as the lease does.
LEMMA TaskLeaseInitMaps == TaskInit => TaskLease!LeaseInit
BY DEF TaskInit, SessionInit, TaskLease!LeaseInit, Executors, ReceivedRows,
       OpenRows, Requested, NoRow

\* The one open row decides who the executor is.
LEMMA ExecutorOfOpen ==
  ASSUME TaskInv, NEW h \in OpenRows
  PROVE  Executors = IF Received(h) THEN {th[h].receivedBy} ELSE {}
BY DEF TaskInv, AtMostOneOpenTaskHandoff, Executors, ReceivedRows

\* While the rows stay as they are, so does the executor.
LEMMA ExecutorsKept == ASSUME th' = th PROVE Executors' = Executors
BY DEF Executors, ReceivedRows, OpenRows, Requested, Live, Completed, Received

\* Steps of the sessions move the leases; all others leave them alone.
LEMMA LeasesMoveMaps ==
  ASSUME TaskInv, TaskInv', th' = th
  PROVE  [TaskLease!LeaseNext]_(TaskLease!leaseVars)
<1>1. (held \ discarded)' \in SUBSET Session
  BY DEF TaskInv, TaskTypeOK
<1> QED BY <1>1, ExecutorsKept DEF TaskLease!LeaseNext, TaskLease!LeasesMove

\* A commit moves the executor as GoalLease allows: to nobody, or to the
\* receiver of the open handoff, whose last receiver had no lease.
LEMMA TaskCommitMaps ==
  ASSUME NEW s \in Session, TaskInv, TaskInv', TaskCommit(s)
  PROVE  [TaskLease!LeaseNext]_(TaskLease!leaseVars)
<1>1. UNCHANGED <<held, discarded>>
  BY TaskCommitFrame DEF TaskInv
<1>2. CASE Executors' = {}
  BY <1>1, <1>2 DEF TaskLease!LeaseNext, TaskLease!Leave
<1>3. CASE Executors' # {}
  <2>1. PICK y \in Handoff : y \in OpenRows' /\ th'[y].receivedBy # None
    BY <1>3 DEF Executors, ReceivedRows, OpenRows, Received
  <2>2. Executors' = {th'[y].receivedBy}
    BY <2>1 DEF Executors, ReceivedRows, Received, TaskInv,
       AtMostOneOpenTaskHandoff
  <2>3. /\ th[y] \in HandoffRow
        /\ ColumnsAgree(th[y])
        /\ th'[y].requestedBy # None
        /\ th'[y].report = "none"
        /\ ~th'[y].recovered
    BY <2>1 DEF TaskInv, TaskTypeOK, TaskColumnsAgree, OpenRows, Requested,
       Live, Completed
  <2>4. Effect(s, y)
    BY TaskCommitEffect DEF TaskInv
  <2>5. KeepsHolder(y) \/ ReceivedByOf(s, y)
    BY <2>1, <2>3, <2>4
    DEF Effect, BecomesRequested, Reclaimed, Recovered, Ended, Requested,
        ColumnsAgree, HandoffRow
  <2>6. y \in OpenRows
    BY <2>3, <2>5
    DEF KeepsHolder, ReceivedByOf, OpenRows, Requested, Live, Completed,
        HandoffRow
  <2>7. Executors = IF Received(y) THEN {th[y].receivedBy} ELSE {}
    BY <2>6, ExecutorOfOpen
  <2>8. CASE th'[y].receivedBy = th[y].receivedBy
    BY <1>1, <2>1, <2>2, <2>7, <2>8 DEF TaskLease!leaseVars, Received
  <2>9. CASE th'[y].receivedBy # th[y].receivedBy
    <3>1. th'[y].receivedBy = s /\ th[y].receivedBy \notin held
      BY <2>3, <2>5, <2>9 DEF KeepsHolder, ReceivedByOf, HandoffRow
    <3>2. Executors \cap (held \ discarded) = {}
      BY <2>7, <3>1
    <3>3. TaskLease!Take(s)
      BY <1>1, <2>2, <3>1, <3>2 DEF TaskLease!Take
    <3> QED BY <3>3 DEF TaskLease!LeaseNext
  <2> QED BY <2>8, <2>9
<1> QED BY <1>2, <1>3

\* A withdrawal of the goal leaves nobody on the task.
LEMMA WithdrawMaps ==
  ASSUME TaskInv, WithdrawActiveGoal
  PROVE  [TaskLease!LeaseNext]_(TaskLease!leaseVars)
<1>1. \A x \in Handoff : x \notin OpenRows'
  BY WithdrawEffect DEF TaskInv, Ended, OpenRows, Requested, Live, Completed,
     TaskTypeOK, HandoffRow
<1>2. Executors' = {}
  BY <1>1 DEF Executors, ReceivedRows, OpenRows
<1> QED
  BY <1>2 DEF WithdrawActiveGoal, TaskLease!LeaseNext, TaskLease!Leave

\* Every step of the protocol is a step of the lease, or none.
LEMMA TaskStepMaps ==
  TaskInv /\ TaskInv' /\ [TaskNext]_taskVars
    => [TaskLease!LeaseNext]_(TaskLease!leaseVars)
BY RowsKept, LeasesMoveMaps, TaskCommitMaps, WithdrawMaps

\* The task handoffs keep the promise of the goal's: one executor at a time,
\* succeeded only when dead or discarded, also across the dashboard's release,
\* the withdrawal of the goal and changes of the goal's holder.
THEOREM TaskImplementsLease == TaskSpec => ImplementsTaskLease
BY TaskLeaseInitMaps, TaskStepMaps, TaskInvariant, PTL
DEF TaskSpec, ImplementsTaskLease, TaskLease!LeaseSpec
-----------------------------------------------------------------------------
(* The task handoffs implement HandoffPhases                               *)

\* A row that nobody requested was neither recovered nor closed.
OnlyRequestedEnd == \A h \in Handoff : ~Requested(h) => Live(h)

PhaseInv == TaskInv /\ OnlyRequestedEnd

\* What may become of the exchange about a row r, in one step: a row q.
PhaseStep(r, q) ==
  \/ PhaseOf(q) = PhaseOf(r)
  \/ PhaseOf(q) \in TaskExchange!Following[PhaseOf(r)]
  \/ /\ PhaseOf(r) \in TaskExchange!OpenPhases
     /\ PhaseOf(q) \in {"recovered", "closed"}

\* A row is open when the exchange about it is in an open phase.
LEMMA OpenPhase ==
  ASSUME NEW x \in Handoff
  PROVE  x \in OpenRows <=> PhaseOf(th[x]) \in TaskExchange!OpenPhases
BY DEF OpenRows, Requested, Live, Completed, PhaseOf, TaskExchange!OpenPhases

\* An open row ends when it is reported on.
LEMMA ReportEnds ==
  ASSUME NEW x \in OpenRows, th \in [Handoff -> HandoffRow],
         NEW r \in Report \ {"none"}, th'[x] = [th[x] EXCEPT !.report = r]
  PROVE  PhaseStep(th[x], th'[x])
<1>1. PhaseOf(th[x]) \in TaskExchange!OpenPhases
  BY OpenPhase DEF OpenRows
<1>2. PhaseOf(th'[x]) \in {"recovered", "closed"}
  BY DEF OpenRows, Requested, PhaseOf, HandoffRow
<1> QED BY <1>1, <1>2 DEF PhaseStep

\* Every commit takes the exchange about a row to a phase that follows, ends
\* it, or leaves it where it is.
LEMMA PhaseCommit ==
  ASSUME NEW s \in Session, PhaseInv, TaskCommit(s), NEW x \in Handoff
  PROVE  PhaseStep(th[x], th'[x])
<1> DEFINE h == call[s].h
<1>1. /\ th \in [Handoff -> HandoffRow]
      /\ ColumnsAgree(th[x])
      /\ th[x].requestedBy = None => th[x].report = "none" /\ ~th[x].recovered
      /\ s # None
      /\ Fits(call[s].op, h, call[s].old)
  BY SessionAssumption DEF PhaseInv, TaskInv, TaskTypeOK, TaskColumnsAgree,
     CallsFit, OnlyRequestedEnd, Requested, Live, Completed
<1>2. CASE th'[x] = th[x]
  BY <1>2 DEF PhaseStep
<1>3. CASE RequestCommit(s)
  <2>1. CASE x = h
    <3>1. \/ th'[x] = th[x]
          \/ /\ th[x].requestedBy = None
             /\ th'[x] = [th[x] EXCEPT !.requestedBy = s]
      BY <1>1, <1>3, <2>1 DEF RequestCommit, HandoffRow
    <3>2. CASE /\ th[x].requestedBy = None
               /\ th'[x] = [th[x] EXCEPT !.requestedBy = s]
      <4>1. PhaseOf(th[x]) = "none" /\ th[x].receivedBy = None
        BY <1>1, <3>2 DEF PhaseOf, ColumnsAgree
      <4>2. PhaseOf(th'[x]) = "requested"
        BY <1>1, <3>2, <4>1 DEF PhaseOf, HandoffRow
      <4> QED BY <4>1, <4>2 DEF PhaseStep, TaskExchange!Following
    <3> QED BY <1>2, <3>1, <3>2
  <2>2. CASE x # h /\ x \in Others(h)
    <3>1. th'[x] = [th[x] EXCEPT !.report = "reclaimed"] /\ x \in OpenRows
      BY <1>3, <2>2 DEF RequestCommit, Others
    <3> QED BY <1>1, <3>1, ReportEnds DEF Report
  <2> QED BY <1>2, <1>3, <2>1, <2>2 DEF RequestCommit
<1>4. CASE ReceiveCommit(s)
  <2>1. CASE x = h
    <3>1. th'[x] = [th[x] EXCEPT !.receivedBy = s] /\ th[x].requestedBy # None
      BY <1>1, <1>4, <2>1 DEF ReceiveCommit, Finish, Doing, Fits, Requested
    <3> QED
      BY <1>1, <3>1 DEF PhaseStep, PhaseOf, ColumnsAgree, HandoffRow,
         TaskExchange!Following
  <2> QED BY <1>1, <1>2, <1>4, <2>1 DEF ReceiveCommit
<1>5. CASE RequestReviewCommit(s)
  <2>1. CASE x = h
    <3>1. /\ th'[x] = [th[x] EXCEPT !.reviewRequestedBy = s,
                                    !.reviewReceivedBy  = None,
                                    !.reviewRejected    = FALSE,
                                    !.rejectionReceived = FALSE]
          /\ PhaseOf(th[x]) \in {"received", "acknowledged"}
      BY <1>1, <1>5, <2>1 DEF RequestReviewCommit, MaySubmit, Submitted,
         ReceivedRows, OpenRows, Requested, Live, Completed, Received, PhaseOf,
         ColumnsAgree, HandoffRow
    <3>2. PhaseOf(th'[x]) = "submitted"
      BY <1>1, <3>1 DEF PhaseOf, HandoffRow
    <3> QED BY <3>1, <3>2 DEF PhaseStep, TaskExchange!Following
  <2> QED BY <1>1, <1>2, <1>5, <2>1 DEF RequestReviewCommit
<1>6. CASE ReceiveReviewCommit(s)
  <2>1. CASE x = h
    <3>1. th'[x] = [th[x] EXCEPT !.reviewReceivedBy = s]
          /\ PhaseOf(th[x]) = "submitted"
      BY <1>1, <1>6, <2>1 DEF ReceiveReviewCommit, Submitted, Live, Completed,
         PhaseOf, ColumnsAgree, HandoffRow
    <3>2. PhaseOf(th'[x]) = "reviewing"
      BY <1>1, <3>1 DEF PhaseOf, HandoffRow
    <3> QED BY <3>1, <3>2 DEF PhaseStep, TaskExchange!Following
  <2> QED BY <1>1, <1>2, <1>6, <2>1 DEF ReceiveReviewCommit
<1>7. CASE RejectReviewCommit(s)
  <2>1. CASE x = h
    <3>1. /\ th'[x] = [th[x] EXCEPT !.reviewReceivedBy = None,
                                    !.reviewRejected   = TRUE]
          /\ PhaseOf(th[x]) = "reviewing"
          /\ ~th[x].rejectionReceived
      BY <1>1, <1>7, <2>1 DEF RejectReviewCommit, Live, Completed, PhaseOf,
         ColumnsAgree, HandoffRow
    <3>2. PhaseOf(th'[x]) = "rejected"
      BY <1>1, <3>1 DEF PhaseOf, HandoffRow
    <3> QED BY <3>1, <3>2 DEF PhaseStep, TaskExchange!Following
  <2> QED BY <1>1, <1>2, <1>7, <2>1 DEF RejectReviewCommit
<1>8. CASE ReceiveRejectionCommit(s)
  BY <1>1, <1>8 DEF ReceiveRejectionCommit, PhaseStep, PhaseOf, ColumnsAgree,
     HandoffRow, TaskExchange!Following
<1>9. CASE RecoverReceiver(s) \/ RecoverRequester(s)
  <2>1. call[s].old # None
    BY <1>1, <1>9, SessionAssumption
    DEF RecoverReceiver, RecoverRequester, Finish, Doing, Fits
  <2>2. CASE x = h
    <3>1. th'[x] = [th[x] EXCEPT !.recovered = TRUE] /\ x \in OpenRows
      BY <1>1, <1>9, <2>1, <2>2 DEF RecoverReceiver, RecoverRequester,
         ColumnsAgree, OpenRows, Requested, Live, Completed
    <3>2. PhaseOf(th'[x]) = "recovered"
      BY <1>1, <3>1 DEF OpenRows, Requested, PhaseOf, HandoffRow
    <3> QED BY <3>1, <3>2, OpenPhase DEF PhaseStep
  <2> QED BY <1>1, <1>2, <1>9, <2>2 DEF RecoverReceiver, RecoverRequester
<1>10. CASE RecoverReview(s)
  <2>1. call[s].old # None
    BY <1>1, <1>10, SessionAssumption DEF RecoverReview, Finish, Doing, Fits
  <2>2. CASE x = h
    <3>1. /\ th'[x] = [th[x] EXCEPT !.reviewReceivedBy = None]
          /\ PhaseOf(th[x]) = "reviewing"
          /\ ~th[x].reviewRejected
      BY <1>1, <1>10, <2>1, <2>2 DEF RecoverReview, Live, Completed, PhaseOf,
         ColumnsAgree
    <3>2. PhaseOf(th'[x]) = "submitted"
      BY <1>1, <3>1 DEF PhaseOf, ColumnsAgree, HandoffRow
    <3> QED BY <3>1, <3>2 DEF PhaseStep, TaskExchange!Following
  <2> QED BY <1>1, <1>2, <1>10, <2>2 DEF RecoverReview
<1>11. CASE CompleteCommit(s) \/ ReportCommit(s)
  <2>1. CASE x = h
    <3>1. th'[x] = [th[x] EXCEPT !.report = "completed"] /\ x \in OpenRows
      BY <1>1, <1>11, <2>1 DEF CompleteCommit, ReportCommit, ReceivedRows
    <3> QED BY <1>1, <3>1, ReportEnds DEF Report
  <2> QED BY <1>1, <1>2, <1>11, <2>1 DEF CompleteCommit, ReportCommit
<1>12. CASE \E status \in Releasing : UpdateCommit(s, status)
  <2>1. CASE x = h /\ th'[x] # th[x]
    <3>1. th'[x] = [th[x] EXCEPT !.report = "released"] /\ x \in OpenRows
      BY <1>1, <1>12, <2>1 DEF UpdateCommit
    <3> QED BY <1>1, <3>1, ReportEnds DEF Report
  <2> QED BY <1>1, <1>2, <1>12, <2>1 DEF UpdateCommit
<1> QED
  BY <1>2, <1>3, <1>4, <1>5, <1>6, <1>7, <1>8, <1>9, <1>10, <1>11, <1>12
  DEF TaskCommit, ReceiveAgain

\* To a row, every step is a step of the exchange about it.
LEMMA PhaseOfRowMoves ==
  ASSUME PhaseInv, [TaskNext]_taskVars, NEW x \in Handoff
  PROVE  PhaseStep(th[x], th'[x])
<1>1. CASE th' = th
  BY <1>1 DEF PhaseStep
<1>2. CASE WithdrawActiveGoal
  <2>1. CASE x \in OpenRows
    BY <1>2, <2>1, WithdrawEffect, ReportEnds
    DEF PhaseInv, TaskInv, TaskTypeOK, Ended, Report
  <2>2. CASE x \notin OpenRows
    BY <1>2, <2>2, WithdrawEffect DEF PhaseInv, TaskInv, PhaseStep
  <2> QED BY <2>1, <2>2
<1> QED BY <1>1, <1>2, RowsKept, PhaseCommit

\* No row ends before it was requested.
LEMMA OnlyRequestedEndStep ==
  PhaseInv /\ [TaskNext]_taskVars => OnlyRequestedEnd'
<1> SUFFICES ASSUME PhaseInv, [TaskNext]_taskVars,
                    NEW x \in Handoff, ~Requested(x)'
             PROVE  Live(x)'
  BY DEF OnlyRequestedEnd
<1>1. /\ th \in [Handoff -> HandoffRow]
      /\ ColumnsAgree(th[x])
      /\ x \notin OpenRows
      /\ th[x].requestedBy = None
      /\ Live(x)
  <2>1. PhaseOf(th'[x]) = "none"
    BY DEF Requested, PhaseOf
  <2>2. PhaseOf(th[x]) = "none"
    BY <2>1, PhaseOfRowMoves DEF PhaseStep, PhaseOf, TaskExchange!Following
  <2> QED
    BY <2>2 DEF PhaseOf, PhaseInv, TaskInv, TaskTypeOK, TaskColumnsAgree,
       OnlyRequestedEnd, OpenRows, Requested
<1>2. ASSUME NEW s \in Session, TaskCommit(s) PROVE Live(x)'
  <2>1. CASE RecoverReceiver(s) \/ RecoverRequester(s)
    <3>1. call[s].old # None
      BY <2>1, SessionAssumption DEF RecoverReceiver, RecoverRequester, Finish,
         Doing, PhaseInv, TaskInv, CallsFit, Fits
    <3>2. x # call[s].h
      BY <1>1, <2>1, <3>1 DEF RecoverReceiver, RecoverRequester, ColumnsAgree
    <3> QED
      BY <1>1, <2>1, <3>2 DEF RecoverReceiver, RecoverRequester, Live, Completed
  <2>2. CASE ~(RecoverReceiver(s) \/ RecoverRequester(s))
    <3>1. th'[x].report = th[x].report /\ th'[x].recovered = th[x].recovered
      <4>1. CASE RequestCommit(s)
        BY <1>1, <4>1 DEF RequestCommit, Others, HandoffRow
      <4>2. CASE CompleteCommit(s) \/ ReportCommit(s)
        BY <1>1, <4>2 DEF CompleteCommit, ReportCommit, ReceivedRows
      <4>3. CASE \E status \in Releasing : UpdateCommit(s, status)
        BY <1>1, <4>3 DEF UpdateCommit
      <4>4. CASE ReceiveAgain(s) \/ ReceiveCommit(s) \/ RequestReviewCommit(s)
        <5>1. CASE ReceiveAgain(s) \/ ReceiveCommit(s)
          BY <1>1, <5>1 DEF ReceiveAgain, ReceiveCommit, HandoffRow
        <5>2. CASE RequestReviewCommit(s)
          <6>1. CASE x = call[s].h
            <7>1. th'[x] = [th[x] EXCEPT !.reviewRequestedBy = s,
                                         !.reviewReceivedBy  = None,
                                         !.reviewRejected    = FALSE,
                                         !.rejectionReceived = FALSE]
              BY <1>1, <5>2, <6>1 DEF RequestReviewCommit
            <7> QED BY <1>1, <7>1 DEF HandoffRow
          <6> QED BY <1>1, <5>2, <6>1 DEF RequestReviewCommit
        <5> QED BY <4>4, <5>1, <5>2
      <4>5. CASE ReceiveReviewCommit(s) \/ RejectReviewCommit(s)
        BY <1>1, <4>5 DEF ReceiveReviewCommit, RejectReviewCommit, HandoffRow
      <4>6. CASE ReceiveRejectionCommit(s) \/ RecoverReview(s)
        BY <1>1, <4>6 DEF ReceiveRejectionCommit, RecoverReview, HandoffRow
      <4> QED
        BY <1>2, <2>2, <4>1, <4>2, <4>3, <4>4, <4>5, <4>6 DEF TaskCommit
    <3> QED BY <1>1, <3>1 DEF Live, Completed
  <2> QED BY <2>1, <2>2
<1>3. CASE WithdrawActiveGoal
  BY <1>1, <1>3, WithdrawEffect DEF PhaseInv, TaskInv, Live, Completed
<1>4. CASE th' = th
  BY <1>1, <1>4 DEF Live, Completed
<1> QED BY <1>2, <1>3, <1>4, RowsKept

\* The exchange starts with no row at all.
LEMMA PhaseInvInit == TaskInit => PhaseInv /\ TaskExchange!PhasesInit
BY TaskInvInit
DEF TaskInit, PhaseInv, OnlyRequestedEnd, Requested, Live, Completed, NoRow,
    PhaseOf, TaskExchange!PhasesInit

\* Every step keeps what the phases rest on.
LEMMA PhaseInvStep == PhaseInv /\ [TaskNext]_taskVars => PhaseInv'
BY TaskInvStep, OnlyRequestedEndStep DEF PhaseInv

\* Every step of the protocol is a step of the exchange.
LEMMA PhaseStepMaps ==
  PhaseInv /\ PhaseInv' /\ [TaskNext]_taskVars
    => [TaskExchange!PhasesNext]_[h \in Handoff |-> PhaseOf(th[h])]
<1> SUFFICES ASSUME PhaseInv, PhaseInv', [TaskNext]_taskVars,
                    NEW h \in Handoff
             PROVE  /\ \/ TaskExchange!Advances(h)
                       \/ TaskExchange!Ends(h)
                       \/ TaskExchange!Stays(h)
                    /\ TaskExchange!RequestedAlone(h)
  BY DEF TaskExchange!PhasesNext
<1>1. PhaseStep(th[h], th'[h])
  BY PhaseOfRowMoves
<1>2. TaskExchange!Advances(h) \/ TaskExchange!Ends(h) \/ TaskExchange!Stays(h)
  BY <1>1
  DEF PhaseStep, TaskExchange!Advances, TaskExchange!Ends, TaskExchange!Stays
<1>3. ASSUME PhaseOf(th'[h]) = "requested", NEW x \in Handoff \ {h}
      PROVE  PhaseOf(th'[x]) \notin TaskExchange!OpenPhases
  <2>1. h \in OpenRows'
    BY <1>3 DEF PhaseOf, OpenRows, Requested, Live, Completed
  <2>2. x \notin OpenRows'
    BY <2>1 DEF PhaseInv, TaskInv, AtMostOneOpenTaskHandoff
  <2> QED
    BY <2>2 DEF PhaseOf, TaskExchange!OpenPhases, OpenRows, Requested, Live,
       Completed
<1> QED BY <1>2, <1>3 DEF TaskExchange!RequestedAlone

\* The exchange about a task handoff keeps its order whatever sessions lapse
\* or act on what they read long ago, and a new handoff is requested only when
\* no other one of the task is open.
THEOREM TaskImplementsPhases == TaskSpec => ImplementsTaskPhases
<1>1. TaskSpec => []PhaseInv
  BY PhaseInvInit, PhaseInvStep, PTL DEF TaskSpec
<1> QED
  BY <1>1, PhaseInvInit, PhaseStepMaps, PTL
  DEF TaskSpec, ImplementsTaskPhases, TaskExchange!PhasesSpec
=============================================================================
