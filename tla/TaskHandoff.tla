----------------------------- MODULE TaskHandoff -----------------------------
(***************************************************************************)
(* The handoffs of one task: the session that holds the goal delegates the *)
(* task to an executor, the two exchange the review, and the status of the *)
(* task is written by the same transactions, by task.update and by the     *)
(* withdrawal of the goal.                                                 *)
(*                                                                         *)
(* The goal's own handoffs are seen only through the set of its holders,   *)
(* which moves as GoalLease allows; GoalHandoff implements GoalLease.      *)
(***************************************************************************)
EXTENDS HandoffRows

VARIABLES th,        \* the rows of task_handoffs, one per id
          task,      \* tasks.status
          asked,     \* whether an open decision names the task
          holders,   \* the receiver of the goal's open handoff, if any
          withdrawn  \* whether goals.status is dropped

taskVars == <<held, discarded, claim, call, th, task, asked, holders, withdrawn>>
goalVars == <<asked, holders, withdrawn>>

TaskStatus == {"todo", "doing", "review", "done", "dropped"}

Requested(h) == th[h].requestedBy # None
Received(h)  == th[h].receivedBy # None
Submitted(h) == th[h].reviewRequestedBy # None
Completed(h) == th[h].report # "none"
Live(h)      == ~Completed(h) /\ ~th[h].recovered
OpenRows     == {h \in Handoff : Requested(h) /\ Live(h)}

\* openTaskHandoff: a request alone is no claim on the task.
ReceivedRows == {h \in OpenRows : Received(h)}

\* authorizeRole, with the roles MonitorAssignment derives: the claim on the
\* project comes first, then the goal; every other session is an executor.
IsSubcommander(s) == IF claim = s THEN s \in Developers ELSE s \in holders
IsExecutor(s) == claim # s /\ (s \in holders => s \in Developers)

\* requireGoalHandoffForTask: the caller holds the goal and its lease is held.
HoldsGoal(s) == s \in holders /\ s \in held

TaskInit ==
  /\ SessionInit
  /\ th = [h \in Handoff |-> NoRow]
  /\ task = "todo"
  /\ asked = FALSE
  /\ holders = {}
  /\ withdrawn = FALSE

\* The checks of an undiscarded caller pass and its transaction is next.
Check(s, op, h, old) ==
  /\ s \notin discarded
  /\ Begin(s, op, h, old)
  /\ UNCHANGED <<held, discarded, claim, th, task, goalVars>>

\* The transaction of the call in flight commits.
Finish(s, op) ==
  /\ Doing(s, op)
  /\ Return(s)
  /\ UNCHANGED <<held, discarded, claim, goalVars>>
-----------------------------------------------------------------------------
(* task.handoff.request                                                    *)

RequestRead(s, h) ==
  /\ IsSubcommander(s)
  /\ HoldsGoal(s)
  /\ ~th[h].recovered
  /\ Check(s, "request", h, None)

\* reclaimOpenTaskHandoffTx: the session whose lease keeps another handoff of
\* the task open is its receiver, or its requester while unreceived.
Owner(h) == IF Received(h) THEN th[h].receivedBy ELSE th[h].requestedBy

Others(h) == OpenRows \ {h}

Reclaimable(h) ==
  /\ Cardinality(Others(h)) <= 1
  /\ \A x \in Others(h) : Owner(x) \notin held

\* Mutant: the request leaves the other handoff of the task open.
RequestCommitWithoutReclaim(s) ==
  LET h == call[s].h IN
  /\ Finish(s, "request")
  /\ ~Completed(h)
  /\ th' = [th EXCEPT ![h].requestedBy = IF @ = None THEN s ELSE @]
  /\ task' = "todo"

\* A retry keeps the first requester, but sets the status again.
RequestCommit(s) ==
  LET h == call[s].h IN
  /\ Finish(s, "request")
  /\ ~Completed(h)
  /\ Reclaimable(h)
  /\ th' = [x \in Handoff |->
              IF x = h
              THEN [th[x] EXCEPT !.requestedBy = IF @ = None THEN s ELSE @]
              ELSE IF x \in Others(h)
              THEN [th[x] EXCEPT !.report = "reclaimed"]
              ELSE th[x]]
  /\ task' = "todo"
-----------------------------------------------------------------------------
(* task.handoff.receive                                                    *)

ReceiveRead(s, h) == Requested(h) /\ Check(s, "receive", h, None)

\* Without an id the daemon takes the only pending handoff of the task.
Pending == {h \in Handoff : Requested(h) /\ ~Received(h) /\ ~th[h].recovered}

ReceiveForTaskRead(s) == \E h \in Handoff : Pending = {h} /\ ReceiveRead(s, h)

\* The receiver retries: nothing is written.
ReceiveAgain(s) ==
  /\ Finish(s, "receive")
  /\ th[call[s].h].receivedBy = s
  /\ UNCHANGED <<th, task>>

\* Mutant: the receive does not look at the lease of the receiver it replaces.
ReceiveCommitFromAnyone(s) ==
  /\ Finish(s, "receive")
  /\ th' = [th EXCEPT ![call[s].h].receivedBy = s]
  /\ task' = "doing"

\* The UPDATE asks for neither an open nor an unrecovered handoff.
ReceiveCommit(s) ==
  LET h == call[s].h IN
  /\ Finish(s, "receive")
  /\ th[h].receivedBy # s
  /\ th[h].receivedBy \notin held
  /\ th' = [th EXCEPT ![h].receivedBy = s]
  /\ task' = "doing"
-----------------------------------------------------------------------------
(* task.handoff.review.request, .receive, .reject and .reject.receive      *)

RequestReviewRead(s, h) ==
  /\ IsExecutor(s)
  /\ th[h].receivedBy = s
  /\ Live(h)
  /\ ~Submitted(h) \/ th[h].reviewRejected
  /\ Check(s, "requestReview", h, None)

\* A rejected submission is resubmitted only once its rejection was received.
MaySubmit(h) ==
  ~Submitted(h) \/ (th[h].reviewRejected /\ th[h].rejectionReceived)

\* Mutant: a resubmission keeps the receipt of the last rejection.
RequestReviewCommitKeepingReceipt(s) ==
  LET h == call[s].h IN
  /\ Finish(s, "requestReview")
  /\ h \in ReceivedRows
  /\ MaySubmit(h)
  /\ th' = [th EXCEPT ![h].reviewRequestedBy = s,
                      ![h].reviewReceivedBy  = None,
                      ![h].reviewRejected    = FALSE]
  /\ task' = "review"

RequestReviewCommit(s) ==
  LET h == call[s].h IN
  /\ Finish(s, "requestReview")
  /\ h \in ReceivedRows
  /\ MaySubmit(h)
  /\ th' = [th EXCEPT ![h].reviewRequestedBy = s,
                      ![h].reviewReceivedBy  = None,
                      ![h].reviewRejected    = FALSE,
                      ![h].rejectionReceived = FALSE]
  /\ task' = "review"

\* The requester or the live holder of the goal receives the submission.
ReceiveReviewRead(s, h) ==
  /\ IsSubcommander(s)
  /\ Submitted(h)
  /\ th[h].reviewReceivedBy = None
  /\ Live(h)
  /\ th[h].requestedBy = s \/ HoldsGoal(s)
  /\ Check(s, "receiveReview", h, None)

ReceiveReviewCommit(s) ==
  LET h == call[s].h IN
  /\ Finish(s, "receiveReview")
  /\ Submitted(h)
  /\ th[h].reviewReceivedBy = None
  /\ ~th[h].reviewRejected
  /\ Live(h)
  /\ th' = [th EXCEPT ![h].reviewReceivedBy = s]
  /\ UNCHANGED task

\* The recorded reviewer decides; the decision is op.
DecideRead(s, op, h) ==
  /\ IsSubcommander(s)
  /\ th[h].reviewReceivedBy = s
  /\ Live(h)
  /\ Check(s, op, h, None)

\* The UPDATE asks for some receipt, not for the caller's.
RejectReviewCommit(s) ==
  LET h == call[s].h IN
  /\ Finish(s, "rejectReview")
  /\ th[h].reviewReceivedBy # None
  /\ Live(h)
  /\ th' = [th EXCEPT ![h].reviewReceivedBy = None,
                      ![h].reviewRejected   = TRUE]
  /\ task' = "doing"

ReceiveRejectionRead(s, h) ==
  /\ th[h].reviewRejected
  /\ Live(h)
  /\ th[h].receivedBy = s
  /\ Check(s, "receiveRejection", h, None)

ReceiveRejectionCommit(s) ==
  LET h == call[s].h IN
  /\ Finish(s, "receiveRejection")
  /\ th[h].reviewRejected
  /\ ~th[h].rejectionReceived
  /\ th[h].receivedBy = s
  /\ ~th[h].recovered
  /\ th' = [th EXCEPT ![h].rejectionReceived = TRUE]
  /\ UNCHANGED task
-----------------------------------------------------------------------------
(* task.handoff.complete and the handoff.complete that it replaced         *)

CompleteCommit(s) ==
  LET h == call[s].h IN
  /\ Finish(s, "complete")
  /\ ~asked
  /\ h \in ReceivedRows
  /\ th[h].reviewReceivedBy = s
  /\ th' = [th EXCEPT ![h].report = "completed"]
  /\ task' = "done"

\* Any client, by id or for the only received open handoff; the status of the
\* task is left as it is.
ReportRead(s, h) ==
  /\ Requested(h)
  /\ ~Submitted(h)
  /\ Begin(s, "report", h, None)
  /\ UNCHANGED <<held, discarded, claim, th, task, goalVars>>

ReportCommit(s) ==
  LET h == call[s].h IN
  /\ Finish(s, "report")
  /\ h \in ReceivedRows
  /\ th' = [th EXCEPT ![h].report = "completed"]
  /\ UNCHANGED task
-----------------------------------------------------------------------------
(* handoff.recover: the goal's holder replaces a session proven stale.     *)

RecoverPhase(h) ==
  IF th[h].reviewReceivedBy # None THEN "recoverReview"
  ELSE IF Received(h) THEN "recoverReceiver" ELSE "recoverRequester"

PhaseOwner(h) ==
  IF th[h].reviewReceivedBy # None THEN th[h].reviewReceivedBy ELSE Owner(h)

RecoverRead(s, h) ==
  /\ HoldsGoal(s)
  /\ h \in OpenRows
  /\ PhaseOwner(h) # s
  /\ Check(s, RecoverPhase(h), h, PhaseOwner(h))

\* Mutant: the UPDATE for the receiver forgets that the handoff may be closed.
RecoverReceiverOfClosed(s) ==
  LET h == call[s].h IN
  /\ Finish(s, "recoverReceiver")
  /\ CanRecover(call[s].old)
  /\ th[h].receivedBy = call[s].old
  /\ th' = [th EXCEPT ![h].recovered = TRUE]
  /\ UNCHANGED task

RecoverReceiver(s) ==
  LET h == call[s].h IN
  /\ Finish(s, "recoverReceiver")
  /\ CanRecover(call[s].old)
  /\ Live(h)
  /\ th[h].receivedBy = call[s].old
  /\ th' = [th EXCEPT ![h].recovered = TRUE]
  /\ UNCHANGED task

RecoverRequester(s) ==
  LET h == call[s].h IN
  /\ Finish(s, "recoverRequester")
  /\ CanRecover(call[s].old)
  /\ Live(h)
  /\ ~Received(h)
  /\ th[h].requestedBy = call[s].old
  /\ th' = [th EXCEPT ![h].recovered = TRUE]
  /\ UNCHANGED task

RecoverReview(s) ==
  LET h == call[s].h IN
  /\ Finish(s, "recoverReview")
  /\ CanRecover(call[s].old)
  /\ Live(h)
  /\ th[h].reviewReceivedBy = call[s].old
  /\ th' = [th EXCEPT ![h].reviewReceivedBy = None]
  /\ UNCHANGED task
-----------------------------------------------------------------------------
(* task.update                                                             *)

Releasing == {"todo", "done", "dropped"}

\* The handoff to release is looked up before the transaction.  A session of
\* the project may release the handoff of another one; the human's release
\* from the dashboard is the update to todo.
UpdateRead(s, status) ==
  /\ \/ ReceivedRows = {} /\ Begin(s, status, None, None)
     \/ \E h \in Handoff : ReceivedRows = {h} /\ Begin(s, status, h, None)
  /\ UNCHANGED <<held, discarded, claim, th, task, goalVars>>

\* Mutant: an update to done does not look at the task's decisions.
UpdateCommitWhileAsked(s, status) ==
  LET h == call[s].h IN
  /\ Finish(s, status)
  /\ task' = status
  /\ \/ h = None /\ UNCHANGED th
     \/ /\ h \in OpenRows
        /\ th' = [th EXCEPT ![h].report = "released"]

UpdateCommit(s, status) ==
  LET h == call[s].h IN
  /\ Finish(s, status)
  /\ status = "done" => ~asked
  /\ task' = status
  /\ \/ h = None /\ UNCHANGED th
     \/ /\ h \in OpenRows
        /\ th' = [th EXCEPT ![h].report = "released"]

\* An update to doing or review releases nothing and needs no claim.
UpdateFreely(s, status) ==
  /\ call[s] = Idle
  /\ task' = status
  /\ UNCHANGED <<held, discarded, claim, call, th, goalVars>>
-----------------------------------------------------------------------------
(* What happens to the goal and its decisions                              *)

\* A decision about the task is asked, or the last open one is settled.
DecisionsMove ==
  /\ asked' = ~asked
  /\ UNCHANGED <<held, discarded, claim, call, th, task, holders, withdrawn>>

\* The steps Leave and Take of GoalLease.
GoalHolderMoves ==
  /\ \/ holders # {} /\ holders' = {}
     \/ /\ holders \cap (held \ discarded) = {}
        /\ \E s \in Session : holders' = {s}
  /\ UNCHANGED <<held, discarded, claim, call, th, task, asked, withdrawn>>

\* A task in review keeps its status; the goal's handoff stays open.
WithdrawActiveGoal ==
  /\ ~withdrawn
  /\ withdrawn' = TRUE
  /\ asked' = FALSE
  /\ task' = IF task \in {"todo", "doing"} THEN "dropped" ELSE task
  /\ th' = [h \in Handoff |-> IF h \in OpenRows
                              THEN [th[h] EXCEPT !.report = "completed"]
                              ELSE th[h]]
  /\ UNCHANGED <<held, discarded, claim, call, holders>>
-----------------------------------------------------------------------------
TaskRead(s) ==
  \/ ReceiveForTaskRead(s)
  \/ \E status \in Releasing : UpdateRead(s, status)
  \/ \E h \in Handoff : \/ RequestRead(s, h)
                         \/ ReceiveRead(s, h)
                         \/ RequestReviewRead(s, h)
                         \/ ReceiveReviewRead(s, h)
                         \/ \E op \in {"rejectReview", "complete"} :
                              DecideRead(s, op, h)
                         \/ ReceiveRejectionRead(s, h)
                         \/ ReportRead(s, h)
                         \/ RecoverRead(s, h)

TaskCommit(s) ==
  \/ RequestCommit(s)
  \/ ReceiveAgain(s)
  \/ ReceiveCommit(s)
  \/ RequestReviewCommit(s)
  \/ ReceiveReviewCommit(s)
  \/ RejectReviewCommit(s)
  \/ ReceiveRejectionCommit(s)
  \/ CompleteCommit(s)
  \/ ReportCommit(s)
  \/ RecoverReceiver(s)
  \/ RecoverRequester(s)
  \/ RecoverReview(s)
  \/ \E status \in Releasing : UpdateCommit(s, status)

TaskNext ==
  \/ \E s \in Session :
       \/ SessionStep(s) /\ UNCHANGED <<th, task, goalVars>>
       \/ TaskRead(s)
       \/ TaskCommit(s)
       \/ \E status \in {"doing", "review"} : UpdateFreely(s, status)
  \/ DecisionsMove
  \/ GoalHolderMoves
  \/ WithdrawActiveGoal

TaskSpec == TaskInit /\ [][TaskNext]_taskVars
-----------------------------------------------------------------------------
(* Properties                                                              *)

Ops == {"idle", "claimProject", "request", "receive", "requestReview",
        "receiveReview", "rejectReview", "receiveRejection", "complete",
        "report", "recoverReview", "recoverReceiver", "recoverRequester"}
       \cup Releasing

Call == [op : Ops, h : Maybe(Handoff), old : Maybe(Session)]

\* Every variable stays in its type.
TaskTypeOK ==
  /\ held \in SUBSET Session
  /\ discarded \in SUBSET Session
  /\ claim \in Maybe(Session)
  /\ call \in [Session -> Call]
  /\ th \in [Handoff -> HandoffRow]
  /\ task \in TaskStatus
  /\ asked \in BOOLEAN
  /\ holders \in SUBSET Session
  /\ withdrawn \in BOOLEAN

\* A task has at most one open handoff: two requests that found nothing open
\* cannot both open one, as each reclaims in its transaction what the other
\* left (task_handoff.go, reclaimOpenTaskHandoffTx).
AtMostOneOpenTaskHandoff == \A x, y \in OpenRows : x = y

\* The review columns of a row never contradict each other, whatever order
\* the review, rejection, recovery and takeover transactions commit in
\* (queries/task.sql, RequestTaskHandoffReview and its neighbours).
TaskColumnsAgree == \A h \in Handoff : ColumnsAgree(th[h])

\* No request, receive or recovery takes an open handoff from an executor
\* whose lease is held and who was not discarded, however stale the read it
\* began from.
KeepLiveExecutors ==
  \A h \in OpenRows :
    th[h].receivedBy \in held \ discarded =>
      /\ th'[h].receivedBy = th[h].receivedBy
      /\ ~th'[h].recovered
      /\ th'[h].report # "reclaimed"

LiveExecutorKeepsTask == [][KeepLiveExecutors]_taskVars

\* A task handoff that was completed or recovered is never open again and
\* keeps its outcome, although requests are retried and receives of it accepted.
KeepTaskOutcomes ==
  \A h \in Handoff :
    Requested(h) /\ ~Live(h) =>
      /\ th'[h].report = th[h].report
      /\ th'[h].recovered = th[h].recovered
      /\ th'[h].requestedBy = th[h].requestedBy

ClosedTaskHandoffStaysClosed == [][KeepTaskOutcomes]_taskVars

Executors == {th[h].receivedBy : h \in ReceivedRows}

TaskLease ==
  INSTANCE GoalLease WITH alive <- held \ discarded, holders <- Executors

\* The promise of GoalLease holds for a task as it does for a goal: one
\* executor at a time, succeeded only when dead or discarded.
ImplementsTaskLease == TaskLease!LeaseSpec

TaskExchange ==
  INSTANCE HandoffPhases WITH phase <- [h \in Handoff |-> PhaseOf(th[h])]

\* The exchange about a task keeps the order of HandoffPhases too, although a
\* receive asks for no open row, a release goes by a handoff that was looked up
\* before, and the withdrawal of the goal closes whatever is open.
ImplementsTaskPhases == TaskExchange!PhasesSpec

\* task.go, UpdateTask: "Allowing a task with an open Decision to become done
\* would break the invariant that human-waiting tasks are derived from
\* Decisions."  Neither task.update nor the reviewer's completion may do it,
\* whatever was asked since the call began.
DoneOnlyWhenSettled == [][task' = "done" /\ task # "done" => ~asked]_taskVars

=============================================================================
