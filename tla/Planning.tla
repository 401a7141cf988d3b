------------------------------ MODULE Planning -------------------------------
(***************************************************************************)
(* The way from a plan to its tasks, for one goal.  The session that holds *)
(* the goal submits the plan, the commander reviews it, the acceptance     *)
(* files a task-create handoff in its transaction, and the tasks are       *)
(* created by the call that completes that handoff.  A rejected review of  *)
(* the goal files another handoff; submitting the goal again supersedes    *)
(* one that nobody received.                                               *)
(*                                                                         *)
(* As in TaskHandoff, the goal's holder moves as GoalLease allows, and the *)
(* exchange of the goal's own review is one step here.                     *)
(***************************************************************************)
EXTENDS Sessions

CONSTANTS Plan,        \* ids of plan handoffs
          TaskCreate,  \* ids the daemon draws for task-create handoffs
          Key,         \* idempotency keys of task.create
          Developers,  \* sessions in development mode
          Direct       \* tasks created without a handoff

ASSUME DirectAssumption == Direct \notin TaskCreate /\ None \notin TaskCreate
ASSUME PlanAssumption == None \notin Plan /\ None \notin Key
ASSUME PlanDevelopersAssumption == Developers \subseteq Session

VARIABLES ph,        \* the rows of plan_handoffs
          tc,        \* the rows of task_create_handoffs
          tasks,     \* per key, what its tasks were created by
          holders,   \* the receiver of the goal's open handoff, if any
          submitted, \* whether the goal's handoff waits for a review
          withdrawn  \* whether goals.status is dropped

planningVars ==
  <<held, discarded, claim, call, ph, tc, tasks, holders, submitted, withdrawn>>
goalSide == <<holders, submitted, withdrawn>>

PlanRow == [requestedBy : Maybe(Session), receivedBy : Maybe(Session),
            rejected : BOOLEAN, rejectionBy : Maybe(Session), completed : BOOLEAN]
NoPlan == [requestedBy |-> None, receivedBy |-> None, rejected |-> FALSE,
           rejectionBy |-> None, completed |-> FALSE]

TaskCreateRow == [requestedBy : Maybe(Session), receivedBy : Maybe(Session),
                  completed : BOOLEAN, recovered : BOOLEAN]
NoTaskCreate == [requestedBy |-> None, receivedBy |-> None,
                 completed |-> FALSE, recovered |-> FALSE]

OpenPlans == {p \in Plan : ph[p].requestedBy # None /\ ~ph[p].completed}
Filed == {h \in TaskCreate : tc[h].requestedBy # None}
OpenCreates == {h \in Filed : ~tc[h].completed /\ ~tc[h].recovered}

IsCommander(s) == claim = s
IsSubcommander(s) == IF claim = s THEN s \in Developers ELSE s \in holders

PlanningInit ==
  /\ SessionInit
  /\ ph = [p \in Plan |-> NoPlan]
  /\ tc = [h \in TaskCreate |-> NoTaskCreate]
  /\ tasks = [k \in Key |-> None]
  /\ holders = {}
  /\ submitted = FALSE
  /\ withdrawn = FALSE

Check(s, op, h, old) ==
  /\ s \notin discarded
  /\ Begin(s, op, h, old)
  /\ UNCHANGED <<held, discarded, claim, ph, tc, tasks, goalSide>>

Finish(s, op) ==
  /\ Doing(s, op)
  /\ Return(s)
  /\ UNCHANGED <<held, discarded, claim, goalSide>>

\* A new row under an id nobody drew before.  The unique index on the open
\* handoff of a goal refuses a second one.
FileTaskCreate(table, s, h) ==
  /\ \A x \in TaskCreate : table[x].requestedBy # None =>
       table[x].completed \/ table[x].recovered
  /\ table[h].requestedBy = None
  /\ tc' = [table EXCEPT ![h].requestedBy = s]
-----------------------------------------------------------------------------
(* plan.handoff.review.request                                             *)

RequestReviewRead(s, p) ==
  /\ IsSubcommander(s)
  /\ s \in holders
  /\ ~ph[p].completed
  /\ ph[p].requestedBy # None => ph[p].rejected
  /\ Check(s, "requestReview", p, None)

Resubmittable(p) ==
  ~ph[p].completed /\ ph[p].rejected /\ ph[p].rejectionBy # None

\* A new id is refused while another plan of the goal is open; a known id only
\* resubmits, after the rejection was received.
RequestReviewCommit(s) ==
  LET p == call[s].h IN
  /\ Finish(s, "requestReview")
  /\ OpenPlans \subseteq {p}
  /\ ph[p].requestedBy # None => Resubmittable(p)
  /\ ph' = [ph EXCEPT ![p] = [NoPlan EXCEPT !.requestedBy = s]]
  /\ UNCHANGED <<tc, tasks>>
-----------------------------------------------------------------------------
(* plan.handoff.review.receive, .reject, .reject.receive, plan.handoff     *)
(* .complete and the recovery of a reviewer                                *)

ReceiveReviewRead(s, p) ==
  /\ IsCommander(s)
  /\ HoldsLiveClaim(s)
  /\ ph[p].requestedBy # None /\ ph[p].receivedBy = None /\ ~ph[p].completed
  /\ Check(s, "receiveReview", p, None)

\* Mutant: the UPDATE does not ask whether the submission was rejected.
ReviewableAgain(p) == ph[p].receivedBy = None /\ ~ph[p].completed

Reviewable(p) ==
  ph[p].receivedBy = None /\ ~ph[p].rejected /\ ~ph[p].completed

ReceiveReviewCommit(s) ==
  LET p == call[s].h IN
  /\ Finish(s, "receiveReview")
  /\ Reviewable(p)
  /\ ph' = [ph EXCEPT ![p].receivedBy = s]
  /\ UNCHANGED <<tc, tasks>>

DecideRead(s, op, p) ==
  /\ IsCommander(s)
  /\ ph[p].receivedBy = s
  /\ ~ph[p].completed
  /\ Check(s, op, p, None)

\* The UPDATE of a rejection compares with no reviewer: a late one takes the
\* receipt of whoever received the plan since.
UnderReview(p) == ph[p].receivedBy # None /\ ~ph[p].completed

RejectReviewCommit(s) ==
  LET p == call[s].h IN
  /\ Finish(s, "rejectReview")
  /\ UnderReview(p)
  /\ ph' = [ph EXCEPT ![p].receivedBy = None, ![p].rejected = TRUE]
  /\ UNCHANGED <<tc, tasks>>

UnderReviewBy(p, s) == ph[p].receivedBy = s /\ ~ph[p].completed

\* Mutant: the UPDATE of a completion takes the reviewer of the read on trust,
\* and a plan that was completed meanwhile with it.
CompleteUnchecked(s) ==
  LET p == call[s].h IN
  /\ Finish(s, "complete")
  /\ ph' = [ph EXCEPT ![p].completed = TRUE, ![p].receivedBy = s]
  /\ \E h \in TaskCreate : FileTaskCreate(tc, s, h)
  /\ UNCHANGED tasks

\* Mutant: the acceptance commits without the request to create its tasks.
CompleteAlone(s) ==
  LET p == call[s].h IN
  /\ Finish(s, "complete")
  /\ UnderReviewBy(p, s)
  /\ ph' = [ph EXCEPT ![p].completed = TRUE]
  /\ UNCHANGED <<tc, tasks>>

\* The acceptance and the request to create its tasks commit together, or, when
\* a request of the goal is still open, not at all.
CompleteCommit(s) ==
  LET p == call[s].h IN
  /\ Finish(s, "complete")
  /\ UnderReviewBy(p, s)
  /\ ph' = [ph EXCEPT ![p].completed = TRUE]
  /\ \E h \in TaskCreate : FileTaskCreate(tc, s, h)
  /\ UNCHANGED tasks

MayTakeRejection(s, p) ==
  /\ ph[p].rejected /\ ph[p].rejectionBy = None
  /\ ph[p].requestedBy = s \/ s \in holders

\* There is no check of a role, and the UPDATE does not ask for an open plan.
ReceiveRejectionRead(s, p) ==
  /\ ph[p].rejected /\ ~ph[p].completed
  /\ Check(s, "receiveRejection", p, None)

ReceiveRejectionCommit(s) ==
  LET p == call[s].h IN
  /\ Finish(s, "receiveRejection")
  /\ MayTakeRejection(s, p)
  /\ ph' = [ph EXCEPT ![p].rejectionBy = s]
  /\ UNCHANGED <<tc, tasks>>

RecoverReviewRead(s, p) ==
  /\ HoldsLiveClaim(s)
  /\ ph[p].receivedBy \notin {None, s} /\ ~ph[p].completed
  /\ Check(s, "recoverReview", p, ph[p].receivedBy)

HasReviewer(p, old) == ph[p].receivedBy = old /\ ~ph[p].completed

RecoverReviewCommit(s) ==
  LET p == call[s].h IN
  /\ Finish(s, "recoverReview")
  /\ CanRecover(call[s].old)
  /\ HasReviewer(p, call[s].old)
  /\ ph' = [ph EXCEPT ![p].receivedBy = None]
  /\ UNCHANGED <<tc, tasks>>
-----------------------------------------------------------------------------
(* task.create_handoff.receive and its recovery                            *)

ReceiveCreateRead(s, h) ==
  /\ h \in OpenCreates
  /\ tc[h].receivedBy = None
  /\ tc[h].requestedBy # s
  /\ s \in holders
  /\ Check(s, "receiveCreate", h, None)

Receivable(h) == h \in OpenCreates /\ tc[h].receivedBy = None

\* How many rows the UPDATE changed is not looked at, so a call that lost its
\* race succeeds as well.
ReceiveCreateCommit(s) ==
  LET h == call[s].h IN
  /\ Finish(s, "receiveCreate")
  /\ tc' = IF Receivable(h)
             THEN [tc EXCEPT ![h].receivedBy = s] ELSE tc
  /\ UNCHANGED <<ph, tasks>>

CreateOwner(h) ==
  IF tc[h].receivedBy # None THEN tc[h].receivedBy ELSE tc[h].requestedBy

RecoverCreateRead(s, h) ==
  /\ s \in holders /\ s \in held
  /\ h \in OpenCreates
  /\ CreateOwner(h) # s
  /\ \E op \in {"recoverReceiver", "recoverRequester"} :
       /\ op = "recoverReceiver" <=> tc[h].receivedBy # None
       /\ Check(s, op, h, CreateOwner(h))

\* Mutant: a request is recovered although it was received meanwhile.
UnmovedSinceReadOfAny(op, h, old) ==
  /\ h \in OpenCreates
  /\ old \in {tc[h].receivedBy, tc[h].requestedBy}

UnmovedSinceRead(op, h, old) ==
  /\ h \in OpenCreates
  /\ IF op = "recoverReceiver"
       THEN tc[h].receivedBy = old
       ELSE tc[h].receivedBy = None /\ tc[h].requestedBy = old

\* The replacement is requested by the commander of the moment, who has to be
\* alive and another one than the session that is replaced.
RecoverCreateCommit(s) ==
  \E op \in {"recoverReceiver", "recoverRequester"} :
    LET h == call[s].h
        old == call[s].old IN
    /\ Finish(s, op)
    /\ CanRecover(old)
    /\ claim \in held \ discarded /\ claim # old
    /\ UnmovedSinceRead(op, h, old)
    /\ \E x \in TaskCreate :
         FileTaskCreate([tc EXCEPT ![h].recovered = TRUE], claim, x)
    /\ UNCHANGED <<ph, tasks>>
-----------------------------------------------------------------------------
(* task.create                                                             *)

\* A completed handoff only replays the tasks of the key.
CreateRead(s, h, k) ==
  /\ IsSubcommander(s)
  /\ tc[h].receivedBy = s /\ h \in OpenCreates
  /\ Check(s, "create", h, k)

CreatableBy(h, s) == tc[h].receivedBy = s /\ h \in OpenCreates

Upsert(k, by) == tasks' = [tasks EXCEPT ![k] = IF @ = None THEN by ELSE @]

\* Mutant: creating the tasks leaves their handoff open.
CreateCommitOnly(s) ==
  LET h == call[s].h IN
  /\ Finish(s, "create")
  /\ CreatableBy(h, s)
  /\ Upsert(call[s].old, h)
  /\ UNCHANGED <<ph, tc>>

CreateCommit(s) ==
  LET h == call[s].h IN
  /\ Finish(s, "create")
  /\ CreatableBy(h, s)
  /\ Upsert(call[s].old, h)
  /\ tc' = [tc EXCEPT ![h].completed = TRUE]
  /\ UNCHANGED ph

\* Without a handoff, for goals that never had one.  The list of handoffs and
\* the goal's status are read before the transaction.
CreateDirectlyRead(s, k) ==
  /\ call[s] = Idle
  /\ Filed = {} /\ ~withdrawn
  /\ Begin(s, "createDirectly", None, k)
  /\ UNCHANGED <<held, discarded, claim, ph, tc, tasks, goalSide>>

CreateDirectlyCommit(s) ==
  /\ Finish(s, "createDirectly")
  /\ Upsert(call[s].old, Direct)
  /\ UNCHANGED <<ph, tc>>
-----------------------------------------------------------------------------
(* What happens to the goal                                                *)

GoalStep == UNCHANGED <<held, discarded, claim, call, ph, tasks>>

Superseded(h) == h \in OpenCreates /\ tc[h].receivedBy = None

\* goal.handoff.review.request: a request to create tasks that nobody received
\* is superseded in the same transaction.
SubmitGoal ==
  /\ holders \ discarded # {} /\ ~submitted
  /\ submitted' = TRUE
  /\ tc' = [h \in TaskCreate |->
              IF Superseded(h) THEN [tc[h] EXCEPT !.recovered = TRUE] ELSE tc[h]]
  /\ GoalStep /\ UNCHANGED <<holders, withdrawn>>

\* goal.handoff.review.reject: the rework may need tasks of its own.
RejectGoal(s) ==
  /\ submitted /\ HoldsLiveClaim(s) /\ s \notin discarded
  /\ submitted' = FALSE
  /\ IF OpenCreates = {} THEN \E h \in TaskCreate : FileTaskCreate(tc, s, h)
                         ELSE UNCHANGED tc
  /\ GoalStep /\ UNCHANGED <<holders, withdrawn>>

\* The steps Leave and Take of GoalLease.  A goal that is delegated anew has a
\* handoff that was not submitted yet.
GoalHolderMoves ==
  /\ \/ holders # {} /\ holders' = {}
     \/ /\ holders \cap (held \ discarded) = {}
        /\ \E s \in Session : holders' = {s}
  /\ submitted' \in {submitted, FALSE}
  /\ UNCHANGED <<held, discarded, claim, call, ph, tc, tasks, withdrawn>>

\* The withdrawal closes neither the plan nor the task-create handoff.
WithdrawActiveGoal ==
  /\ ~withdrawn /\ withdrawn' = TRUE
  /\ UNCHANGED <<held, discarded, claim, call, ph, tc, tasks, holders, submitted>>
-----------------------------------------------------------------------------
PlanningRead(s) ==
  \/ \E p \in Plan : \/ RequestReviewRead(s, p)
                     \/ ReceiveReviewRead(s, p)
                     \/ \E op \in {"rejectReview", "complete"} : DecideRead(s, op, p)
                     \/ ReceiveRejectionRead(s, p)
                     \/ RecoverReviewRead(s, p)
  \/ \E h \in TaskCreate : \/ ReceiveCreateRead(s, h)
                           \/ RecoverCreateRead(s, h)
                           \/ \E k \in Key : CreateRead(s, h, k)
  \/ \E k \in Key : CreateDirectlyRead(s, k)

PlanningCommit(s) ==
  \/ RequestReviewCommit(s)
  \/ ReceiveReviewCommit(s)
  \/ RejectReviewCommit(s)
  \/ CompleteCommit(s)
  \/ ReceiveRejectionCommit(s)
  \/ RecoverReviewCommit(s)
  \/ ReceiveCreateCommit(s)
  \/ RecoverCreateCommit(s)
  \/ CreateCommit(s)
  \/ CreateDirectlyCommit(s)

PlanningNext ==
  \/ \E s \in Session :
       \/ SessionStep(s) /\ UNCHANGED <<ph, tc, tasks, goalSide>>
       \/ PlanningRead(s)
       \/ PlanningCommit(s)
       \/ RejectGoal(s)
  \/ SubmitGoal
  \/ GoalHolderMoves
  \/ WithdrawActiveGoal

PlanningSpec == PlanningInit /\ [][PlanningNext]_planningVars
-----------------------------------------------------------------------------
(* Properties                                                              *)

PlanningOps == {"idle", "claimProject", "requestReview", "receiveReview", "rejectReview",
                "complete", "receiveRejection", "recoverReview", "receiveCreate",
                "recoverReceiver", "recoverRequester", "create", "createDirectly"}

\* Every variable stays in its type.
PlanningTypeOK ==
  /\ held \subseteq Session /\ discarded \subseteq Session /\ claim \in Maybe(Session)
  /\ call \in [Session -> [op : PlanningOps, h : Maybe(Plan \cup TaskCreate),
                           old : Maybe(Session \cup Key)]]
  /\ ph \in [Plan -> PlanRow]
  /\ tc \in [TaskCreate -> TaskCreateRow]
  /\ tasks \in [Key -> Maybe(TaskCreate \cup {Direct})]
  /\ holders \subseteq Session
  /\ submitted \in BOOLEAN /\ withdrawn \in BOOLEAN

\* A plan is either with a reviewer, or rejected, or neither; the receipt of a
\* rejection belongs to a rejection that stands (queries/task.sql,
\* RequestPlanHandoffReview and its neighbours).
PlanColumnsAgree ==
  \A p \in Plan :
    /\ ph[p].rejected => ph[p].receivedBy = None
    /\ ph[p].rejectionBy # None => ph[p].rejected
    /\ ph[p].completed => ph[p].receivedBy # None

\* A completed task-create handoff stands for one batch of tasks, and a batch
\* for a handoff that its receiver completed: no overlap of calls, recovery or
\* replacement creates the tasks of one acceptance twice (task_create_handoff
\* .go, CreateTasksForHandoff).
OneBatchPerHandoff ==
  /\ \A k \in Key : tasks[k] \in TaskCreate =>
       tc[tasks[k]].completed /\ ~tc[tasks[k]].recovered
  /\ \A j, k \in Key : tasks[j] = tasks[k] /\ tasks[j] \in TaskCreate => j = k

\* An accepted plan reaches its tasks: from the acceptance on there is a request
\* to create them that is open or was completed, through recoveries and late
\* calls.  Only submitting the goal supersedes one (goal_handoff.go,
\* CompletePlanHandoff; task_create_handoff.go, RecoverTaskCreateHandoff).
Accepted == \E p \in Plan : ph[p].completed
Creatable == OpenCreates # {} \/ \E h \in Filed : tc[h].completed

KeepAcceptance ==
  Accepted' /\ ~Creatable' =>
    \/ Accepted /\ ~Creatable
    \/ submitted' /\ ~submitted

AcceptanceIsNotLost == [][KeepAcceptance]_planningVars

\* A completed plan, and a completed or recovered task-create handoff, keep
\* their outcome under every late call.
KeepPlanningOutcomes ==
  /\ \A p \in Plan : ph[p].completed => ph'[p] = ph[p]
  /\ \A h \in Filed : h \notin OpenCreates =>
       /\ tc'[h].completed = tc[h].completed /\ tc'[h].recovered = tc[h].recovered

ClosedPlanningStaysClosed == [][KeepPlanningOutcomes]_planningVars

\* No recovery takes a task-create handoff from a live receiver.
KeepLiveCreators ==
  \A h \in OpenCreates :
    tc[h].receivedBy \in held \ discarded => ~tc'[h].recovered

LiveReceiverCreatesTasks == [][KeepLiveCreators]_planningVars

=============================================================================
