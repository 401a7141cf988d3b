---------------------------- MODULE PlanningProofs -----------------------------
(***************************************************************************)
(* Proofs about Planning for every set of sessions, plans, task-create     *)
(* handoffs and keys.                                                      *)
(***************************************************************************)
EXTENDS Planning, TLAPS

Call == [op : PlanningOps, h : Maybe(Plan \cup TaskCreate),
         old : Maybe(Session \cup Key)]

\* A handler that passed its checks records a well-typed call.
LEMMA PlanningBeginType ==
  ASSUME NEW s \in Session, NEW op \in PlanningOps,
         NEW h \in Maybe(Plan \cup TaskCreate),
         NEW old \in Maybe(Session \cup Key), PlanningTypeOK, Begin(s, op, h, old)
  PROVE  call' \in [Session -> Call]
BY DEF PlanningTypeOK, Begin, Call

\* A call that returns leaves its session idle, and the calls well typed.
LEMMA PlanningReturnType ==
  ASSUME NEW s \in Session, PlanningTypeOK, Return(s)
  PROVE  call' \in [Session -> Call]
BY DEF PlanningTypeOK, Return, Idle, Call, PlanningOps, Maybe

\* The sessions' own steps leave every row alone and keep the types.
LEMMA PlanningSessionStep ==
  ASSUME NEW s \in Session, PlanningTypeOK, SessionStep(s)
  PROVE  /\ held' \subseteq Session /\ discarded' \subseteq Session
         /\ claim' \in Maybe(Session)
         /\ call' \in [Session -> Call]
<1> USE DEF PlanningTypeOK, Maybe
<1>0. call \in [Session -> Call]
  BY DEF Call
<1>1. CASE RenewLease(s)
  BY <1>0, <1>1 DEF RenewLease
<1>2. CASE LapseLease(s)
  BY <1>0, <1>2 DEF LapseLease
<1>3. CASE ClaimProjectRead(s)
  <2>1. Begin(s, "claimProject", None, claim)
    BY <1>3 DEF ClaimProjectRead
  <2>2. call' \in [Session -> Call]
    BY <2>1, PlanningBeginType DEF PlanningOps
  <2> QED BY <1>3, <2>2 DEF ClaimProjectRead
<1>4. CASE ClaimProjectCommit(s)
  BY <1>4, PlanningReturnType DEF ClaimProjectCommit
<1>5. CASE ForceClaimProject(s)
  BY <1>0, <1>5 DEF ForceClaimProject
<1>6. CASE ReleaseProject(s)
  BY <1>0, <1>6 DEF ReleaseProject
<1>7. CASE \E t \in Session : DiscardSession(s, t)
  BY <1>0, <1>7 DEF DiscardSession
<1>8. CASE Abort(s)
  BY <1>8, PlanningReturnType DEF Abort
<1> QED
  BY <1>1, <1>2, <1>3, <1>4, <1>5, <1>6, <1>7, <1>8 DEF SessionStep
-----------------------------------------------------------------------------
(* Reads                                                                   *)

\* A read changes nothing but the caller's call.
LEMMA PlanningReadFrame ==
  ASSUME NEW s \in Session, PlanningRead(s)
  PROVE  UNCHANGED <<held, discarded, claim, ph, tc, tasks, goalSide>>
BY DEF PlanningRead, RequestReviewRead, ReceiveReviewRead, DecideRead,
       ReceiveRejectionRead, RecoverReviewRead, ReceiveCreateRead,
       RecoverCreateRead, CreateRead, CreateDirectlyRead, Check

\* The receive of a review is of a plan that was submitted.
PlanCallFits(op, h) == op = "receiveReview" => h \in Plan /\ ph[h].requestedBy # None

\* Every read begins a well-typed call that fits the rows it read.
LEMMA PlanningReadBegins ==
  ASSUME NEW s \in Session, PlanningTypeOK, PlanningRead(s)
  PROVE  \E op \in PlanningOps, h \in Maybe(Plan \cup TaskCreate),
            old \in Maybe(Session \cup Key) :
           Begin(s, op, h, old) /\ PlanCallFits(op, h)
<1> DEFINE H   == Maybe(Plan \cup TaskCreate)
           Old == Maybe(Session \cup Key)
<1>1. /\ Plan \subseteq H /\ TaskCreate \subseteq H /\ None \in H
      /\ Session \subseteq Old /\ Key \subseteq Old /\ None \in Old
  BY DEF Maybe
<1>2. CASE \E p \in Plan : ReceiveReviewRead(s, p)
  <2>1. PICK p \in Plan : ph[p].requestedBy # None /\ Begin(s, "receiveReview", p, None)
    BY <1>2 DEF ReceiveReviewRead, Check
  <2> QED BY <1>1, <2>1 DEF PlanCallFits, PlanningOps
<1>3. CASE \E p \in Plan : RecoverReviewRead(s, p)
  <2>1. PICK p \in Plan : Begin(s, "recoverReview", p, ph[p].receivedBy)
    BY <1>3 DEF RecoverReviewRead, Check
  <2>2. ph[p].receivedBy \in Old
    BY DEF PlanningTypeOK, PlanRow, Maybe
  <2> QED BY <1>1, <2>1, <2>2 DEF PlanCallFits, PlanningOps
<1>4. CASE \E p \in Plan : RequestReviewRead(s, p)
  <2>1. PICK p \in Plan : Begin(s, "requestReview", p, None)
    BY <1>4 DEF RequestReviewRead, Check
  <2> QED BY <1>1, <2>1 DEF PlanCallFits, PlanningOps
<1>5. CASE \E p \in Plan, op \in {"rejectReview", "complete"} : DecideRead(s, op, p)
  <2>1. PICK p \in Plan, op \in {"rejectReview", "complete"} : Begin(s, op, p, None)
    BY <1>5 DEF DecideRead, Check
  <2> QED BY <1>1, <2>1 DEF PlanCallFits, PlanningOps
<1>6. CASE \E p \in Plan : ReceiveRejectionRead(s, p)
  <2>1. PICK p \in Plan : Begin(s, "receiveRejection", p, None)
    BY <1>6 DEF ReceiveRejectionRead, Check
  <2> QED BY <1>1, <2>1 DEF PlanCallFits, PlanningOps
<1>7. CASE \E h \in TaskCreate : ReceiveCreateRead(s, h)
  <2>1. PICK h \in TaskCreate : Begin(s, "receiveCreate", h, None)
    BY <1>7 DEF ReceiveCreateRead, Check
  <2> QED BY <1>1, <2>1 DEF PlanCallFits, PlanningOps
<1>8. CASE \E h \in TaskCreate : RecoverCreateRead(s, h)
  <2>1. PICK h \in TaskCreate, op \in {"recoverReceiver", "recoverRequester"} :
          Begin(s, op, h, CreateOwner(h))
    BY <1>8 DEF RecoverCreateRead, Check
  <2>2. CreateOwner(h) \in Old
    BY DEF CreateOwner, PlanningTypeOK, TaskCreateRow, Maybe
  <2> QED BY <1>1, <2>1, <2>2 DEF PlanCallFits, PlanningOps
<1>9. CASE \E h \in TaskCreate, k \in Key : CreateRead(s, h, k)
  <2>1. PICK h \in TaskCreate, k \in Key : Begin(s, "create", h, k)
    BY <1>9 DEF CreateRead, Check
  <2> QED BY <1>1, <2>1 DEF PlanCallFits, PlanningOps
<1>10. CASE \E k \in Key : CreateDirectlyRead(s, k)
  <2>1. PICK k \in Key : Begin(s, "createDirectly", None, k)
    BY <1>10 DEF CreateDirectlyRead
  <2> QED BY <1>1, <2>1 DEF PlanCallFits, PlanningOps
<1> QED
  BY <1>2, <1>3, <1>4, <1>5, <1>6, <1>7, <1>8, <1>9, <1>10 DEF PlanningRead
-----------------------------------------------------------------------------
(* What a step does to one row                                             *)

\* A plan is submitted, received, rejected, accepted, its rejection is received,
\* or it loses its reviewer, each under what the transaction asked for.
PlanMoves(p) ==
  LET Becomes(row) == ph'[p] = row IN
  \/ Becomes(ph[p])
  \/ \E s \in Session :
       \/ /\ ph[p].requestedBy = None \/ ~ph[p].completed
          /\ Becomes([NoPlan EXCEPT !.requestedBy = s])
       \/ /\ Reviewable(p) /\ ph[p].requestedBy # None
          /\ Becomes([ph[p] EXCEPT !.receivedBy = s])
       \/ /\ UnderReviewBy(p, s)
          /\ Becomes([ph[p] EXCEPT !.completed = TRUE])
       \/ /\ ph[p].rejected /\ ph[p].rejectionBy = None
          /\ Becomes([ph[p] EXCEPT !.rejectionBy = s])
  \/ UnderReview(p) /\ Becomes([ph[p] EXCEPT !.receivedBy = None, !.rejected = TRUE])
  \/ ~ph[p].completed /\ Becomes([ph[p] EXCEPT !.receivedBy = None])

\* A task-create handoff is filed, received, completed, or recovered, the last
\* never from a live receiver.
CreateMoves(h) ==
  LET Becomes(row) == tc'[h] = row IN
  \/ Becomes(tc[h])
  \/ \E s \in Session :
       \/ tc[h].requestedBy = None /\ Becomes([tc[h] EXCEPT !.requestedBy = s])
       \/ Receivable(h) /\ Becomes([tc[h] EXCEPT !.receivedBy = s])
  \/ h \in OpenCreates /\ Becomes([tc[h] EXCEPT !.completed = TRUE])
  \/ /\ h \in OpenCreates /\ tc[h].receivedBy \notin held \ discarded
     /\ Becomes([tc[h] EXCEPT !.recovered = TRUE])

\* The receive of a review in flight is of a plan that was submitted.  Without
\* this it could receive a plan that nobody submitted, as its UPDATE does not
\* look at the requester.
ReceivesSubmitted ==
  \A s \in Session : PlanCallFits(call[s].op, call[s].h)

\* A commit changes no plan but the one of its call, as PlanMoves says.
LEMMA PlanCommitMoves ==
  ASSUME NEW s \in Session, PlanningTypeOK, ReceivesSubmitted, PlanningCommit(s)
  PROVE  /\ ph' \in [Plan -> PlanRow]
         /\ \A p \in Plan : PlanMoves(p)
<1> DEFINE q == call[s].h
<1>1. ph \in [Plan -> PlanRow]
  BY DEF PlanningTypeOK
<1>2. CASE RequestReviewCommit(s)
  <2>1. /\ ph[q].requestedBy = None \/ ~ph[q].completed
        /\ ph' = [ph EXCEPT ![q] = [NoPlan EXCEPT !.requestedBy = s]]
    BY <1>2 DEF RequestReviewCommit, Resubmittable
  <2>2. [NoPlan EXCEPT !.requestedBy = s] \in PlanRow
    BY DEF NoPlan, PlanRow, Maybe
  <2> QED BY <1>1, <2>1, <2>2 DEF PlanMoves
<1>3. CASE ReceiveReviewCommit(s)
  <2>1. /\ Doing(s, "receiveReview") /\ Reviewable(q)
        /\ ph' = [ph EXCEPT ![q].receivedBy = s]
    BY <1>3 DEF ReceiveReviewCommit, Finish
  <2>2. q \in Plan /\ ph[q].requestedBy # None
    BY <2>1 DEF ReceivesSubmitted, PlanCallFits, Doing
  <2>3. [ph[q] EXCEPT !.receivedBy = s] \in PlanRow
    BY <1>1, <2>2 DEF PlanRow, Maybe
  <2> QED BY <1>1, <2>1, <2>2, <2>3 DEF PlanMoves
<1>4. CASE RejectReviewCommit(s)
  <2>1. UnderReview(q)
        /\ ph' = [ph EXCEPT ![q].receivedBy = None, ![q].rejected = TRUE]
    BY <1>4 DEF RejectReviewCommit
  <2>2. \A p \in Plan :
          [ph[p] EXCEPT !.receivedBy = None, !.rejected = TRUE] \in PlanRow
    BY <1>1 DEF PlanRow, Maybe
  <2> QED BY <1>1, <2>1, <2>2 DEF PlanMoves
<1>5. CASE CompleteCommit(s)
  <2>1. UnderReviewBy(q, s) /\ ph' = [ph EXCEPT ![q].completed = TRUE]
    BY <1>5 DEF CompleteCommit
  <2>2. \A p \in Plan : [ph[p] EXCEPT !.completed = TRUE] \in PlanRow
    BY <1>1 DEF PlanRow
  <2> QED BY <1>1, <2>1, <2>2 DEF PlanMoves
<1>6. CASE ReceiveRejectionCommit(s)
  <2>1. /\ ph[q].rejected /\ ph[q].rejectionBy = None
        /\ ph' = [ph EXCEPT ![q].rejectionBy = s]
    BY <1>6 DEF ReceiveRejectionCommit, MayTakeRejection
  <2>2. \A p \in Plan : [ph[p] EXCEPT !.rejectionBy = s] \in PlanRow
    BY <1>1 DEF PlanRow, Maybe
  <2> QED BY <1>1, <2>1, <2>2 DEF PlanMoves
<1>7. CASE RecoverReviewCommit(s)
  <2>1. ~ph[q].completed /\ ph' = [ph EXCEPT ![q].receivedBy = None]
    BY <1>7 DEF RecoverReviewCommit, HasReviewer
  <2>2. \A p \in Plan : [ph[p] EXCEPT !.receivedBy = None] \in PlanRow
    BY <1>1 DEF PlanRow, Maybe
  <2> QED BY <1>1, <2>1, <2>2 DEF PlanMoves
<1>8. CASE \/ ReceiveCreateCommit(s) \/ RecoverCreateCommit(s)
           \/ CreateCommit(s) \/ CreateDirectlyCommit(s)
  BY <1>1, <1>8 DEF ReceiveCreateCommit, RecoverCreateCommit, CreateCommit,
     CreateDirectlyCommit, PlanMoves
<1> QED
  BY <1>2, <1>3, <1>4, <1>5, <1>6, <1>7, <1>8 DEF PlanningCommit

\* Filing changes the requester of one row that had none.
LEMMA Filing ==
  ASSUME NEW STATE table, table \in [TaskCreate -> TaskCreateRow],
         NEW STATE s, s \in Session,
         NEW h \in TaskCreate, FileTaskCreate(table, s, h)
  PROVE  /\ tc' \in [TaskCreate -> TaskCreateRow]
         /\ table[h].requestedBy = None /\ tc'[h] = [table[h] EXCEPT !.requestedBy = s]
         /\ \A x \in TaskCreate \ {h} : tc'[x] = table[x]
<1>1. [table[h] EXCEPT !.requestedBy = s] \in TaskCreateRow
  BY DEF TaskCreateRow, Maybe
<1> QED BY <1>1 DEF FileTaskCreate

\* A commit changes task-create handoffs as CreateMoves says.
LEMMA CreateCommitMoves ==
  ASSUME NEW s \in Session, PlanningTypeOK, PlanningCommit(s)
  PROVE  /\ tc' \in [TaskCreate -> TaskCreateRow]
         /\ \A h \in TaskCreate : CreateMoves(h)
<1> DEFINE q == call[s].h
<1>1. tc \in [TaskCreate -> TaskCreateRow] /\ held \subseteq Session
  BY DEF PlanningTypeOK
<1>2. CASE CompleteCommit(s)
  <2>1. PICK x \in TaskCreate : FileTaskCreate(tc, s, x)
    BY <1>2 DEF CompleteCommit
  <2>2. /\ tc' \in [TaskCreate -> TaskCreateRow]
        /\ tc[x].requestedBy = None /\ tc'[x] = [tc[x] EXCEPT !.requestedBy = s]
        /\ \A h \in TaskCreate \ {x} : tc'[h] = tc[h]
    BY <1>1, <2>1, Filing
  <2> QED BY <2>2 DEF CreateMoves
<1>3. CASE ReceiveCreateCommit(s)
  <2>1. \A h \in TaskCreate : [tc[h] EXCEPT !.receivedBy = s] \in TaskCreateRow
    BY <1>1 DEF TaskCreateRow, Maybe
  <2> QED BY <1>1, <1>3, <2>1 DEF ReceiveCreateCommit, CreateMoves
<1>4. CASE RecoverCreateCommit(s)
  <2> DEFINE table == [tc EXCEPT ![q].recovered = TRUE]
  <2>1. PICK op \in {"recoverReceiver", "recoverRequester"}, x \in TaskCreate :
          /\ CanRecover(call[s].old) /\ UnmovedSinceRead(op, q, call[s].old)
          /\ claim \in Session
          /\ FileTaskCreate(table, claim, x)
    BY <1>1, <1>4 DEF RecoverCreateCommit
  <2>2. q \in OpenCreates /\ q \in TaskCreate /\ tc[q].requestedBy # None
    BY <2>1 DEF UnmovedSinceRead, OpenCreates, Filed
  <2>3. tc[q].receivedBy \notin held \ discarded
    BY <1>1, <2>1, SessionAssumption DEF UnmovedSinceRead, CanRecover
  <2>4. [tc[q] EXCEPT !.recovered = TRUE] \in TaskCreateRow
    BY <1>1, <2>2 DEF TaskCreateRow
  <2>5. /\ table \in [TaskCreate -> TaskCreateRow]
        /\ table[q] = [tc[q] EXCEPT !.recovered = TRUE]
        /\ table[q].requestedBy # None
        /\ \A h \in TaskCreate \ {q} : table[h] = tc[h]
    BY <1>1, <2>2, <2>4 DEF TaskCreateRow
  <2> HIDE DEF table
  <2>6. /\ tc' \in [TaskCreate -> TaskCreateRow]
        /\ table[x].requestedBy = None
        /\ tc'[x] = [table[x] EXCEPT !.requestedBy = claim]
        /\ \A h \in TaskCreate \ {x} : tc'[h] = table[h]
    BY <2>1, <2>5, Filing
  <2>7. x # q /\ tc'[q] = [tc[q] EXCEPT !.recovered = TRUE]
    BY <2>2, <2>5, <2>6
  <2> QED BY <2>1, <2>2, <2>3, <2>5, <2>6, <2>7 DEF CreateMoves
<1>5. CASE CreateCommit(s)
  <2>1. \A h \in TaskCreate : [tc[h] EXCEPT !.completed = TRUE] \in TaskCreateRow
    BY <1>1 DEF TaskCreateRow
  <2> QED BY <1>1, <1>5, <2>1 DEF CreateCommit, CreatableBy, CreateMoves
<1>6. CASE \/ RequestReviewCommit(s) \/ ReceiveReviewCommit(s) \/ RejectReviewCommit(s)
           \/ ReceiveRejectionCommit(s) \/ RecoverReviewCommit(s)
           \/ CreateDirectlyCommit(s)
  BY <1>1, <1>6 DEF RequestReviewCommit, ReceiveReviewCommit, RejectReviewCommit,
     ReceiveRejectionCommit, RecoverReviewCommit, CreateDirectlyCommit, CreateMoves
<1> QED
  BY <1>2, <1>3, <1>4, <1>5, <1>6 DEF PlanningCommit

\* Every step moves the rows as PlanMoves and CreateMoves say.
LEMMA RowsMove ==
  ASSUME PlanningTypeOK, ReceivesSubmitted, [PlanningNext]_planningVars
  PROVE  /\ ph' \in [Plan -> PlanRow] /\ tc' \in [TaskCreate -> TaskCreateRow]
         /\ \A p \in Plan : PlanMoves(p)
         /\ \A h \in TaskCreate : CreateMoves(h)
<1>1. /\ ph \in [Plan -> PlanRow] /\ tc \in [TaskCreate -> TaskCreateRow]
      /\ held \subseteq Session
  BY DEF PlanningTypeOK
<1>2. (UNCHANGED ph) => /\ ph' \in [Plan -> PlanRow]
                        /\ \A p \in Plan : PlanMoves(p)
  BY <1>1 DEF PlanMoves
<1>3. (UNCHANGED tc) => /\ tc' \in [TaskCreate -> TaskCreateRow]
                        /\ \A h \in TaskCreate : CreateMoves(h)
  BY <1>1 DEF CreateMoves
<1>4. ASSUME NEW s \in Session, PlanningCommit(s)
      PROVE  /\ ph' \in [Plan -> PlanRow] /\ tc' \in [TaskCreate -> TaskCreateRow]
             /\ \A p \in Plan : PlanMoves(p)
             /\ \A h \in TaskCreate : CreateMoves(h)
  BY <1>4, PlanCommitMoves, CreateCommitMoves
<1>5. ASSUME NEW s \in Session, RejectGoal(s)
      PROVE  UNCHANGED ph /\ ~UNCHANGED tc => /\ tc' \in [TaskCreate -> TaskCreateRow]
                                              /\ \A h \in TaskCreate : CreateMoves(h)
  <2>1. SUFFICES ASSUME ~UNCHANGED tc
                 PROVE  /\ tc' \in [TaskCreate -> TaskCreateRow]
                        /\ \A h \in TaskCreate : CreateMoves(h)
    OBVIOUS
  <2>2. PICK x \in TaskCreate : FileTaskCreate(tc, s, x)
    BY <1>5, <2>1 DEF RejectGoal
  <2>3. /\ tc' \in [TaskCreate -> TaskCreateRow]
        /\ tc[x].requestedBy = None /\ tc'[x] = [tc[x] EXCEPT !.requestedBy = s]
        /\ \A h \in TaskCreate \ {x} : tc'[h] = tc[h]
    BY <1>1, <2>2, Filing
  <2> QED BY <2>3 DEF CreateMoves
<1>6. CASE SubmitGoal
  <2>1. /\ UNCHANGED ph
        /\ tc' = [h \in TaskCreate |-> IF Superseded(h) THEN [tc[h] EXCEPT !.recovered = TRUE]
                                                        ELSE tc[h]]
    BY <1>6 DEF SubmitGoal, GoalStep
  <2>2. \A h \in TaskCreate : [tc[h] EXCEPT !.recovered = TRUE] \in TaskCreateRow
    BY <1>1 DEF TaskCreateRow
  <2>3. \A h \in TaskCreate : Superseded(h) =>
          h \in OpenCreates /\ tc[h].receivedBy \notin held \ discarded
    BY <1>1, SessionAssumption DEF Superseded
  <2> QED BY <1>1, <1>2, <2>1, <2>2, <2>3 DEF CreateMoves
<1>7. ASSUME NEW s \in Session, RejectGoal(s) PROVE UNCHANGED ph
  BY <1>7 DEF RejectGoal, GoalStep
<1>8. \/ UNCHANGED <<ph, tc>>
      \/ \E s \in Session : PlanningCommit(s) \/ RejectGoal(s)
      \/ SubmitGoal
  BY PlanningReadFrame
  DEF PlanningNext, planningVars, GoalHolderMoves, WithdrawActiveGoal
<1> QED BY <1>2, <1>3, <1>4, <1>5, <1>6, <1>7, <1>8

\* The tasks of a key are created directly, or by one open handoff that the
\* step completes, and keep what created them.
TasksMove ==
  \/ \A k \in Key : tasks'[k] \in {tasks[k], Direct}
  \/ \E h \in OpenCreates, key \in Key :
       /\ tc'[h] = [tc[h] EXCEPT !.completed = TRUE]
       /\ tasks'[key] \in {tasks[key], h}
       /\ \A k \in Key \ {key} : tasks'[k] = tasks[k]

LEMMA TasksStep ==
  ASSUME PlanningTypeOK, [PlanningNext]_planningVars
  PROVE  TasksMove /\ tasks' \in [Key -> Maybe(TaskCreate \cup {Direct})]
<1> DEFINE T == Maybe(TaskCreate \cup {Direct})
<1>1. /\ tasks \in [Key -> T] /\ Direct \in T
      /\ TaskCreate \subseteq T /\ OpenCreates \subseteq TaskCreate
      /\ tc \in [TaskCreate -> TaskCreateRow]
  BY DEF PlanningTypeOK, Maybe, OpenCreates, Filed
<1>2. (UNCHANGED tasks) => TasksMove /\ tasks' \in [Key -> T]
  BY <1>1 DEF TasksMove
<1>3. ASSUME NEW s \in Session, CreateCommit(s)
      PROVE  TasksMove /\ tasks' \in [Key -> T]
  <2> DEFINE h == call[s].h
             key == call[s].old
  <2>1. /\ h \in OpenCreates
        /\ tasks' = [tasks EXCEPT ![key] = IF @ = None THEN h ELSE @]
        /\ tc' = [tc EXCEPT ![h].completed = TRUE]
    BY <1>3 DEF CreateCommit, CreatableBy, Upsert
  <2>2. tc'[h] = [tc[h] EXCEPT !.completed = TRUE]
    BY <1>1, <2>1
  <2> HIDE DEF h, key
  <2>3. CASE key \in Key
    BY <1>1, <2>1, <2>2, <2>3 DEF TasksMove
  <2>4. CASE key \notin Key
    <3>1. tasks' = tasks
      BY <1>1, <2>1, <2>4
    <3> QED BY <1>2, <3>1
  <2> QED BY <2>3, <2>4
<1>4. ASSUME NEW s \in Session, CreateDirectlyCommit(s)
      PROVE  TasksMove /\ tasks' \in [Key -> T]
  <2>1. tasks' = [tasks EXCEPT ![call[s].old] = IF @ = None THEN Direct ELSE @]
    BY <1>4 DEF CreateDirectlyCommit, Upsert
  <2> QED BY <1>1, <2>1 DEF TasksMove
<1>5. \/ UNCHANGED tasks
      \/ \E s \in Session : CreateCommit(s) \/ CreateDirectlyCommit(s)
  BY PlanningReadFrame
  DEF PlanningNext, planningVars, PlanningCommit, RequestReviewCommit,
      ReceiveReviewCommit, RejectReviewCommit, CompleteCommit,
      ReceiveRejectionCommit, RecoverReviewCommit, ReceiveCreateCommit,
      RecoverCreateCommit, RejectGoal, SubmitGoal, GoalStep, GoalHolderMoves,
      WithdrawActiveGoal
<1> QED BY <1>2, <1>3, <1>4, <1>5
-----------------------------------------------------------------------------
(* The invariant                                                           *)

\* A commit returns and moves nothing of the sessions or the goal.
LEMMA PlanningCommitFrame ==
  ASSUME NEW s \in Session, PlanningCommit(s)
  PROVE  Return(s) /\ UNCHANGED <<held, discarded, claim, goalSide>>
BY DEF Finish, PlanningCommit, RequestReviewCommit, ReceiveReviewCommit,
       RejectReviewCommit, CompleteCommit, ReceiveRejectionCommit,
       RecoverReviewCommit, ReceiveCreateCommit, RecoverCreateCommit,
       CreateCommit, CreateDirectlyCommit

\* The moves of the goal change no session, and no call.
LEMMA GoalMovesFrame ==
  ASSUME PlanningTypeOK,
         \/ \E s \in Session : RejectGoal(s)
         \/ SubmitGoal \/ GoalHolderMoves \/ WithdrawActiveGoal
  PROVE  /\ UNCHANGED <<held, discarded, claim, call>>
         /\ holders' \subseteq Session
         /\ submitted' \in BOOLEAN /\ withdrawn' \in BOOLEAN
<1>1. holders \subseteq Session /\ submitted \in BOOLEAN /\ withdrawn \in BOOLEAN
  BY DEF PlanningTypeOK
<1>2. CASE \E s \in Session : RejectGoal(s)
  BY <1>1, <1>2 DEF RejectGoal, GoalStep
<1>3. CASE SubmitGoal
  BY <1>1, <1>3 DEF SubmitGoal, GoalStep
<1>4. CASE GoalHolderMoves
  BY <1>1, <1>4 DEF GoalHolderMoves
<1>5. CASE WithdrawActiveGoal
  BY <1>1, <1>5 DEF WithdrawActiveGoal
<1> QED BY <1>2, <1>3, <1>4, <1>5

\* Every step keeps the types of what is no row.
LEMMA PlanningFrameType ==
  ASSUME PlanningTypeOK, [PlanningNext]_planningVars
  PROVE  /\ held' \subseteq Session /\ discarded' \subseteq Session
         /\ claim' \in Maybe(Session)
         /\ call' \in [Session -> Call]
         /\ holders' \subseteq Session
         /\ submitted' \in BOOLEAN /\ withdrawn' \in BOOLEAN
<1>1. /\ held \subseteq Session /\ discarded \subseteq Session
      /\ claim \in Maybe(Session)
      /\ call \in [Session -> Call]
      /\ holders \subseteq Session
      /\ submitted \in BOOLEAN /\ withdrawn \in BOOLEAN
  BY DEF PlanningTypeOK, Call
<1>2. CASE UNCHANGED planningVars
  BY <1>1, <1>2 DEF planningVars
<1>3. CASE \E s \in Session : SessionStep(s) /\ UNCHANGED <<ph, tc, tasks, goalSide>>
  BY <1>1, <1>3, PlanningSessionStep DEF goalSide
<1>4. CASE \E s \in Session : PlanningRead(s)
  <2>1. PICK s \in Session : PlanningRead(s)
    BY <1>4
  <2>2. call' \in [Session -> Call]
    BY <2>1, PlanningReadBegins, PlanningBeginType
  <2> QED BY <1>1, <2>1, <2>2, PlanningReadFrame DEF goalSide
<1>5. CASE \E s \in Session : PlanningCommit(s)
  BY <1>1, <1>5, PlanningCommitFrame, PlanningReturnType DEF goalSide
<1>6. CASE \/ \E s \in Session : RejectGoal(s)
           \/ SubmitGoal \/ GoalHolderMoves \/ WithdrawActiveGoal
  BY <1>1, <1>6, GoalMovesFrame
<1> QED
  BY <1>2, <1>3, <1>4, <1>5, <1>6 DEF PlanningNext

\* A plan that was submitted stays submitted, which is what makes the check
\* before the transaction of a receive good enough.
LEMMA ReceivesSubmittedStep ==
  ASSUME PlanningTypeOK, ReceivesSubmitted, [PlanningNext]_planningVars
  PROVE  ReceivesSubmitted'
<1>1. \A p \in Plan : ph[p].requestedBy # None => ph'[p].requestedBy # None
  <2>1. \A p \in Plan : ph[p] \in PlanRow /\ PlanMoves(p)
    BY RowsMove DEF PlanningTypeOK
  <2> QED BY <2>1, SessionAssumption DEF PlanMoves, PlanRow, NoPlan
<1>2. call \in [Session -> Call]
  BY DEF PlanningTypeOK, Call
<1>3. ASSUME \A t \in Session : call'[t] = call[t] \/ call'[t].op # "receiveReview"
      PROVE  ReceivesSubmitted'
  BY <1>1, <1>3 DEF ReceivesSubmitted, PlanCallFits
<1>4. ASSUME NEW s \in Session, Return(s) PROVE ReceivesSubmitted'
  BY <1>2, <1>3, <1>4 DEF Return, Idle
<1>5. ASSUME NEW s \in Session, PlanningRead(s) PROVE ReceivesSubmitted'
  <2>1. PICK op \in PlanningOps, h \in Maybe(Plan \cup TaskCreate),
             old \in Maybe(Session \cup Key) :
          /\ call' = [call EXCEPT ![s] = [op |-> op, h |-> h, old |-> old]]
          /\ PlanCallFits(op, h)
    BY <1>5, PlanningReadBegins DEF Begin
  <2>2. UNCHANGED ph
    BY <1>5, PlanningReadFrame
  <2> QED BY <1>2, <2>1, <2>2 DEF ReceivesSubmitted, PlanCallFits
<1>6. ASSUME NEW s \in Session, SessionStep(s) PROVE ReceivesSubmitted'
  <2>1. UNCHANGED call \/ Return(s) \/ Begin(s, "claimProject", None, claim)
    BY <1>6 DEF SessionStep, RenewLease, LapseLease, ClaimProjectRead,
       ClaimProjectCommit, ForceClaimProject, ReleaseProject, DiscardSession, Abort
  <2> QED BY <1>2, <1>3, <1>4, <2>1 DEF Begin
<1>7. CASE UNCHANGED call
  BY <1>3, <1>7
<1>8. \/ UNCHANGED call
      \/ \E s \in Session : SessionStep(s) \/ PlanningRead(s) \/ PlanningCommit(s)
  BY GoalMovesFrame DEF PlanningNext, planningVars
<1> QED BY <1>4, <1>5, <1>6, <1>7, <1>8, PlanningCommitFrame

\* Who reviews a plan reviews one that was submitted, and an id that was not
\* drawn yet has no outcome.
SubmittedBeforeReview ==
  \A p \in Plan : ph[p].receivedBy # None => ph[p].requestedBy # None

BlankUntilFiled ==
  \A h \in TaskCreate :
    tc[h].requestedBy = None => ~tc[h].completed /\ ~tc[h].recovered

PlanningInv ==
  /\ PlanningTypeOK
  /\ ReceivesSubmitted
  /\ PlanColumnsAgree
  /\ SubmittedBeforeReview
  /\ BlankUntilFiled
  /\ OneBatchPerHandoff

LEMMA PlanningInvInit == PlanningInit => PlanningInv
<1> SUFFICES ASSUME PlanningInit PROVE PlanningInv
  OBVIOUS
<1> USE DEF PlanningInit, SessionInit
<1>1. PlanningTypeOK
  BY DEF PlanningTypeOK, PlanningOps, Idle, NoPlan, PlanRow, NoTaskCreate,
     TaskCreateRow, Maybe
<1>2. ReceivesSubmitted
  BY DEF ReceivesSubmitted, PlanCallFits, Idle
<1>3. PlanColumnsAgree /\ SubmittedBeforeReview
  BY DEF PlanColumnsAgree, SubmittedBeforeReview, NoPlan
<1>4. BlankUntilFiled
  BY DEF BlankUntilFiled, NoTaskCreate
<1>5. OneBatchPerHandoff
  BY DirectAssumption DEF OneBatchPerHandoff
<1> QED BY <1>1, <1>2, <1>3, <1>4, <1>5 DEF PlanningInv

LEMMA PlanningInvStep ==
  ASSUME PlanningInv, [PlanningNext]_planningVars
  PROVE  PlanningInv'
<1> USE DEF PlanningInv
<1>1. /\ ph' \in [Plan -> PlanRow] /\ tc' \in [TaskCreate -> TaskCreateRow]
      /\ \A p \in Plan : PlanMoves(p) /\ ph[p] \in PlanRow
      /\ \A h \in TaskCreate : CreateMoves(h) /\ tc[h] \in TaskCreateRow
  BY RowsMove DEF PlanningTypeOK
<1>2. TasksMove /\ tasks' \in [Key -> Maybe(TaskCreate \cup {Direct})]
  BY TasksStep
<1>3. PlanningTypeOK'
  BY <1>1, <1>2, PlanningFrameType DEF PlanningTypeOK, Call
<1>4. ReceivesSubmitted'
  BY ReceivesSubmittedStep
<1>5. (PlanColumnsAgree /\ SubmittedBeforeReview)'
  <2>1. SUFFICES ASSUME NEW p \in Plan
                 PROVE  /\ ph'[p].rejected => ph'[p].receivedBy = None
                        /\ ph'[p].rejectionBy # None => ph'[p].rejected
                        /\ ph'[p].completed => ph'[p].receivedBy # None
                        /\ ph'[p].receivedBy # None => ph'[p].requestedBy # None
    BY DEF PlanColumnsAgree, SubmittedBeforeReview
  <2>2. /\ ph[p].rejected => ph[p].receivedBy = None
        /\ ph[p].rejectionBy # None => ph[p].rejected
        /\ ph[p].completed => ph[p].receivedBy # None
        /\ ph[p].receivedBy # None => ph[p].requestedBy # None
    BY DEF PlanColumnsAgree, SubmittedBeforeReview
  <2>3. PlanMoves(p) /\ ph[p] \in PlanRow
    BY <1>1
  <2> HIDE DEF PlanningInv
  <2> QED
    BY <2>2, <2>3, SessionAssumption
    DEF PlanMoves, PlanRow, NoPlan, Reviewable, UnderReviewBy, UnderReview
<1>6. BlankUntilFiled'
  BY <1>1, SessionAssumption
  DEF CreateMoves, TaskCreateRow, BlankUntilFiled, Receivable, OpenCreates, Filed
<1>7. OneBatchPerHandoff'
  <2>1. \A h \in TaskCreate : tc[h].completed /\ ~tc[h].recovered
                                => tc'[h].completed /\ ~tc'[h].recovered
    BY <1>1 DEF CreateMoves, TaskCreateRow, Receivable, OpenCreates, Filed
  <2>2. CASE \A k \in Key : tasks'[k] \in {tasks[k], Direct}
    BY <2>1, <2>2, DirectAssumption DEF OneBatchPerHandoff
  <2>3. ASSUME NEW h \in OpenCreates, NEW key \in Key,
               tc'[h] = [tc[h] EXCEPT !.completed = TRUE],
               tasks'[key] \in {tasks[key], h},
               \A k \in Key \ {key} : tasks'[k] = tasks[k]
        PROVE  OneBatchPerHandoff'
    <3>1. /\ h \in TaskCreate /\ ~tc[h].completed
          /\ tc'[h].completed /\ ~tc'[h].recovered
      BY <1>1, <2>3 DEF OpenCreates, Filed, TaskCreateRow
    <3>2. \A k \in Key : tasks[k] # h
      BY <3>1 DEF OneBatchPerHandoff
    <3>3. \A k \in Key : tasks'[k] = tasks[k] \/ (k = key /\ tasks'[k] = h)
      BY <2>3
    <3>4. ASSUME NEW k \in Key, tasks'[k] \in TaskCreate
          PROVE  tc'[tasks'[k]].completed /\ ~tc'[tasks'[k]].recovered
      BY <2>1, <3>1, <3>3, <3>4 DEF OneBatchPerHandoff
    <3>5. ASSUME NEW j \in Key, NEW k \in Key,
                 tasks'[j] = tasks'[k], tasks'[j] \in TaskCreate
          PROVE  j = k
      BY <3>2, <3>3, <3>5 DEF OneBatchPerHandoff
    <3> QED BY <3>4, <3>5 DEF OneBatchPerHandoff
  <2> QED BY <1>2, <2>2, <2>3 DEF TasksMove
<1> QED BY <1>3, <1>4, <1>5, <1>6, <1>7

LEMMA PlanningInvariant == PlanningSpec => []PlanningInv
BY PlanningInvInit, PlanningInvStep, PTL DEF PlanningSpec
-----------------------------------------------------------------------------
(* Theorems                                                                *)

\* The review columns of a plan agree in every order of the transactions of
\* goal_handoff.go.
THEOREM PlanColumnsSafe == PlanningSpec => []PlanColumnsAgree
BY PlanningInvariant, PTL DEF PlanningInv

\* The tasks of one acceptance are created at most once, by whoever holds its
\* handoff when it is completed (CreateTasksForHandoff).
THEOREM TasksCreatedOnce == PlanningSpec => []OneBatchPerHandoff
BY PlanningInvariant, PTL DEF PlanningInv

\* A completed plan is not touched by a late call, and neither is the outcome
\* of a task-create handoff.
LEMMA OutcomesStep ==
  ASSUME PlanningInv, [PlanningNext]_planningVars
  PROVE  KeepPlanningOutcomes
<1>1. /\ \A p \in Plan : PlanMoves(p) /\ ph[p] \in PlanRow
      /\ \A h \in TaskCreate : CreateMoves(h) /\ tc[h] \in TaskCreateRow
  BY RowsMove DEF PlanningInv, PlanningTypeOK
<1>2. ASSUME NEW p \in Plan, ph[p].completed PROVE ph'[p] = ph[p]
  BY <1>1, <1>2
  DEF PlanningInv, PlanMoves, Reviewable, UnderReviewBy, UnderReview,
      PlanColumnsAgree, SubmittedBeforeReview
<1>3. ASSUME NEW h \in Filed, h \notin OpenCreates
      PROVE  tc'[h].completed = tc[h].completed /\ tc'[h].recovered = tc[h].recovered
  BY <1>1, <1>3 DEF CreateMoves, Receivable, TaskCreateRow, Filed
<1> QED BY <1>2, <1>3 DEF KeepPlanningOutcomes

THEOREM PlanningOutcomesAreFinal == PlanningSpec => ClosedPlanningStaysClosed
<1>1. PlanningInv /\ [PlanningNext]_planningVars => [KeepPlanningOutcomes]_planningVars
  BY OutcomesStep
<1> QED BY <1>1, PlanningInvariant, PTL DEF PlanningSpec, ClosedPlanningStaysClosed

\* No recovery and no submission of the goal takes a task-create handoff from a
\* live receiver (RecoverTaskCreateHandoff).
LEMMA LiveCreatorsStep ==
  ASSUME PlanningInv, [PlanningNext]_planningVars
  PROVE  KeepLiveCreators
<1>1. \A h \in TaskCreate : CreateMoves(h) /\ tc[h] \in TaskCreateRow
  BY RowsMove DEF PlanningInv, PlanningTypeOK
<1> QED
  BY <1>1, SessionAssumption
  DEF KeepLiveCreators, CreateMoves, Receivable, TaskCreateRow, OpenCreates, Filed

THEOREM LiveCreatorsSafe == PlanningSpec => LiveReceiverCreatesTasks
<1>1. PlanningInv /\ [PlanningNext]_planningVars => [KeepLiveCreators]_planningVars
  BY LiveCreatorsStep
<1> QED BY <1>1, PlanningInvariant, PTL DEF PlanningSpec, LiveReceiverCreatesTasks
-----------------------------------------------------------------------------
(* An acceptance is not lost                                               *)

\* What files or completes a handoff leaves one to create tasks from.
LEMMA FiledIsCreatable ==
  ASSUME NEW STATE table, table \in [TaskCreate -> TaskCreateRow],
         NEW STATE s, s \in Session,
         NEW h \in TaskCreate, FileTaskCreate(table, s, h),
         ~table[h].completed, ~table[h].recovered
  PROVE  Creatable'
<1>1. tc'[h] = [table[h] EXCEPT !.requestedBy = s] /\ table[h] \in TaskCreateRow
  BY Filing
<1>2. tc'[h].requestedBy # None /\ ~tc'[h].completed /\ ~tc'[h].recovered
  BY <1>1, SessionAssumption DEF TaskCreateRow
<1> QED BY <1>2 DEF Creatable, OpenCreates, Filed

\* The acceptance of a plan files a handoff.
LEMMA AcceptanceFiles ==
  ASSUME NEW s \in Session, PlanningInv, CompleteCommit(s)
  PROVE  Creatable'
<1>1. PICK h \in TaskCreate : FileTaskCreate(tc, s, h)
  BY DEF CompleteCommit
<1>2. tc \in [TaskCreate -> TaskCreateRow]
  BY DEF PlanningInv, PlanningTypeOK
<1>3. ~tc[h].completed /\ ~tc[h].recovered
  BY <1>1 DEF FileTaskCreate, PlanningInv, BlankUntilFiled
<1> QED BY <1>1, <1>2, <1>3, FiledIsCreatable

\* A recovery files the replacement in the transaction that closes the handoff.
LEMMA RecoveryFiles ==
  ASSUME NEW s \in Session, PlanningInv, RecoverCreateCommit(s)
  PROVE  Creatable'
<1> DEFINE q     == call[s].h
           table == [tc EXCEPT ![q].recovered = TRUE]
<1>1. tc \in [TaskCreate -> TaskCreateRow] /\ held \subseteq Session
  BY DEF PlanningInv, PlanningTypeOK
<1>2. PICK x \in TaskCreate :
        /\ q \in OpenCreates /\ claim \in Session
        /\ FileTaskCreate(table, claim, x)
  BY <1>1 DEF RecoverCreateCommit, UnmovedSinceRead
<1>3. q \in TaskCreate /\ tc[q].requestedBy # None
  BY <1>2 DEF OpenCreates, Filed
<1>4. /\ table \in [TaskCreate -> TaskCreateRow]
      /\ table[q].requestedBy # None
      /\ \A h \in TaskCreate \ {q} : table[h] = tc[h]
  <2>1. [tc[q] EXCEPT !.recovered = TRUE] \in TaskCreateRow
    BY <1>1, <1>3 DEF TaskCreateRow
  <2> QED BY <1>1, <1>3, <2>1 DEF TaskCreateRow
<1> HIDE DEF q, table
<1>5. table[x].requestedBy = None
  BY <1>2 DEF FileTaskCreate
<1>6. ~table[x].completed /\ ~table[x].recovered
  BY <1>4, <1>5 DEF PlanningInv, BlankUntilFiled
<1> QED BY <1>2, <1>4, <1>6, FiledIsCreatable

\* Creating the tasks completes their handoff.
LEMMA CompletionIsCreatable ==
  ASSUME NEW s \in Session, PlanningInv, CreateCommit(s)
  PROVE  Creatable'
<1> DEFINE h == call[s].h
<1>1. h \in Filed /\ h \in TaskCreate /\ tc' = [tc EXCEPT ![h].completed = TRUE]
  BY DEF CreateCommit, CreatableBy, OpenCreates, Filed
<1>2. tc \in [TaskCreate -> TaskCreateRow]
  BY DEF PlanningInv, PlanningTypeOK
<1>3. tc'[h].completed /\ tc'[h].requestedBy = tc[h].requestedBy
  BY <1>1, <1>2 DEF TaskCreateRow
<1> QED BY <1>1, <1>3 DEF Creatable, Filed

\* A receive leaves the handoff open.
LEMMA ReceiveKeepsCreatable ==
  ASSUME NEW s \in Session, PlanningInv, ReceiveCreateCommit(s), Creatable
  PROVE  Creatable'
<1>1. tc \in [TaskCreate -> TaskCreateRow]
  BY DEF PlanningInv, PlanningTypeOK
<1>2. tc' = tc \/ tc' = [tc EXCEPT ![call[s].h].receivedBy = s]
  BY DEF ReceiveCreateCommit
<1>3. \A x \in TaskCreate : /\ tc'[x].requestedBy = tc[x].requestedBy
                            /\ tc'[x].completed = tc[x].completed
                            /\ tc'[x].recovered = tc[x].recovered
  BY <1>1, <1>2 DEF TaskCreateRow
<1> QED BY <1>3 DEF Creatable, OpenCreates, Filed

\* What leaves plans and task-create handoffs alone, and what accepts nothing,
\* loses no acceptance.
LEMMA AcceptanceStep ==
  ASSUME PlanningInv, [PlanningNext]_planningVars
  PROVE  KeepAcceptance
<1>1. (UNCHANGED tc) => (Creatable' <=> Creatable)
  BY DEF Creatable, OpenCreates, Filed
<1>2. ASSUME \A p \in Plan : ph'[p].completed => ph[p].completed
      PROVE  Accepted' => Accepted
  BY <1>2 DEF Accepted
<1>3. ASSUME NEW s \in Session,
             \/ RequestReviewCommit(s) \/ ReceiveReviewCommit(s) \/ RejectReviewCommit(s)
             \/ ReceiveRejectionCommit(s) \/ RecoverReviewCommit(s)
      PROVE  KeepAcceptance
  <2>1. ph \in [Plan -> PlanRow]
    BY DEF PlanningInv, PlanningTypeOK
  <2>2. UNCHANGED tc
    BY <1>3 DEF RequestReviewCommit, ReceiveReviewCommit, RejectReviewCommit,
       ReceiveRejectionCommit, RecoverReviewCommit
  <2>3. \A p \in Plan : ph'[p].completed => ph[p].completed
    BY <1>3, <2>1 DEF RequestReviewCommit, ReceiveReviewCommit, RejectReviewCommit,
       ReceiveRejectionCommit, RecoverReviewCommit, PlanRow, NoPlan
  <2> QED BY <1>1, <1>2, <2>2, <2>3 DEF KeepAcceptance
<1>4. ASSUME NEW s \in Session,
             CompleteCommit(s) \/ RecoverCreateCommit(s) \/ CreateCommit(s)
      PROVE  KeepAcceptance
  BY <1>4, AcceptanceFiles, RecoveryFiles, CompletionIsCreatable DEF KeepAcceptance
<1>5. ASSUME NEW s \in Session, ReceiveCreateCommit(s) PROVE KeepAcceptance
  <2>1. UNCHANGED ph
    BY <1>5 DEF ReceiveCreateCommit
  <2> QED BY <1>2, <1>5, <2>1, ReceiveKeepsCreatable DEF KeepAcceptance
<1>6. ASSUME NEW s \in Session, RejectGoal(s) PROVE KeepAcceptance
  <2>1. UNCHANGED ph
    BY <1>6 DEF RejectGoal, GoalStep
  <2>2. CASE OpenCreates = {}
    <3>1. PICK h \in TaskCreate : FileTaskCreate(tc, s, h)
      BY <1>6, <2>2 DEF RejectGoal
    <3>2. tc \in [TaskCreate -> TaskCreateRow] /\ ~tc[h].completed /\ ~tc[h].recovered
      BY <3>1 DEF FileTaskCreate, PlanningInv, PlanningTypeOK, BlankUntilFiled
    <3> QED BY <3>1, <3>2, FiledIsCreatable DEF KeepAcceptance
  <2>3. CASE OpenCreates # {}
    <3>1. UNCHANGED tc
      BY <1>6, <2>3 DEF RejectGoal
    <3> QED BY <1>1, <1>2, <2>1, <3>1 DEF KeepAcceptance
  <2> QED BY <2>2, <2>3
<1>7. CASE SubmitGoal
  BY <1>7 DEF SubmitGoal, KeepAcceptance
<1>8. CASE UNCHANGED <<ph, tc>>
  BY <1>1, <1>2, <1>8 DEF KeepAcceptance
<1>9. \/ UNCHANGED <<ph, tc>>
      \/ \E s \in Session : PlanningCommit(s) \/ RejectGoal(s)
      \/ SubmitGoal
  BY PlanningReadFrame
  DEF PlanningNext, planningVars, GoalHolderMoves, WithdrawActiveGoal
<1>10. \A s \in Session : CreateDirectlyCommit(s) => UNCHANGED <<ph, tc>>
  BY DEF CreateDirectlyCommit
<1> QED
  BY <1>3, <1>4, <1>5, <1>6, <1>7, <1>8, <1>9, <1>10 DEF PlanningCommit

\* From the acceptance of a plan on there is a request to create its tasks that
\* is open or was completed, until the goal is submitted (CompletePlanHandoff).
THEOREM AcceptanceIsKept == PlanningSpec => AcceptanceIsNotLost
<1>1. PlanningInv /\ [PlanningNext]_planningVars => [KeepAcceptance]_planningVars
  BY AcceptanceStep
<1> QED BY <1>1, PlanningInvariant, PTL DEF PlanningSpec, AcceptanceIsNotLost
=============================================================================
