------------------------------ MODULE GoalReview ------------------------------
(***************************************************************************)
(* The human side of a goal: the decisions filed on it, the human review   *)
(* of a delegated goal, its finalization and its withdrawal, together with *)
(* the goal handoffs they are tied to.                                     *)
(*                                                                         *)
(* A receive hands the goal's unapplied decisions to the new receiver and  *)
(* a submission is refused while a decision is open, so those two commits  *)
(* are extended here.  Answering is the human's, through the dashboard or  *)
(* quoted in the chat: whatever was read before, each answer is decided by *)
(* one UPDATE that asks for an open decision, so it is one step.           *)
(***************************************************************************)
EXTENDS GoalHandoff, SequencesExt

CONSTANT MaxDecisions   \* bound: decisions filed on the goal

ASSUME MaxDecisionsAssumption == MaxDecisions \in Nat

VARIABLES goal,       \* goals.status
          decisions,  \* the goal's rows of decisions, in order of id
          order       \* goal handoffs in order of requested_at

reviewVars == <<held, discarded, claim, call, gh, goal, decisions, order>>

GoalStatus == {"active", "done", "dropped"}

DecisionRow ==
  [kind   : {"ask", "review"},
   status : {"open", "answered", "applied", "withdrawn"},
   label  : {"none", "approve", "reject", "chosen"},
   by     : Session,            \* agent_session_id
   after  : SUBSET Handoff]     \* handoffs submitted since the rejection

NewDecision(kind, s) ==
  [kind |-> kind, status |-> "open", label |-> "none", by |-> s, after |-> {}]

Filed(status)    == {i \in DOMAIN decisions : decisions[i].status = status}
OpenDecisions    == Filed("open")
Reviews          == {i \in DOMAIN decisions : decisions[i].kind = "review"}
Asks             == DOMAIN decisions \ Reviews
ApprovedReviews  == {i \in Reviews \cap Filed("applied") :
                       decisions[i].label = "approve"}
IsLatestReview(i) == i \in Reviews /\ \A j \in Reviews : j <= i

\* latestDelegatedGoalHandoff: every delegation counts, closed ones too.
IsLatestDelegation(h) ==
  \E n \in DOMAIN order :
    /\ order[n] = h
    /\ IsDelegation(h)
    /\ \A m \in DOMAIN order : m > n => ~IsDelegation(order[m])

\* goalHandoffHasCommanderReviewReceipt on a handoff not yet completed.
AwaitsHuman(h) ==
  /\ ~Completed(h)
  /\ gh[h].reviewReceivedBy # None
  /\ gh[h].reviewRequestedBy # None
  /\ gh[h].reviewRequestedBy = gh[h].receivedBy

ReviewInit ==
  /\ HandoffInit
  /\ goal = "active"
  /\ decisions = <<>>
  /\ order = <<>>

File(d) ==
  /\ Len(decisions) < MaxDecisions
  /\ decisions' = Append(decisions, d)

\* Every update of a decision keeps the others as they are.
Settle(I, status, label) ==
  decisions' = [i \in DOMAIN decisions |->
                  IF i \in I
                  THEN [decisions[i] EXCEPT !.status = status, !.label = label]
                  ELSE decisions[i]]
-----------------------------------------------------------------------------
(* The handoff transactions that also touch decisions or the order         *)

Request(s) ==
  /\ RequestCommit(s) \/ ClaimGoalRequest(s)
  /\ order' = IF Requested(call[s].h) THEN order
              ELSE Append(order, call[s].h)
  /\ UNCHANGED <<goal, decisions>>

\* Mutant: the former receivers are read after the row was updated.
FormerReceiversTooLate(s) == {gh'[h].receivedBy : h \in Handoff} \ {None, s}

\* ReassignGoalDecisionsToReceiver runs before the row gets its new receiver,
\* and not at all when the receiver repeats its own receive.
FormerReceivers(s) == {gh[h].receivedBy : h \in Handoff} \ {None, s}

Receive(s) ==
  /\ ReceiveCommit(s)
  /\ decisions' =
       IF gh[call[s].h].receivedBy = s THEN decisions
       ELSE [i \in DOMAIN decisions |->
               IF /\ i \in Filed("open") \cup Filed("answered")
                  /\ decisions[i].by \in FormerReceivers(s)
               THEN [decisions[i] EXCEPT !.by = s] ELSE decisions[i]]
  /\ UNCHANGED <<goal, order>>

\* RequestGoalHandoffReview counts the open decisions inside its transaction.
Submit(s) ==
  /\ OpenDecisions = {}
  /\ RequestReviewCommit(s)
  /\ decisions' =
       [i \in DOMAIN decisions |->
          IF decisions[i].label = "reject"
          THEN [decisions[i] EXCEPT !.after = @ \cup {call[s].h}]
          ELSE decisions[i]]
  /\ UNCHANGED <<goal, order>>
-----------------------------------------------------------------------------
(* goal.review.request                                                     *)

\* A rejected review asks for a submission made after the rejection, but only
\* while it is unapplied: the check wants the status "answered".
Resubmitted(h) ==
  \A i \in Filed("answered") :
    IsLatestReview(i) /\ decisions[i].label = "reject" => h \in decisions[i].after

RequestGoalReviewRead(s) ==
  /\ IsCommander(s)
  /\ goal = "active"
  /\ \A i \in OpenDecisions : ~IsLatestReview(i)
  /\ \E h \in Handoff :
       /\ IsLatestDelegation(h)
       /\ AwaitsHuman(h)
       /\ gh[h].reviewReceivedBy = s
       /\ HoldsLiveClaim(s)
       /\ Resubmitted(h)
       /\ Begin(s, "requestGoalReview", h, None)
  /\ UNCHANGED <<held, discarded, claim, gh, goal, decisions, order>>

RequestGoalReviewCommit(s) ==
  /\ Doing(s, "requestGoalReview")
  /\ OpenDecisions = {}
  /\ goal = "active"
  /\ File(NewDecision("review", s))
  /\ Return(s)
  /\ UNCHANGED <<held, discarded, claim, gh, goal, order>>

(* goal.review.complete                                                    *)

FinalizeRead(s) ==
  /\ IsCommander(s)
  /\ goal = "active"
  /\ \E h \in Handoff :
       /\ IsLatestDelegation(h)
       /\ AwaitsHuman(h)
       /\ HoldsLiveClaim(s)
       /\ Begin(s, "finalize", h, gh[h].reviewReceivedBy)
  /\ UNCHANGED <<held, discarded, claim, gh, goal, decisions, order>>

\* Mutant: the finalization does not look for an approved review.
FinalizeUnapproved(s) ==
  /\ Doing(s, "finalize")
  /\ OpenDecisions = {}
  /\ CompleteByReviewerTx(call[s].h, call[s].old)
  /\ goal = "active"
  /\ goal' = "done"
  /\ Return(s)
  /\ UNCHANGED <<held, discarded, claim, decisions, order>>

\* Mutant: the finalization counts no open decisions.
FinalizeWhilePending(s) ==
  /\ Doing(s, "finalize")
  /\ ApprovedReviews # {}
  /\ CompleteByReviewerTx(call[s].h, call[s].old)
  /\ goal = "active"
  /\ goal' = "done"
  /\ Return(s)
  /\ UNCHANGED <<held, discarded, claim, decisions, order>>

FinalizeCommit(s) ==
  /\ Doing(s, "finalize")
  /\ OpenDecisions = {}
  /\ ApprovedReviews # {}
  /\ CompleteByReviewerTx(call[s].h, call[s].old)
  /\ goal = "active"
  /\ goal' = "done"
  /\ Return(s)
  /\ UNCHANGED <<held, discarded, claim, decisions, order>>
-----------------------------------------------------------------------------
(* The human's answers, and what sessions do with decisions                *)

ApproveGoalReview(i) ==
  /\ i \in OpenDecisions \cap Reviews
  /\ goal = "active"
  /\ Settle({i}, "applied", "approve")
  /\ UNCHANGED <<handoffVars, goal, order>>

RejectGoalReview(i) ==
  /\ i \in OpenDecisions \cap Reviews
  /\ Settle({i}, "answered", "reject")
  /\ UNCHANGED <<handoffVars, goal, order>>

AnswerDecision(i) ==
  /\ i \in OpenDecisions \cap Asks
  /\ Settle({i}, "answered", "chosen")
  /\ UNCHANGED <<handoffVars, goal, order>>

\* The maintenance tick settles every ask whose default is due, at once.
ApplyExpiredDefaults ==
  \E due \in SUBSET (OpenDecisions \cap Asks) :
    /\ due # {}
    /\ Settle(due, "answered", "chosen")
    /\ UNCHANGED <<handoffVars, goal, order>>

\* The dashboard reopens the question of a settled decision as a new one of
\* the same kind and the same session, whatever became of the goal.
ReviseDecision(i) ==
  /\ i \in Filed("answered") \cup Filed("applied")
  /\ File(NewDecision(decisions[i].kind, decisions[i].by))
  /\ UNCHANGED <<handoffVars, goal, order>>

\* decision.ask is refused to a subcommander and looks at no goal status.
AskDecision(s) ==
  /\ call[s] = Idle
  /\ claim = s \/ ~HoldsGoal(s)
  /\ File(NewDecision("ask", s))
  /\ UNCHANGED <<handoffVars, goal, order>>

\* decision.withdraw has no role of its own, and takes reviews too.
WithdrawDecision(i) ==
  /\ i \in OpenDecisions
  /\ Settle({i}, "withdrawn", "none")
  /\ UNCHANGED <<handoffVars, goal, order>>

MarkApplied(I) ==
  /\ I # {}
  /\ decisions' = [i \in DOMAIN decisions |->
                     IF i \in I THEN [decisions[i] EXCEPT !.status = "applied"]
                     ELSE decisions[i]]
  /\ UNCHANGED <<handoffVars, goal, order>>

\* decision.poll without an id takes every answer of the caller's own.
PollDecisions(s) ==
  /\ call[s] = Idle
  /\ MarkApplied({i \in Filed("answered") : decisions[i].by = s})

\* With an id, a commander only reads another session's ask on an active goal;
\* reviews are routed to the commander.
PollDecision(s, i) ==
  /\ call[s] = Idle
  /\ claim = s => \/ decisions[i].by = s
                  \/ i \in Reviews
                  \/ goal # "active"
  /\ i \in Filed("answered")
  /\ MarkApplied({i})

\* goal.withdraw, also a button of the dashboard.
WithdrawActiveGoal ==
  /\ goal = "active"
  /\ goal' = "dropped"
  /\ Settle(OpenDecisions, "withdrawn", "none")
  /\ UNCHANGED <<handoffVars, order>>
-----------------------------------------------------------------------------
HumanStep ==
  \/ ApplyExpiredDefaults
  \/ WithdrawActiveGoal
  \/ \E i \in DOMAIN decisions : \/ ApproveGoalReview(i)
                                 \/ RejectGoalReview(i)
                                 \/ AnswerDecision(i)
                                 \/ ReviseDecision(i)
                                 \/ WithdrawDecision(i)

ReviewNext ==
  \/ HumanStep
  \/ \E s \in Session :
       \/ /\ \/ SessionStep(s) /\ UNCHANGED gh
             \/ HandoffRead(s)
             \/ PlainCommit(s)
          /\ UNCHANGED <<goal, decisions, order>>
       \/ Request(s)
       \/ Receive(s)
       \/ Submit(s)
       \/ RequestGoalReviewRead(s)
       \/ RequestGoalReviewCommit(s)
       \/ FinalizeRead(s)
       \/ FinalizeCommit(s)
       \/ AskDecision(s)
       \/ PollDecisions(s)
       \/ \E i \in DOMAIN decisions : PollDecision(s, i)

ReviewSpec == ReviewInit /\ [][ReviewNext]_reviewVars
-----------------------------------------------------------------------------
(* Properties                                                              *)

\* Every variable stays in its type, and the order lists each requested handoff
\* once.
ReviewTypeOK ==
  /\ TypeOK
  /\ goal \in GoalStatus
  /\ Len(decisions) <= MaxDecisions
  /\ \A i \in DOMAIN decisions : decisions[i] \in DecisionRow
  /\ order \in Seq(Handoff)
  /\ IsInjective(order)
  /\ ToSet(order) = {h \in Handoff : Requested(h)}

\* A done goal was approved by the human and has the completed handoff whose
\* submission the commander received: finalization moves both rows or neither
\* (FinalizeGoalReview), whatever is revised, withdrawn or received later.
DoneWasReviewed ==
  goal = "done" =>
    /\ ApprovedReviews # {}
    /\ \E h \in Handoff : /\ gh[h].report = "completed"
                          /\ gh[h].reviewReceivedBy # None
                          /\ gh[h].reviewRequestedBy # None

\* The goal becomes done only in a step that finds no open decision and closes
\* the goal's one open handoff, whose submission stands received and unrejected
\* at that very moment, although the caller chose it in an earlier read.
FinalizeClosesReviewedHandoff ==
  [][goal = "active" /\ goal' = "done" =>
       /\ OpenDecisions = {}
       /\ \E h \in Handoff : /\ OpenHandoffs = {h}
                             /\ gh'[h].report = "completed"
                             /\ gh[h].reviewReceivedBy # None
                             /\ ~gh[h].reviewRejected]_reviewVars

Lifecycle == INSTANCE GoalLifecycle
               WITH pending <- OpenDecisions # {},
                    approved <- ApprovedReviews # {}

\* Through every interleaving of sessions and human, and with decisions revised
\* or withdrawn at any time, the goal goes through GoalLifecycle.
ImplementsLifecycle == Lifecycle!LifecycleSpec

\* When a lapsed receiver is replaced, every decision it still waits for goes
\* to its successor in the same transaction (ReassignGoalDecisionsToReceiver
\* runs "Before the receive rewrites goal_handoffs.received_by").
DecisionsFollowTakeover ==
  [][\A h \in Handoff :
       LET old == gh[h].receivedBy IN
       old # None /\ gh'[h].receivedBy # old =>
         \A i \in DOMAIN decisions' :
           decisions'[i].status \in {"open", "answered"}
             => decisions'[i].by # old]_reviewVars

\* goal-review-handoff-lifecycle spec: "Finalization before approval, after
\* rejection, or after the handoff was rejected leaves both records unchanged."
RejectionStopsFinalization ==
  [][\A i \in Reviews :
       goal = "active" /\ goal' = "done" /\ IsLatestReview(i)
         => decisions[i].label # "reject"]_reviewVars

=============================================================================
