------------------------------- MODULE Advice --------------------------------
(***************************************************************************)
(* What the daemon tells a project to do next, and whether work that       *)
(* follows the advice ends.  One goal is carried through its calls: the    *)
(* commander C requests and reviews, the holder S of the goal handoff      *)
(* plans and delegates, executors E work, a person answers.  From the rows *)
(* the daemon derives the next action (goal_next_action.go), the wakeup    *)
(* lists (wakeup.go) and whether a session may stop (StopCheck).           *)
(*                                                                         *)
(* Every call is one step here: the handoff modules interleave its reads   *)
(* and its transaction.  Deviations are steps outside the ordinary flow;   *)
(* Deviation names the kinds an instance allows and MaxOdd bounds them.    *)
(***************************************************************************)
EXTENDS WatchScope, TLC

CONSTANTS Deviation,  \* kinds of deviation that may happen
          MaxOdd      \* bound: how many of them

DeviationKinds == {"recover.task", "recover.goal", "drop", "ask", "withdraw"}
ASSUME DeviationAssumption == Deviation \subseteq DeviationKinds
ASSUME MaxOddAssumption == MaxOdd \in Nat
\* The bound leaves everything its first submission.
ASSUME SubmissionAssumption == MaxGen >= 1

VARIABLES
  board,   \* the rows of the goal
  status,  \* tasks.status, "absent" before the task is created
  past,    \* tasks with a recovered row that was received
  odd      \* deviations left

adviceVars == <<board, status, past, odd>>

TaskStatuses == {"absent", "todo", "doing", "review", "done", "dropped"}
Created == {t \in Task : status[t] # "absent"}
ActiveTasks == {t \in Created : status[t] # "dropped"}

NoHandoff == [phase |-> "none", gen |-> 0, lost |-> FALSE]
NoReviewYet == [status |-> "none", label |-> "", gen |-> 0]
NoQuestion == [status |-> "none", role |-> "executor", task |-> NoTask,
               byDefault |-> FALSE, old |-> FALSE]

NewBoard ==
  [goal |-> "active", gh |-> NoHandoff, ph |-> NoHandoff,
   th |-> [t \in Task |-> NoHandoff], tc |-> "none", ask |-> NoQuestion,
   review |-> NoReviewYet, others |-> {}]

AdviceInit ==
  /\ board = NewBoard
  /\ status = [t \in Task |-> "absent"]
  /\ past = {}
  /\ odd = MaxOdd

-----------------------------------------------------------------------------
(* The next action.                                                        *)

\* The actor and the call of every code.
NextActionSpecs ==
  [human_review       |-> [actor |-> "human", call |-> ""],
   human_decision     |-> [actor |-> "human", call |-> ""],
   commander_complete |-> [actor |-> "commander", call |-> "goal.review.complete"],
   commander_reject_handoff |->
     [actor |-> "commander", call |-> "goal.handoff.review.reject"],
   commander_request_handoff |->
     [actor |-> "commander", call |-> "goal.handoff.request"],
   subcommander_receive_handoff |->
     [actor |-> "subcommander", call |-> "goal.handoff.receive"],
   subcommander_receive_rejection |->
     [actor |-> "subcommander", call |-> "goal.handoff.review.reject.receive"],
   commander_receive_goal_review |->
     [actor |-> "commander", call |-> "goal.handoff.review.receive"],
   commander_review_goal |-> [actor |-> "commander", call |-> "goal.review.request"],
   subcommander_plan |->
     [actor |-> "subcommander", call |-> "plan.handoff.review.request"],
   subcommander_receive_plan_rejection |->
     [actor |-> "subcommander", call |-> "plan.handoff.review.reject.receive"],
   commander_receive_plan_review |->
     [actor |-> "commander", call |-> "plan.handoff.review.receive"],
   commander_review_plan |-> [actor |-> "commander", call |-> "plan.handoff.complete"],
   subcommander_review_task |->
     [actor |-> "subcommander", call |-> "task.handoff.review.receive"],
   subcommander_delegate_task |->
     [actor |-> "subcommander", call |-> "task.handoff.request"],
   executor_receive_task |-> [actor |-> "executor", call |-> "task.handoff.receive"],
   executor_implement |->
     [actor |-> "executor", call |-> "task.handoff.review.request"],
   subcommander_request_goal_review |->
     [actor |-> "subcommander", call |-> "goal.handoff.review.request"],
   executor_work |->
     [actor |-> "subcommander", call |-> "goal.handoff.review.request"]]

NobodyActs == [actor |-> "", call |-> ""]

\* The human answered the latest review with a rejection that the commander
\* still has to return: the received submission is the one that was reviewed.
RejectedPendingHandoffReject ==
  /\ board.review.status = "answered"
  /\ board.review.label = "reject"
  /\ board.gh.phase = "reviewing"
  /\ board.gh.gen <= board.review.gen

\* Mutant: a submission is looked at only once it is received.
derivePlanOfReceiver ==
  CASE board.ph.phase = "completed" -> "executor_work"
    [] board.ph.phase = "rejected"  -> "subcommander_receive_plan_rejection"
    [] board.ph.phase = "reviewing" -> "commander_review_plan"
    [] OTHER                        -> "subcommander_plan"

\* Mutant: the receipt of the rejection does not count.
derivePlanRejected ==
  CASE board.ph.phase = "completed" -> "executor_work"
    [] board.ph.phase = "none"      -> "subcommander_plan"
    [] board.ph.phase = "submitted" -> "commander_receive_plan_review"
    [] OTHER                        -> "commander_review_plan"

derivePlanNextAction ==
  CASE board.ph.phase = "completed"            -> "executor_work"
    [] board.ph.phase \in {"none", "acknowledged"} -> "subcommander_plan"
    [] board.ph.phase = "rejected"             -> "subcommander_receive_plan_rejection"
    [] board.ph.phase = "submitted"            -> "commander_receive_plan_review"
    [] OTHER                                   -> "commander_review_plan"

\* Mutant: a task that nobody received yet is nobody's turn.
deriveTaskOfWorkers ==
  IF \E t \in ActiveTasks : status[t] = "review" THEN "subcommander_review_task"
  ELSE IF \E t \in ActiveTasks : status[t] = "todo" /\ ~Open(board.th[t])
    THEN "subcommander_delegate_task"
  ELSE IF \E t \in ActiveTasks : status[t] = "doing" THEN "executor_implement"
  ELSE IF \A t \in ActiveTasks : status[t] = "done"
    THEN "subcommander_request_goal_review"
  ELSE ""

\* By status priority, not by task order.
deriveTaskNextAction ==
  IF \E t \in ActiveTasks : status[t] = "review" THEN "subcommander_review_task"
  ELSE IF \E t \in ActiveTasks : status[t] = "todo" /\ ~Open(board.th[t])
    THEN "subcommander_delegate_task"
  ELSE IF \E t \in ActiveTasks : status[t] = "todo" /\ board.th[t].phase = "requested"
    THEN "executor_receive_task"
  ELSE IF \E t \in ActiveTasks : status[t] = "doing" THEN "executor_implement"
  ELSE IF \A t \in ActiveTasks : status[t] = "done"
    THEN "subcommander_request_goal_review"
  ELSE ""

\* The goal's end, an open decision, the answered review, the goal handoff,
\* and then the plan or the tasks.
deriveNextAction ==
  IF Stopped(board) THEN ""
  ELSE IF board.review.status = "open" THEN "human_review"
  ELSE IF board.ask.status = "open" THEN "human_decision"
  ELSE IF Approved(board) THEN "commander_complete"
  ELSE IF RejectedPendingHandoffReject THEN "commander_reject_handoff"
  ELSE IF ~Open(board.gh) THEN "commander_request_handoff"
  ELSE IF board.gh.phase = "requested" THEN "subcommander_receive_handoff"
  ELSE IF board.gh.phase = "rejected" THEN "subcommander_receive_rejection"
  ELSE IF board.gh.phase = "submitted" THEN "commander_receive_goal_review"
  ELSE IF board.gh.phase = "reviewing" THEN "commander_review_goal"
  ELSE IF ActiveTasks = {} THEN derivePlanNextAction
  ELSE deriveTaskNextAction

NextAction ==
  IF deriveNextAction = "" THEN NobodyActs ELSE NextActionSpecs[deriveNextAction]

-----------------------------------------------------------------------------
(* Calls of the commander.                                                 *)

Active == ~Stopped(board)
HasOpenDecision == board.ask.status = "open" \/ board.review.status = "open"

\* A reviewer sends work back only while the bound leaves a submission to
\* answer with.
Again(h) == h.gen < MaxGen

\* A submission counts up the generation of its row.
Submitted(h) == [h EXCEPT !.phase = "submitted", !.gen = @ + 1]

Call(b) ==
  /\ Active
  /\ board' = b
  /\ UNCHANGED <<status, past, odd>>

TaskCall(t, phase, s) ==
  /\ Active
  /\ board' = [board EXCEPT !.th[t].phase = phase]
  /\ status' = [status EXCEPT ![t] = s]
  /\ UNCHANGED <<past, odd>>

RequestGoalHandoff ==
  /\ ~Open(board.gh)
  /\ Call([board EXCEPT !.gh.phase = "requested"])

ReceivePlanReview ==
  /\ board.ph.phase = "submitted"
  /\ Call([board EXCEPT !.ph.phase = "reviewing"])

MayRejectPlan == board.ph.phase = "reviewing" /\ Again(board.ph)

RejectPlan ==
  /\ MayRejectPlan
  /\ Call([board EXCEPT !.ph.phase = "rejected"])

\* The acceptance files the task-create handoff in the same transaction, and
\* is refused as a whole while another one is open.
MayCompletePlan ==
  board.ph.phase = "reviewing" /\ board.tc \notin {"requested", "received"}

CompletePlan ==
  /\ MayCompletePlan
  /\ Call([board EXCEPT !.ph.phase = "completed", !.tc = "requested"])

ReceiveGoalReview ==
  /\ board.gh.phase = "submitted"
  /\ Call([board EXCEPT !.gh.phase = "reviewing"])

MayRejectGoalHandoff ==
  /\ board.gh.phase = "reviewing"
  /\ board.review.status # "open" /\ ~Approved(board)
  /\ Again(board.gh)

\* A rejection files a task-create handoff for the rework unless one is open.
WithGoalHandoffRejected ==
  [board EXCEPT !.gh.phase = "rejected",
                !.tc = IF @ = "received" THEN @ ELSE "requested"]

RejectGoalHandoff ==
  /\ MayRejectGoalHandoff
  /\ Call(WithGoalHandoffRejected)

MayRequestGoalReview ==
  /\ board.gh.phase = "reviewing"
  /\ ~HasOpenDecision /\ ~Approved(board)
  /\ board.review.status = "answered" => board.gh.gen > board.review.gen

RequestGoalReview ==
  /\ MayRequestGoalReview
  /\ Call([board EXCEPT !.review = [status |-> "open", label |-> "", gen |-> board.gh.gen]])

MayCompleteGoalReview ==
  board.gh.phase = "reviewing" /\ Approved(board) /\ ~HasOpenDecision

CompleteGoalReview ==
  /\ MayCompleteGoalReview
  /\ Call([board EXCEPT !.gh.phase = "completed", !.goal = "stopped"])

-----------------------------------------------------------------------------
(* Calls of the holder of the goal handoff.                                *)

HoldsGoalHandoff == Open(board.gh) /\ board.gh.phase # "requested"

ReceiveGoalHandoff ==
  /\ board.gh.phase = "requested"
  /\ Call([board EXCEPT !.gh.phase = "received"])

MayRequestPlanReview ==
  /\ HoldsGoalHandoff
  /\ board.ph.phase \in {"none", "acknowledged"}
  /\ Again(board.ph)

RequestPlanReview ==
  /\ MayRequestPlanReview
  /\ Call([board EXCEPT !.ph = Submitted(@)])

MayReceivePlanRejection == HoldsGoalHandoff /\ board.ph.phase = "rejected"

ReceivePlanRejection ==
  /\ MayReceivePlanRejection
  /\ Call([board EXCEPT !.ph.phase = "acknowledged"])

ReceiveTaskCreate ==
  /\ HoldsGoalHandoff
  /\ board.tc = "requested"
  /\ Call([board EXCEPT !.tc = "received"])

\* One task.create registers the tasks it lists and closes the handoff.
CreateTasks ==
  /\ HoldsGoalHandoff
  /\ board.tc = "received"
  /\ Active
  /\ \E new \in SUBSET {t \in Task : status[t] = "absent"} :
       /\ new # {}
       /\ status' = [t \in Task |-> IF t \in new THEN "todo" ELSE status[t]]
  /\ board' = [board EXCEPT !.tc = "completed"]
  /\ UNCHANGED <<past, odd>>

\* The request writes a new row, also for a task that was recovered.
MayRequestTaskHandoff(t) ==
  /\ HoldsGoalHandoff
  /\ status[t] \in {"todo", "doing", "review"}
  /\ ~Open(board.th[t])

RequestTaskHandoff(t) ==
  /\ MayRequestTaskHandoff(t)
  /\ TaskCall(t, "requested", "todo")

MayReceiveTaskReview(t) == HoldsGoalHandoff /\ board.th[t].phase = "submitted"

ReceiveTaskReview(t) ==
  /\ MayReceiveTaskReview(t)
  /\ TaskCall(t, "reviewing", "review")

RejectTask(t) ==
  /\ HoldsGoalHandoff
  /\ board.th[t].phase = "reviewing"
  /\ Again(board.th[t])
  /\ TaskCall(t, "rejected", "doing")

MayCompleteTask(t) ==
  /\ HoldsGoalHandoff
  /\ board.th[t].phase = "reviewing"
  /\ ~(board.ask.status = "open" /\ board.ask.task = t)

CompleteTask(t) ==
  /\ MayCompleteTask(t)
  /\ TaskCall(t, "completed", "done")

MayRequestHandoffReview ==
  /\ board.gh.phase \in {"received", "acknowledged"}
  /\ ~HasOpenDecision
  /\ Again(board.gh)

\* A task-create handoff that nobody received is superseded.
WithHandoffSubmitted ==
  [board EXCEPT !.gh = Submitted(@),
                !.tc = IF @ = "requested" THEN "none" ELSE @]

\* The ordinary flow submits work of an accepted plan.  The store does not ask.
PlanAccepted == board.ph.phase = "completed"

RequestHandoffReview ==
  /\ MayRequestHandoffReview
  /\ PlanAccepted
  /\ Call(WithHandoffSubmitted)

ReceiveGoalRejection ==
  /\ board.gh.phase = "rejected"
  /\ Call([board EXCEPT !.gh.phase = "acknowledged"])

-----------------------------------------------------------------------------
(* Calls of the executor of a task, and of people.                         *)

ReceiveTaskHandoff(t) ==
  /\ board.th[t].phase = "requested"
  /\ TaskCall(t, "received", "doing")

MayRequestTaskReview(t) ==
  board.th[t].phase \in {"received", "acknowledged"} /\ Again(board.th[t])

RequestTaskReview(t) ==
  /\ MayRequestTaskReview(t)
  /\ Active
  /\ board' = [board EXCEPT !.th[t] = Submitted(@)]
  /\ status' = [status EXCEPT ![t] = "review"]
  /\ UNCHANGED <<past, odd>>

ReceiveTaskRejection(t) ==
  /\ board.th[t].phase = "rejected"
  /\ TaskCall(t, "acknowledged", status[t])

\* The executor that asked polls the answer.
PollAnswer ==
  /\ board.ask.status = "answered"
  /\ Call([board EXCEPT !.ask.status = "applied"])

AnswerReview ==
  \E b \in ReviewAnswers(board) :
    /\ b.review.label = "reject" => Again(board.gh)
    /\ Call(b)

\* The default is applied by the maintenance tick.
AnswerQuestion ==
  \E d \in BOOLEAN :
    /\ board.ask.status = "open"
    /\ Call([board EXCEPT !.ask.status = "answered", !.ask.byDefault = d])

AnswerGrowsOld ==
  /\ board.ask.status = "answered" /\ ~board.ask.old
  /\ board' = [board EXCEPT !.ask.old = TRUE]
  /\ UNCHANGED <<status, past, odd>>

-----------------------------------------------------------------------------
(* Deviations.                                                             *)

Deviate(kind, b) ==
  /\ Active
  /\ kind \in Deviation
  /\ odd > 0
  /\ odd' = odd - 1
  /\ board' = b

\* The executor went away before or after it received the task.  The row keeps
\* what was filled of it and the task keeps its status.
RecoverTaskHandoff(t) ==
  /\ HoldsGoalHandoff
  /\ Open(board.th[t]) /\ board.th[t].phase # "reviewing"
  /\ Again(board.th[t])
  /\ Deviate("recover.task", [board EXCEPT !.th[t].phase = "recovered"])
  /\ past' = IF board.th[t].phase = "requested" THEN past ELSE past \cup {t}
  /\ UNCHANGED status

\* A reviewer that went away gives the submission back; a holder that went
\* away gives the goal back.
RecoverGoalHandoff ==
  /\ Open(board.gh)
  /\ Again(board.gh)
  /\ board.tc # "received"
  /\ \A t \in Task : board.th[t].phase # "reviewing"
  /\ Deviate("recover.goal",
             [board EXCEPT !.gh.phase = IF @ = "reviewing" THEN "submitted" ELSE "recovered"])
  /\ UNCHANGED <<status, past>>

\* task.update releases the row of the executor with the status it writes.
DropTask(t) ==
  /\ status[t] \in {"todo", "doing"}
  /\ Deviate("drop",
             [board EXCEPT !.th[t].phase =
                IF @ \in {"received", "rejected", "acknowledged"} THEN "completed" ELSE @])
  /\ status' = [status EXCEPT ![t] = "dropped"]
  /\ UNCHANGED past

AskQuestion(t) ==
  /\ board.th[t].phase \in {"received", "acknowledged"}
  /\ board.ask.status = "none"
  /\ Deviate("ask", [board EXCEPT !.ask.status = "open", !.ask.task = t])
  /\ UNCHANGED <<status, past>>

Withdraw ==
  /\ Deviate("withdraw", WithdrawnGoal(board))
  /\ UNCHANGED <<status, past>>

-----------------------------------------------------------------------------
CommanderCalls ==
  \/ RequestGoalHandoff
  \/ ReceivePlanReview
  \/ RejectPlan
  \/ CompletePlan
  \/ ReceiveGoalReview
  \/ RejectGoalHandoff
  \/ RequestGoalReview
  \/ CompleteGoalReview

\* The holder's calls about rows that are open or not yet written.
SubcommanderCalls ==
  \/ ReceiveGoalHandoff
  \/ RequestPlanReview
  \/ ReceivePlanRejection
  \/ ReceiveTaskCreate
  \/ CreateTasks
  \/ RequestHandoffReview
  \/ ReceiveGoalRejection
  \/ \E t \in Task : \/ board.th[t].phase = "none" /\ RequestTaskHandoff(t)
                     \/ ReceiveTaskReview(t)
                     \/ RejectTask(t)
                     \/ CompleteTask(t)

\* A task whose row was recovered is requested again.
Reassign ==
  \E t \in Task : /\ board.th[t].phase = "recovered"
                 /\ RequestTaskHandoff(t)

ExecutorCalls ==
  \E t \in Task : \/ ReceiveTaskHandoff(t)
                 \/ RequestTaskReview(t)
                 \/ ReceiveTaskRejection(t)

HumanCalls == AnswerReview \/ AnswerQuestion

Deviations ==
  \/ RecoverGoalHandoff
  \/ Withdraw
  \/ \E t \in Task : RecoverTaskHandoff(t) \/ DropTask(t) \/ AskQuestion(t)

AdviceNext ==
  \/ CommanderCalls
  \/ SubcommanderCalls
  \/ ExecutorCalls
  \/ HumanCalls
  \/ Reassign
  \/ PollAnswer
  \/ AnswerGrowsOld
  \/ Deviations

\* Each does what it can when it is the one the next action names.
AdvisedCalls ==
  \/ NextAction.actor = "commander" /\ CommanderCalls
  \/ NextAction.actor = "subcommander" /\ SubcommanderCalls
  \/ NextAction.actor = "executor" /\ ExecutorCalls
  \/ NextAction.actor = "human" /\ HumanCalls

AdviceSpec == AdviceInit /\ [][AdviceNext]_adviceVars

FairAdviceSpec ==
  AdviceSpec /\ WF_adviceVars(AdvisedCalls) /\ WF_adviceVars(Reassign)

-----------------------------------------------------------------------------
(* Properties.                                                             *)

AdviceTypeOK ==
  /\ board \in Board
  /\ status \in [Task -> TaskStatuses]
  /\ past \subseteq Task
  /\ odd \in 0..MaxOdd

\* A goal ends when everybody acts only while the next action names them.
AdviceLeadsToDone == <>Stopped(board)

\* Each role has a call whose guard holds.  Rejecting a task or taking the
\* task-create handoff is never all that is left to the holder.
CommanderMay ==
  \/ ~Open(board.gh)
  \/ board.gh.phase = "submitted" \/ board.ph.phase = "submitted"
  \/ MayRejectPlan \/ MayCompletePlan
  \/ MayRejectGoalHandoff \/ MayRequestGoalReview \/ MayCompleteGoalReview

SubcommanderMay ==
  \/ board.gh.phase \in {"requested", "rejected"}
  \/ MayRequestPlanReview \/ MayReceivePlanRejection
  \/ MayRequestHandoffReview /\ PlanAccepted
  \/ \E t \in Task : \/ board.th[t].phase = "none" /\ MayRequestTaskHandoff(t)
                     \/ MayReceiveTaskReview(t)
                     \/ MayCompleteTask(t)

ExecutorMay ==
  \E t \in Task : \/ board.th[t].phase \in {"requested", "rejected"}
                 \/ MayRequestTaskReview(t)

HumanMay == HasOpenDecision

MayAct(actor) ==
  CASE actor = "commander"    -> CommanderMay
    [] actor = "subcommander" -> SubcommanderMay
    [] actor = "executor"     -> ExecutorMay
    [] OTHER                  -> HumanMay

MayReassign ==
  \E t \in Task : board.th[t].phase = "recovered" /\ MayRequestTaskHandoff(t)

\* Whoever the next action names has a call to make, unless a task waits to be
\* given to another executor, which the next action does not say.
AdvisedActorCanAct ==
  NextAction.actor # "" => MayAct(NextAction.actor) \/ MayReassign

\* The approval of a goal whose reviewer and then whose holder was replaced.
ApprovalOutlivesHolder ==
  Approved(board) /\ board.gh.phase \in {"requested", "received"}

\* A goal that goes on names somebody.
SomebodyIsNamed == Active => NextAction.actor # ""
=============================================================================
