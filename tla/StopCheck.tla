------------------------------ MODULE StopCheck ------------------------------
(***************************************************************************)
(* The two other things the daemon derives from the rows of a goal: which  *)
(* wakeups of the project are due (wakeup.go), and whether a session that  *)
(* wants to stop is sent back to work (stop_check.go).  A session that was *)
(* let go does nothing more until its watch wakes it, so a stop is safe    *)
(* only if whoever is named next still hears of it.                        *)
(***************************************************************************)
EXTENDS Advice

Commander == [role |-> "commander", task |-> NoTask]
Holder == [role |-> "subcommander", task |-> NoTask]
Executor(t) == [role |-> "executor", task |-> t]

-----------------------------------------------------------------------------
(* Wakeups of the project.                                                 *)

\* A reader of all rows of a task takes it as claimed when one was received
\* and has no complete report: a recovered row never gets one.
Claimed(t) ==
  \/ t \in past
  \/ board.th[t].phase \in {"received", "submitted", "reviewing",
                            "rejected", "acknowledged"}

\* Mutant: a claim on a sibling hides the tasks nobody started.
UnstartedOfIdleGoal ==
  {t \in Created : status[t] = "todo" /\ \A u \in Created : ~Claimed(u)}

Unstarted == {t \in Created : status[t] = "todo" /\ ~Claimed(t)}

\* Sent again every few minutes while it lasts; the other lists are told once.
ActionableWakeup == Active /\ Unstarted # {}

-----------------------------------------------------------------------------
(* Whether a session may stop.                                             *)

UnreceivedReview(h) == h.phase = "submitted"

\* The first reason that applies.
stopCheckCommander ==
  IF Stopped(board) THEN ""
  ELSE IF Approved(board) THEN "approved goal review"
  ELSE IF board.review.status = "answered" /\ board.review.label = "reject"
            /\ board.gh.phase = "reviewing" THEN "return rejected goal review"
  ELSE IF UnreceivedReview(board.gh) THEN "unreceived goal review"
  ELSE IF UnreceivedReview(board.ph) THEN "unreceived plan review"
  ELSE IF HasOpenDecision THEN ""
  ELSE IF \E t \in Task : Open(board.th[t]) /\ board.th[t].phase # "requested" THEN ""
  ELSE IF Open(board.gh) THEN ""
  ELSE "active goal"

ReviewOutstanding(h) == h.phase \in {"submitted", "reviewing"}

\* All the holder waits for arrives through its watch.
subcommanderWaiting(live) ==
  /\ live
  /\ \/ ReviewOutstanding(board.gh)
     \/ ReviewOutstanding(board.ph)
     \/ \E t \in Task : Open(board.th[t]) /\ ~ReviewOutstanding(board.th[t])

subcommanderStopDetail(live) ==
  IF board.ph.phase = "acknowledged" THEN "rejected plan handoff"
  ELSE IF board.tc = "received" THEN "open task-create handoff"
  ELSE IF \E t \in Task : \/ ~live /\ board.th[t].phase = "requested"
                          \/ ReviewOutstanding(board.th[t])
    THEN "task handoff"
  ELSE IF HoldsGoalHandoff /\ ~subcommanderWaiting(live) THEN "open goal handoff"
  ELSE ""

stopCheckExecutor(t, live) ==
  IF \/ ~Open(board.th[t])
     \/ board.th[t].phase = "requested"
     \/ ReviewOutstanding(board.th[t]) /\ live
    THEN "" ELSE "open task handoff"

\* The reason a stop that follows no blocked one is blocked for.
stopCheckWork(scope, live) ==
  CASE scope.role = "commander"    -> stopCheckCommander
    [] scope.role = "subcommander" -> subcommanderStopDetail(live)
    [] scope.role = "executor"     -> stopCheckExecutor(scope.task, live)

Pending(scope) ==
  CASE scope.role = "commander"    -> Active
    [] scope.role = "subcommander" -> Active /\ HoldsGoalHandoff
    [] OTHER                       -> FALSE

\* A watch that is about to be armed again counts for the work, not here.
stopCheckWatch(scope, monitor) == Pending(scope) /\ monitor # "live"

MayStop(scope, monitor) ==
  /\ stopCheckWork(scope, monitor \in {"live", "rearming"}) = ""
  /\ ~stopCheckWatch(scope, monitor)

-----------------------------------------------------------------------------
(* Properties.                                                             *)

Sessions ==
  {Commander}
    \cup (IF HoldsGoalHandoff THEN {Holder} ELSE {})
    \cup {Executor(t) : t \in {u \in Task : /\ Open(board.th[u])
                                            /\ board.th[u].phase # "requested"}}

NamedNext(scope) ==
  /\ NextAction.actor = scope.role
  /\ scope.role = "executor" => status[scope.task] = "doing"

Hears(scope) ==
  \/ Actionable(scope, board)
  \/ \E i \in Projected(scope, board) : ReachesAgent(i)

\* Two cases nothing speaks of.  No event follows the commander's own receipt
\* of a plan.  And a recovery leaves work to the session that made it, which
\* other executors at work hide.
ReviewsPlan(scope) == scope = Commander /\ board.ph.phase = "reviewing"
Recovering ==
  board.gh.phase = "recovered" \/ \E t \in Task : board.th[t].phase = "recovered"

\* A session that may stop with its watch live although the next action names
\* it is woken: by an event it is owed, by the prompt, or by the wakeup of the
\* tasks that nobody started.
StopIsSafe ==
  \A scope \in Sessions :
    MayStop(scope, "live") /\ NamedNext(scope) /\ ~ReviewsPlan(scope) /\ ~Recovering
      => Hears(scope) \/ ActionableWakeup

=============================================================================
