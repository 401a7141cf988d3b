----------------------------- MODULE WatchScope ------------------------------
(***************************************************************************)
(* What a monitor says to its agent, as a function of the state the daemon *)
(* reports: which handoff and decision events a scope is owed, which of    *)
(* them reach the agent, and when the scope has work that deserves a       *)
(* liveness prompt.  The board holds one goal with its goal handoff, plan  *)
(* handoff, task-create handoff and task handoffs, one question, the       *)
(* latest goal review, and the other goals of the project.                 *)
(***************************************************************************)
EXTENDS Naturals, FiniteSets

CONSTANTS Task,      \* tasks of the goal
          NewGoal,   \* goals a person may add to the project
          MaxGen,    \* bound: how often one handoff is submitted
          NoTask     \* the task of a goal, a plan or a decision of the goal

ASSUME NoTaskAssumption == NoTask \notin Task
ASSUME MaxGenAssumption == MaxGen \in Nat

Phase == {"none", "requested", "received", "submitted", "reviewing",
          "rejected", "acknowledged", "completed", "recovered"}

\* A handoff row: how far its columns are filled, which submission they
\* belong to, and whether the daemon sees no monitor for its receiver.
HandoffView == [phase : Phase, gen : 0..MaxGen, lost : BOOLEAN]

Board ==
  [goal    : {"active", "stopped"},
   gh      : HandoffView,
   ph      : HandoffView,
   th      : [Task -> HandoffView],
   tc      : {"none", "requested", "received", "completed"},
   ask     : [status : {"none", "open", "answered", "applied", "withdrawn"},
              role   : {"subcommander", "executor"},
              task   : Task \cup {NoTask},
              byDefault : BOOLEAN,
              old    : BOOLEAN],
   review  : [status : {"none", "open", "answered", "applied", "withdrawn"},
              label  : {"", "approve", "reject"},
              gen    : 0..MaxGen],
   others  : SUBSET NewGoal]

Scopes ==
  {[role |-> "commander", task |-> NoTask],
   [role |-> "subcommander", task |-> NoTask]}
    \cup [role : {"executor"}, task : Task]

ProjectWide(scope) == scope.role = "commander"

Open(h) == h.phase \notin {"none", "completed", "recovered"}

\* The goal is on the board and not active.
Stopped(b) == b.goal # "active"

-----------------------------------------------------------------------------
(* Events a reconciliation projects from the board.                        *)

\* The step of the exchange that an open row shows, "" for none.
Shown(h) ==
  [none |-> "", completed |-> "", recovered |-> "", received |-> "",
   requested    |-> "request",
   submitted    |-> "review.request",
   reviewing    |-> "review.receive",
   rejected     |-> "review.reject",
   acknowledged |-> "review.reject.receive"][h.phase]

ReviewSteps == {"review.reject", "review.reject.receive"}

\* The role a step is addressed to, "" for a step nobody is told of.
ProjectionRole(kind, step) ==
  CASE kind \in {"goal", "plan"} /\ step = "review.request" -> "commander"
    [] kind \in {"goal", "plan"} /\ step \in ReviewSteps    -> "subcommander"
    [] kind = "task" /\ step \in {"request", "review.request", "review.receive"}
                                                            -> "subcommander"
    [] kind = "task" /\ step \in ReviewSteps                -> "executor"
    [] OTHER                                                -> ""

Item(kind, step, task, gen) ==
  [kind |-> kind, step |-> step, task |-> task, gen |-> gen]

Rows(b) ==
  {<<"goal", NoTask, b.gh>>, <<"plan", NoTask, b.ph>>}
    \cup {<<"task", t, b.th[t]>> : t \in Task}

InScope(scope, task) == scope.role = "executor" => task = scope.task

HandoffItems(scope, b) ==
  {Item(r[1], Shown(r[3]), r[2], r[3].gen) :
     r \in {q \in Rows(b) :
              /\ Shown(q[3]) # ""
              /\ ProjectionRole(q[1], Shown(q[3])) = scope.role
              /\ InScope(scope, q[2])}}

\* Only a task-create handoff that somebody received has an owner to wake.
TaskCreateItems(scope, b) ==
  IF b.tc = "received" /\ scope.role = "subcommander"
    THEN {Item("taskcreate", "receive", NoTask, 0)} ELSE {}

\* The commander that holds the goal's review hears the answer to a question
\* a subcommander or an executor asked about that goal.
ObservesAnswer(scope, b) ==
  /\ ProjectWide(scope)
  /\ b.ask.status = "answered"
  /\ ~Stopped(b)
  /\ b.gh.phase = "reviewing"

AskInScope(scope, b) ==
  /\ b.ask.role = scope.role
  /\ InScope(scope, b.ask.task)

AskItems(scope, b) ==
  LET step == [open |-> "pending", answered |-> "answered", none |-> "",
               applied |-> "", withdrawn |-> ""][b.ask.status]
      filtered == ProjectWide(scope) /\ step = "answered" /\ b.ask.byDefault
  IN  IF /\ step # "" /\ ~filtered
         /\ AskInScope(scope, b) \/ ObservesAnswer(scope, b)
        THEN {Item("ask", step, b.ask.task, IF b.ask.byDefault THEN 1 ELSE 0)}
        ELSE {}

\* What a goal review says.  The two transitions are projected to the project-
\* wide watch only; any other answered or open review is an ordinary decision
\* addressed to the commander.
ReviewItems(scope, b) ==
  LET transition ==
        CASE Stopped(b) -> ""
          [] b.review.status = "applied" /\ b.review.label = "approve" -> "complete"
          [] b.review.status = "answered" /\ b.review.label = "reject" -> "reject"
          [] OTHER -> ""
  IN  CASE ~ProjectWide(scope) -> {}
        [] transition # "" ->
             {Item("review", transition, NoTask, b.review.gen)}
        [] transition = "" /\ b.review.status = "open" ->
             {Item("review", "pending", NoTask, b.review.gen)}
        [] transition = "" /\ b.review.status = "answered" ->
             {Item("review", "answered", NoTask, b.review.gen)}
        [] OTHER -> {}

\* Everything one complete reconciliation projects for the scope.
Projected(scope, b) ==
  AskItems(scope, b) \cup ReviewItems(scope, b)
    \cup (IF Stopped(b) THEN {}
          ELSE HandoffItems(scope, b) \cup TaskCreateItems(scope, b))

GoalItem(g) == Item("newgoal", "created", g, 0)

\* The goals a project-wide watch announces: those its previous snapshot did
\* not have or, for the first snapshot of a process, those created after the
\* watermark of its token.
NewGoals(scope, before, first, mark, others) ==
  CASE ~ProjectWide(scope)      -> {}
    [] ~first                   -> {GoalItem(g) : g \in others \ before}
    [] first /\ mark.known      -> {GoalItem(g) : g \in others \ mark.covers}
    [] OTHER                    -> {}

-----------------------------------------------------------------------------
(* What of it reaches the agent.                                           *)

\* The membership contract of the agent's channel: no pending decision, no
\* answer a default gave, no plan request.
IsAgentAction(i) ==
  /\ i.step # "pending"
  /\ ~(i.kind = "ask" /\ i.gen = 1)
  /\ ~(i.kind = "plan" /\ i.step = "request")

\* A received review ends the reviewer's wait and is not shown to the agent.
ControlOnly(i) == i.step = "review.receive"

ReachesAgent(i) == IsAgentAction(i) /\ ~ControlOnly(i)

-----------------------------------------------------------------------------
(* Whether the scope has work that deserves a prompt.                      *)

Approved(b) == b.review.status = "applied" /\ b.review.label = "approve"

\* The human rejected the review of the submission the handoff still shows.
\* A resubmission after the answer is not owed that rejection.
ReviewRejectionOwed(b) ==
  /\ b.review.status = "answered" /\ b.review.label = "reject"
  /\ ~Stopped(b)
  /\ b.gh.phase = "reviewing"
  /\ b.gh.gen = b.review.gen

\* What the commander is to do about the goal, the first that applies.
CommanderTarget(b) ==
  IF b.review.status = "open" THEN "none"
  ELSE IF ReviewRejectionOwed(b) THEN "reject"
  ELSE IF b.gh.phase = "submitted" /\ ~Stopped(b) THEN "goal"
  ELSE IF b.ph.phase = "submitted" /\ ~Stopped(b) THEN "plan"
  ELSE IF b.gh.phase = "reviewing" /\ ~Approved(b) /\ ~Stopped(b) THEN "review"
  ELSE IF Approved(b) /\ ~Stopped(b) THEN "complete"
  ELSE "none"

\* An answer nobody applied for longer than AnsweredUnappliedAfter.
UnappliedAnswer(b) == b.ask.status = "answered" /\ b.ask.old /\ ~Stopped(b)

CommanderTargets(b) ==
  ({CommanderTarget(b)} \ {"none"})
    \cup (IF UnappliedAnswer(b) THEN {"unapplied"} ELSE {})

\* Somebody else is at work on a task of the goal.
OpenTaskHandoff(b) == \E t \in Task : Open(b.th[t]) /\ ~b.th[t].lost

IsRejected(h) == h.phase \in {"rejected", "acknowledged"}

SubcommanderActionable(b) ==
  \/ b.tc = "received"
  \/ \E t \in Task :
       b.th[t].phase \in {"requested", "submitted", "reviewing"}
         \/ IsRejected(b.th[t])
  \/ /\ ~OpenTaskHandoff(b)
     /\ \/ IsRejected(b.gh) \/ IsRejected(b.ph)
        \/ /\ b.gh.phase \notin {"submitted", "reviewing"}
           /\ \/ b.gh.phase = "received"
              \/ b.ph.phase = "received"

ExecutorActionable(scope, b) ==
  b.th[scope.task].phase = "received" \/ IsRejected(b.th[scope.task])

Actionable(scope, b) ==
  /\ scope.role # "commander" => ~Stopped(b)
  /\ CASE scope.role = "commander"    -> CommanderTargets(b) # {}
       [] scope.role = "subcommander" -> SubcommanderActionable(b)
       [] scope.role = "executor"     -> ExecutorActionable(scope, b)

-----------------------------------------------------------------------------
(* What the sessions and the people of the project do to the board.        *)

\* The steps of a handoff row, which the handoff modules model in detail.
Advanced(h) ==
  LET to(p) == [h EXCEPT !.phase = p]
      submitted == IF h.gen < MaxGen
                     THEN {[h EXCEPT !.phase = "submitted", !.gen = h.gen + 1]}
                     ELSE {}
  IN  CASE h.phase = "none"         -> {to("requested")}
        [] h.phase = "requested"    -> {to("received")}
        [] h.phase = "received"     -> submitted \cup {to("recovered")}
        [] h.phase = "submitted"    -> {to("reviewing")}
        [] h.phase = "reviewing"    -> {to("rejected"), to("completed")}
        [] h.phase = "rejected"     -> {to("acknowledged")}
        [] h.phase = "acknowledged" -> submitted
        [] OTHER                    -> {}

\* The goal handoff closes with the goal, whose review the human approved; an
\* accepted plan asks for the creation of its tasks.  The rows that move into one
\* of the phases.
HandoffSteps(b, phases) ==
  LET moved(h) == {x \in Advanced(h) : x.phase \in phases}
  IN  {[b EXCEPT !.ph = h, !.tc = IF h.phase = "completed" THEN "requested" ELSE @] :
         h \in moved(b.ph)}
        \cup (UNION {{[b EXCEPT !.th[t] = h] : h \in moved(b.th[t])} : t \in Task})
        \cup {[b EXCEPT !.gh = h, !.goal = IF h.phase = "completed" THEN "stopped" ELSE @] :
                h \in {x \in moved(b.gh) :
                         /\ x.phase = "completed" => Approved(b)
                         /\ x.phase = "rejected" => b.review.status # "open"}}

\* The holder of the goal receives the request for its tasks and creates them, or
\* a recovery replaces the request.
TaskCreateSteps(b) ==
  CASE b.tc = "requested" /\ Open(b.gh) /\ b.gh.phase # "requested" ->
         {[b EXCEPT !.tc = "received"]}
    [] b.tc = "received" -> {[b EXCEPT !.tc = "completed"], [b EXCEPT !.tc = "requested"]}
    [] OTHER -> {}

\* The human review of the submission the commander received.
ReviewSubmissions(b) ==
  IF b.gh.phase = "reviewing" /\ (b.review.status = "none" \/ b.gh.gen > b.review.gen)
    THEN {[b EXCEPT !.review = [status |-> "open", label |-> "", gen |-> b.gh.gen]]}
    ELSE {}

ReviewAnswers(b) ==
  IF b.review.status # "open" THEN {}
  ELSE {[b EXCEPT !.review.status = "applied", !.review.label = "approve"],
        [b EXCEPT !.review.status = "answered", !.review.label = "reject"]}

QuestionSteps(b) ==
  CASE b.ask.status = "none" -> {[b EXCEPT !.ask.status = "open"]}
    [] b.ask.status = "open" ->
         {[b EXCEPT !.ask.status = "answered", !.ask.byDefault = d] : d \in BOOLEAN}
    [] b.ask.status = "answered" -> {[b EXCEPT !.ask.status = "applied"]}
    [] OTHER -> {}

\* An answer that nobody applies for long.
AnswerAges(b) == IF b.ask.status = "answered" THEN {[b EXCEPT !.ask.old = TRUE]} \ {b} ELSE {}

\* A withdrawal closes the decisions, but leaves the goal handoff open.
WithdrawnGoal(b) ==
  LET closed(s) == IF s = "open" THEN "withdrawn" ELSE s
  IN  [b EXCEPT !.goal = "stopped", !.ask.status = closed(@), !.review.status = closed(@)]

GoalCreated(b) == {[b EXCEPT !.others = @ \cup {g}] : g \in NewGoal \ b.others}

\* The phases a row is moved into without an event: the receipt of a rejection
\* and the recovery.
QuietPhases == {"acknowledged", "recovered"}

\* What the store commits without an event: besides those moves, every step of a
\* task-create handoff but its request.
QuietBoards(b) ==
  IF Stopped(b) THEN {}
  ELSE HandoffSteps(b, QuietPhases) \cup TaskCreateSteps(b) \cup AnswerAges(b)

\* What it publishes an event of.
AnnouncedBoards(b) ==
  GoalCreated(b)
    \cup (IF Stopped(b) THEN {}
          ELSE HandoffSteps(b, Phase \ QuietPhases)
                 \cup ReviewSubmissions(b) \cup ReviewAnswers(b)
                 \cup QuestionSteps(b) \cup {WithdrawnGoal(b)})
=============================================================================
