# A verification model of atct

atct is a daemon through which AI agents and a human run development goals. A
*commander* session claims a project, delegates each goal to another session, the
*subcommander*, by a *handoff*, reviews its plan and its work, asks the human to
review the goal, and finishes it; the subcommander delegates the tasks of its
plan to *executors* in the same way. Sessions are agent processes that stop
without notice, so every right of a session hangs on a heartbeat lease, and every
right can be taken over by a successor. Agents hear of work through watches that
read the daemon's event stream. These modules model the protocol from the Go code
and its SQL, check it with TLC, and prove its core with TLAPS.

## The system

| component | state | operations | what makes it correct |
|---|---|---|---|
| sessions (`store/store.go`, `runtime_lease.go`, `handoff_recovery.go`, `project.go`, `agent_session_reclaim.go`) | `agent_sessions`, `monitor_bindings`, `projects.claimed_by` | register, identify, bind a monitor, heartbeat, claim, release, discard, reclaim, retention | a session row serves one agent; what others name exists; a revoke is final |
| goal handoffs (`goal_handoff.go`, `queries/task.sql`) | `goal_handoffs` | request, receive, review request / receive / reject / rejection receipt, recover, complete, release, `goal.claim` | one open handoff per goal; a live receiver keeps its goal; closed is closed; the review columns agree |
| human review (`goal.go`) | `goals.status`, reviews in `decisions` | `goal.review.request`, `goal.review.complete`, approve, reject, withdraw | a goal is done only on an approval, with its handoff, and nothing left to decide |
| decisions (`decision.go`, `notify.go`, `daemon/decision_answer.go`) | `decisions`, channels of waiting calls | ask, wait, answer in the dashboard or from the chat, default, revise, withdraw, poll | the first answer stands; a chat answer is the human's; a wait ends; answers reach whoever took the work over |
| plan and task-create handoffs (`goal_handoff.go`, `task_create_handoff.go`) | `plan_handoffs`, `task_create_handoffs` | plan review, acceptance, receive, recover, `task.create` | the tasks of one acceptance are created once; an acceptance is not lost |
| task handoffs and tasks (`task_handoff.go`, `task.go`) | `task_handoffs`, `tasks` | as for goals, plus task status | as for goals; a task is done only when settled |
| next actions, stop checks, prompts, wakeups (`goal_next_action.go`, `stop_check.go`, `wakeup.go`) | none, derived | `goal.next_action`, `stop.check` | somebody who can act is named; who may stop is woken |
| watches (`workflow_events.go`, `cmd/atct/watch*.go`) | a process, a record of deliveries, `monitor_health` | snapshot, reconcile, subscribe, deliver, recover the daemon, re-arm | everything owed is heard, and once |
| Codex monitor (`cmd/atct/codex_monitor.go`) | a queue of actions, the App Server connection | enqueue, submit, read notifications | no stale review is submitted; what is queued is tried |
| daemon lifecycle and migrations (`internal/daemonctl`, `cmd/atct/main.go`, `store/migrations.go`) | lock, registry and socket files, the HTTP port, the schema | ensure, start, stop, crash, open the store | a serving daemon is reachable; a migration takes effect once; an open store is complete |
| front ends (`internal/mcpshim`, `internal/httpapi`, `web`, `cmd/atct`) | none | RPCs, views | they hold no state of the protocol |

Everything persistent is in one SQLite database opened with one connection, so
transactions are serial; RPCs are not. A typical handler checks roles, claims
and rows by plain queries, then opens a transaction whose conditional `UPDATE`s
re-check *some* of that. The hard behaviours are in between: two sessions that
passed their checks on the same state, a lease renewed or lapsed between check
and transaction, a takeover in the middle of a review exchange, a retry of a
call that had committed, a human who answers, revises or withdraws at any time.
Around the store there are processes that share files, a socket and a port, a
stream that does not repeat what it sent, and goroutines that read state under
one mutex and write it under the next. `PROJECT.json` lists these hazards line by
line.

## Modules

```
Sessions <- HandoffRows <- GoalHandoff <- GoalReview        -> GoalLifecycle
                        <- TaskHandoff          -> GoalLease, HandoffPhases
         <- Planning              (GoalHandoff also -> GoalLease, HandoffPhases)
WatchScope <- Watch
           <- Advice <- StopCheck
Migrations <- Lifecycle          Identity      Answers      CodexBridge
```

`<-` is EXTENDS, `->` a refinement that a run checks and a theorem proves.

- **Sessions**: leases, discards, the project claim, and the two-step shape
  of a call. A handler that checks before its transaction is a `...Read` that
  puts what it remembers in `call[s]`, and a `...Commit` that re-checks only
  what its transaction re-checks. `Abort` is every way a call ends without a
  commit: refusal, disconnect, a crash of daemon or client.
- **HandoffRows** extends it with the shape that a row of `goal_handoffs` and one
  of `task_handoffs` share, with what it means for its columns to agree, and with
  the phase of the exchange that they stand for (`PhaseOf`).
- **GoalHandoff** extends that with the table of goal handoffs. The guards of the
  `...Tx` operators are the `WHERE` clauses of `queries/task.sql`, those of the
  `...Read` actions the Go code before `BeginTx`. A row is a record with one
  field per column that some guard reads; `None` is NULL; the report of a
  completed row keeps only who wrote it.
- **GoalReview** extends it with the goal's status, its decisions in order of
  id, and the order of requests. `Request`, `Receive` and `Submit` are the
  handoff commits with what their transactions do to decisions. The field
  `after` of a decision stands for the comparison of `review_requested_at` with
  the time of a rejection.
- **TaskHandoff** extends `HandoffRows` with the handoffs of one task and the
  task's status, which their transactions, `task.update` and the withdrawal of
  the goal write. Of the goal it sees who holds it: `holders` moves by the steps
  of `GoalLease`, which `GoalHandoff` implements. A receive of the same session
  again writes nothing and is an action of its own (`ReceiveAgain`), as is an
  update to `doing` or `review`, which asks for no claim (`UpdateFreely`).
- **Planning** extends `Sessions` with the plan handoffs and the task-create
  handoffs of one goal and with the tasks, of which it keeps what created them.
  The goal's holder moves as in `TaskHandoff`; its review is the two steps
  `SubmitGoal` and `RejectGoal`, with what their transactions do to task-create
  handoffs.
- **GoalLease** and **GoalLifecycle** are what these promise: one holder at a
  time of a goal or a task, succeeded only when dead or revoked; a goal that ends
  once, by approval with nothing left to decide or by withdrawal.
- **HandoffPhases** is what a handoff promises to both sides: requested, received,
  submitted, under review, rejected, acknowledged, submitted again, in this order;
  closed or taken back from any of them, once; and requested only beside no other
  open one. The eight columns of a row, some of them reset by other transactions than
  those that set them, have to add up to this.
- **WatchScope** is a module of functions: from a *board*, the rows of one goal
  as the daemon reports them, it derives which events a session of some role is
  owed (`Projected`), which of them its agent hears (`ReachesAgent`), and when the
  session is prompted (`Actionable`).
- **Watch** is one `atct watch --monitor --once` on a board that changes, and the
  daemon it reads. Most changes publish an event (`AnnouncedBoards`); the receipts of
  a rejection, recoveries and all but the request of a task-create handoff publish none
  (`QuietBoards`). A reconciliation reads the goals in one query and the rest in
  others (`ReadGoals`, `ReadRest`); a delivery writes to the agent first and
  records second (`Deliver`, `SaveRecord`), which may fail (`SaveFails`). Requests fail
  when the daemon is away.
- **Advice** carries one goal from its request to its end by calls that are one
  step each, and derives the next action from the board in the order of the code
  (`deriveNextAction`, `derivePlanNextAction`, `deriveTaskNextAction`). The steps
  in `Deviations` are those outside of the ordinary flow. The guard of a call has a
  name of its own (`MayCompletePlan`, ...), so that `MayAct` can say which actor has
  a call that is not refused.
- **StopCheck** extends it with `stop.check` and the wakeup for unstarted tasks.
- **Migrations** opens the store: one action per transaction of `migrateSchema`
  and `applyEmbeddedMigrations`, per process. A migration's SQL is a counter in
  `ran`; a build is the number of migrations it embeds. Of the two validations of
  columns, that of version 6 asks for the columns of what is recorded
  (`HasV6Columns`), and that of version 7 for a fixed list, of which `V7Migration` adds
  the last (`HasV7Columns`).
- **Lifecycle** extends it with the clients that ensure and stop the daemon, the
  daemon processes, started by `Ensure` or by hand, and their files. What a client
  does under the lock, and what a daemon does without it, is one action per look at or
  change of the files. A caller may give up on a daemon that still starts (`GiveUp`),
  and a new process may get a pid that the registry still names (`StartProcess`).
- **Identity** is the table `agent_sessions` and its ids: SQLite gives the largest
  id plus one, so the id of a deleted row may be given again. `session.identify`
  is the three RPC transactions that it runs.
- **Answers** is the path of an answer from the human to the agent that asked,
  with the lines the human types in the chats, the subscription of a waiting call
  and the publication after a commit as steps of their own. The shim opens a connection
  per call, so any number of calls that quote a line may be between their check and their
  write (`quotes`), also of one session; of the calls that wait, or poll in several
  transactions, a session has one.
- **CodexBridge** is the queue of one Codex session, with one process for each
  goroutine that pumps it. `submitMu` is `lock`; every section under `stateMu` is
  one action, and the wait for `turn/start` is between two of them. The App Server may
  refuse a turn at any time (`Answer`): beside a turn that runs, whose end is then owed,
  or on an idle thread, after which nobody is to try again (`refused`).
- **MC...** modules hold the symmetry sets, the state constraints and the values
  of constants for TLC.
- **GoalProofs** (of `GoalHandoff` and `GoalReview`), **TaskHandoffProofs**,
  **PlanningProofs**, **StopCheckProofs** (of `Advice` and `StopCheck`),
  **MonitorProofs** (of `Watch` and `CodexBridge`), **IdentityProofs**,
  **AnswersProofs**, **LifecycleProofs**: the TLAPS proofs.

Definitions whose comment says *Mutant* are plausible bugs; each property is
shown to fail when the definition below it is replaced by its mutant.

### What the models abstract

- The checks before a transaction are one step, not one per query; a session
  has one RPC in flight (in `Answers`, see above, any number that quote). `goal.claim` runs two transactions and is three steps.
- In `GoalReview`, asking, answering, polling, revising and withdrawing decisions
  are one step each: the conditional `UPDATE` decides whatever was read before.
  `Answers` has the steps apart. A `post_merge` decision blocks like an ask.
- For a task, the decisions are one bit, whether one of them is open and names
  the task. `ClaimTask` has no caller outside the tests and is left out.
- Reports, entries, timestamps and the wording of events are left out, the
  amendment of a report with them; pid and start time are not part of the proof
  of staleness, as in `canRecoverSessionInTx`. The order of requests replaces
  `requested_at`; the generation of a submission replaces `review_requested_at`
  in `WatchScope` and `CodexBridge`.
- A lease is held or not; time passes by `LapseLease` (`Lapse` and `Pass` in
  `Identity`, where a day of idleness and the retention matter as well).
- A board has one question at a time, and the stream's buffer of 16 events is
  larger than the number of changes in the instance, so it never drops one; the
  periodic reconciliation, which would repair a drop, is the only one to tell of a receipt.
- No process that is not atct's gets a recorded pid. `WriteRegistry` is one step: the
  instant in which `os.WriteFile` has truncated `daemon.json`, where a reader gets a parse
  error instead of `ErrNoRegistry`, is left out. The end of `Serve` and of
  the HTTP server is one step, in which the socket closes first (`Terminate`).
- Wording, ids and payloads of notifications of the App Server are left out: what
  remains is which method they name and whether they end a turn.
- The type invariants document the variables. `TypeCorrect`, `TaskTypeCorrect` and
  `LifecycleTyped` state three of them, those of `Planning`, `Advice` and `Identity`
  are part of a proved invariant.

## Runs

| run | instance | shows |
|---|---|---|
| `goal_handoff` | 3 sessions, 2 handoffs, 2 calls in flight, 1 discard | `AtMostOneOpen`, `LiveReceiverKeepsHandoff`, `ClosedStaysClosed`, `ImplementsLease`, `ImplementsPhases` |
| `goal_review` | 2 sessions, 2 handoffs, 2 decisions, 2 calls in flight | `DoneWasReviewed`, `FinalizeClosesReviewedHandoff`, `DecisionsFollowTakeover`, `ImplementsLifecycle` |
| `tasks` | 2 sessions, 2 handoffs of a task, 2 calls in flight, the goal changing hands | `AtMostOneOpenTaskHandoff`, `LiveExecutorKeepsTask`, `ClosedTaskHandoffStaysClosed`, `DoneOnlyWhenSettled`, `ImplementsTaskLease`, `ImplementsTaskPhases` |
| `planning` | 3 sessions, 1 plan handoff, 2 task-create handoffs, 2 keys, 2 calls in flight | `PlanColumnsAgree`, `OneBatchPerHandoff`, `ClosedPlanningStaysClosed`, `LiveReceiverCreatesTasks`, `AcceptanceIsNotLost` |
| `advice` | 2 tasks, 2 submissions of each thing under review, 1 deviation | `SomebodyIsNamed`, `AdvisedActorCanAct`, `StopIsSafe`, `AdviceLeadsToDone` |
| `watch` | 3 scopes on 3 boards, 2 changes, 1 stop of the daemon, 1 kill or failed save, 2 failed starts | `RepeatedOnlyWhenLost`, `FollowingIsCaughtUp`, `EverythingOwedIsHeard` |
| `answers` | 2 agents, 2 decisions, 2 lines of the human | `ChatAnswerIsHuman`, `WaitsAreWoken`, `FirstAnswerStands`, `SettledWaitEnds` |
| `identity` | 2 agents, ids up to 3, a budget of 1 row | `SessionServesOneAgent`, `ReferencedSessionsExist`, `RevocationSticks` |
| `lifecycle` | 2 clients, 2 daemon processes, builds of 5 and 6 migrations | `MigrationsRunOnce`, `OpenStoreIsComplete`, `ServingDaemonIsReachable` |
| `codex` | 2 watches, 1 goal, 2 submissions, 3 events heard, 4 notifications waiting | `QueueIsFresh`, `NothingIsStranded`, `QueuedIsTried` |
| `stale_approval`, `lost_action` | 2 sessions and 1 handoff; as `codex` | findings 1 and 2 |

### Bounds, and why they are enough

Three sessions are a requester, a receiver and a successor, and with two of them
one is both the first and the last. Two overlapping calls are what a stale read
needs, one to read and one to move; two handoffs are one and its replacement; two
decisions are a review and the one after it, or an ask beside it; two
generations are a submission and its resubmission. State constraints (in the MC
modules) cut the product of all this, never a single part of it; what a
constraint separates, another run or half of the same run has:

- `goal_handoff`: `OneHandoffUnderReview` reviews a goal that was delegated once
  and lets goals that were delegated twice go unreviewed.
  `ClaimCallsBeforeReview` overlaps the steps of the two claims with takeovers
  only (in the review the claim still moves, by force and by release).
  `ClaimProjectAlone` overlaps a project claim with no other call, as it leads
  where the forced claim leads. `DiscardAlone` discards while all leases
  are held, which is when a discard differs from a lapse, and beside one call.
  `LateOverlaps` is for a handoff that ended: a late call about it overlaps with the
  request of its replacement and with calls about the replacement, which overlap with
  each other as they did about the first handoff. `QuietOnceEnded` starts no call when the
  last handoff has ended, since calls start when the first has.
- `goal_review`: `ReviewOverlaps` leaves to `goal_handoff` the calls that lead
  nowhere near a human review and the overlaps of handoff calls with each other;
  `OneAsk` has one decision that is no review; `NothingInert` goes no
  further with a withdrawn decision that nothing reads; `QuietOnceClosed` leaves to
  a goal that can no longer change the two calls that look at it; `SecondDelegationAlone` delegates
  again only after an approval, which is the half in which the second delegation
  could be finished by mistake.
- `tasks`: `ReviewOrTakeover` splits as for goals: `ReviewOfOne` leaves out the
  writers of the status that are no handoff transactions, `TakeoverOfTwo` the
  review; in both an open decision overlaps only with the call it can stop.
  `FreeUpdateInTakeover` is the same for `task.update` to `doing`. While no handoff
  is open, `LateOverlaps` overlaps a late call with the request of a replacement;
  `QuietOnceEnded` is as for goals. `NoClaim`
  leaves out the project's claim, which decides only who may call, and with it
  the discard. The proofs have none of these bounds.
- `planning`: `NoClaimCall` and `NotWithdrawn` leave the claim in two steps and the
  withdrawal out (the claim still moves by force and by release), `OneRoleEach`
  the case that one session is commander and subcommander, and `OneAway` lets
  one lease be lapsed at a time. `PlanFirst`, `PlanBeforeReview` and
  `ClaimedWhilePlanned` order the three stages of the goal, the plan, the
  creation of tasks and the goal's review, whose rows are in different tables.
- `watch`: the boards are a goal at work, one whose review the commander
  received, and one whose plan was rejected, for a session of each role; on the first a
  task-create handoff was requested, of whose receive nothing tells but the ticker. Two
  changes are one that makes an action and one that ends it. The limit of failed starts is
  2 in place of 5, with two failures, so that the limit is reached.
- `advice`: every order of advised calls, with one step that nobody advised (a task
  dropped, a question, a withdrawal, a recovery) at any moment.
- `answers`: `OneTranscript` puts the lines in the chat of the first agent and lets the
  second agent ask only the second decision. `OneQuote` and `QuotesOverlap` are two
  halves: waiting calls beside one line and one quote of it, and two lines with quotes
  of them that overlap while nobody waits. A write of a quote is the same to a waiting
  call as an answer from the dashboard. Two lines are what passing over a used line needs.
- `identity`: three ids are two agents and an id that is given again.
  `FewReferences` and `FewCalls` have one session that is referred to, one approved
  discard, and one call in its middle. `LapsesUnderClaim` lets one lease lapse
  short of a day while the project is claimed and nobody is attached to a row: claims and
  commanders look at such a lease, identification does not.
- `lifecycle`: the real schema has 54 migrations, of which the bridge takes over
  four and the rest run one by one; 5 and 6 keep the four, one
  that both builds know and adds the last column of version 7, and one that only the newer
  one knows. Hooks open the database in every state it may be found in; daemons come and
  go over one that has all columns, as the others let no daemon get beyond opening it but
  by the same steps. Two clients are one that waits for its daemon and one that stops it
  or starts another by hand, and two daemons an old one and its successor.
- `codex`: the two watches hear the same goal in different order. A pumper runs for
  each watch and for the reader of notifications. `MonitorOn` stops where the
  monitor does, after which nothing is heard, `FirstHearsFirst` names the watch that hears
  first `w1`, and `FewLeftUnread` leaves one notification unread at most when the
  connection has ended or the bridge given up, as none of them starts a turn.

Deadlock is an error where something can always happen (`watch`, `answers`,
`identity`, `lifecycle`); in the others it is not, because a daemon that
nobody calls rests: all leases may lapse, a goal may be over, and a bridge
that crashed does nothing more.

### Fairness, and other assumptions

The daemon does not schedule agents and people, so nothing is assumed of them but
where a property is about those who do what they are told.

- `Watch` is fair to the process (`Loop`, `Recover`), to `Rearm`, since a `--once`
  watch exists to be armed again by the agent it wakes, and to
  `OthersStartDaemon`, since any command of any agent starts a daemon. The
  ticker that reconciles every so often is not assumed to run, so that the property
  shows the order of snapshot and subscription to be right for everything an event
  tells of (`AnnouncedIsHeard`, the first half of `EverythingOwedIsHeard`). For receipts
  nothing but the ticker will do, so the second half has its fairness as a premise.
- `Advice` is fair to the calls that the next action names and to the reassignment of
  a task: this is the premise of `AdviceLeadsToDone`. Deviations are bounded.
- `Answers` is fair to the daemon's goroutines (`Wake`, `Publish`), whom the
  Go runtime schedules. Nobody has to answer: a wait ends when the decision is
  settled, or the wait times out.
- `CodexBridge` is fair to its goroutines and to an App Server that answers
  `turn/start`, by a turn or a refusal, reports its status and ends turns. The user may
  type at any time and need not. After a refusal on an idle thread nobody is in `pump` and
  no end of a turn is owed: the action waits for the next one heard or the next turn the
  user starts, as `TestCodexMonitorQueueRetainsFailedSubmission` expects.
  `NothingIsStranded` names this state, and `QueuedIsTried` starts from a turn that is
  under way; that a turn comes is not claimed.

Two runs check a specification under an assumption about the world outside of it;
without it the invariants named fail, and TLC shows how:

- `Identity`, `PunctualSpec`: agents identify themselves within the day after which an idle
  session without handoffs is deleted, and nobody uses what the retention removes after a
  month. Otherwise a connection that never identified itself keeps an id that SQLite gives to the next
  row, and `SessionServesOneAgent` fails.
- `Lifecycle`, `OrderlySpec`: no daemon begins to listen or records itself while some
  process is between the check that files are stale, or its own, and their removal
  (`Removing`); and while a daemon has its socket and not its record, or the reverse
  (`HalfUp`), no other one checks, nor does the end of `Stop`. Each of these is a moment of a
  few system calls that no lock covers, and `Ensure`, which asks the socket, may look at any time. All
  that takes long is free: callers give up on a daemon that migrates and start another, users
  start daemons by hand, losers of the port leave, and a daemon that shuts down slowly
  outlives its successor's start. Without the assumption `ServingDaemonIsReachable` fails as
  told below. `MigrationsRunOnce` and `OpenStoreIsComplete` need no such assumption and
  are proved without it.

### Findings

Each is a run that TLC must find violated; `PROJECT.json` quotes the sentence it
contradicts.

1. `RejectionStopsFinalization` (`stale_approval`): an approval given once
   finishes the goal even after the human's last review of it was a rejection.
2. `AcceptedIsHead` (`lost_action`): the response to `turn/start` takes the head
   of the queue away, which may not be the action that the turn was started for:
   an event heard while the response was awaited prunes the queue. When it
   pruned everything, `pump` slices an empty queue, and the process panics.

## What the code does that a document does not say

Met while modelling, kept in the models as the code has it, and contradicting no
sentence of the documents that is precise enough to be quoted, or repeating a
finding. A maintainer may want to look at each.

Goals and tasks:

- `goal.handoff.complete` refuses a delegation before its transaction only, so a
  handoff that becomes one in between is completed without a review
  (`goal_handoff.go:932`); `goal.review.complete` looks at the commander's claim
  before its transaction only, so a former commander finishes the goal
  (`goal.go:820`).
- After the human's approval the goal handoff may be recovered twice, from the session
  that reviews it and then from the one that holds it, and requested again. The goal
  then waits for a holder to receive it, work and submit, but `goalPendingState` looks
  at the approval only and goes on naming the commander and `goal.review.complete`,
  which is refused (`goal_pending_state.go:43`). A subcommander that receives the
  handoff of its own accord gets the goal going again. The run `advice` allows one
  deviation, and `NamedCanAct` proves that this is the only exception.
- Once a rejection has been polled, the same submission can be put to the human
  again.
- A retried `task.handoff.request` sets the status of the task back to `todo`
  under the executor that received it meanwhile (`task_handoff.go:391`), and a task
  handoff that a withdrawal closed can still be received, which revives the dropped
  task as `doing` with no open handoff.

Planning:

- The receive of a task-create handoff ignores how many rows it updated
  (`task_create_handoff.go:99`), so the loser of two racing calls reports success.
- A rejection of a plan that commits late takes away the receipt of another
  reviewer.
- In development mode, where the commander may hold a goal, it cannot
  receive the task-create handoff of its own goal.
- A resubmission supersedes the task-create handoff, and the goal has none until its
  review is rejected; `task.create` without a handoff asks for no accepted plan.
- A withdrawal leaves the plan and task-create handoffs of the goal open.

Watches and stops:

- A commander that received the review of a plan is never prompted for it, and a
  session that is to act on a recovered handoff hears of it only by asking.
  `StopIsSafe` exempts both (`ReviewsPlan`, `Recovering`).
- The receive of a task-create handoff and its recovery publish no event, nor does the
  receipt of a rejection, though a watch is owed a line of each: it is told by the next periodic
  reconciliation.
- Two watches of one token share one record of deliveries and overwrite each
  other's. After `EnsureLimit` failed starts a watch no longer starts the daemon.

Answers:

- A polled answer is applied in the transaction that precedes its response, so a
  session that dies in between loses it. The poll of routed decisions is one
  transaction per decision.
- `decision.withdraw` asks no role; the role of the session that confirms an answer
  from the chat is checked before the write; a revision does not look for an open
  review of the same goal.

Sessions and the daemon:

- An approved discard is not consumed: it discards the same id again, also when
  the id was given to another agent in between.
- The retention deletes keyed sessions that are alive but old.
- No lock that a daemon takes separates the check of its files from their removal. A caller
  gives up on a daemon that starts slowly; the next `Ensure` asks the socket, where nothing
  listens yet; the daemon listens, its socket is removed, it records itself, and serves with the HTTP port and
  without a socket. `ensure.go:89` says "Deleting a socket that still answers
  strands that daemon [...] Ask the socket first."; the question narrows the window and
  does not close it. `prepareDaemonStart` removes the socket without asking
  (`main.go:789`). With `Next` for `OrderlyNext` in `LifecycleSpec` TLC finds such a
  behaviour.
- `user_version` is 7 from the first transaction of a new or bridged database on, and the
  columns of version 7 are required of every database that says 7. A process that dies
  before the migration that adds the last of them leaves a database that every later open
  refuses.
- The client that waits for its daemon accepts any healthy one, without comparing
  builds. `ln.Close` removes the socket whoever made it. Hooks open and
  migrate the database beside a daemon that serves it.

Codex:

- A change of scope leaves an action in the queue that the new scope does not
  project, and a response with an unknown id turns the monitor off.
- The race of finding 2 needs two goroutines, and always has them: a watch that hears and the
  reader of notifications that pumps. Several watches run only for an executor with several tasks.
- An idle status that was under way when a turn was submitted lets a second turn in.
- `ReapCodexMonitors` stops a pid without comparing start times.

## Proofs

Eight modules prove forty-three listed theorems, for every set of sessions, handoffs,
plans, tasks, decisions, agents, watches, processes and builds, every bound, and
without the constraints of the runs. The assumptions are those of the modules: `None` is
no member of the sets it stands beside, bounds are natural numbers, and
(`BuildAssumption`) every build embeds more than the four migrations of the bridge, and
(`SubmissionAssumption`) each thing under review may be submitted at least once.
Every invariant and every action property that a passing run checks is proved.

**`GoalProofs`**, of `HandoffSpec`: `TypeCorrect`, `OneOpenHandoff`,
`ReviewColumnsSafe` (invariants), `LiveReceiverSafe`, `ClosedIsFinal` (action
properties), `HandoffImplementsLease`, `HandoffImplementsPhases` (refinements). The
inductive invariant is
`HandoffInv == TypeOK /\ RecoveryNamesOwner /\ AtMostOneOpen`.
`RecoveryNamesOwner` is the strengthening: a recovery in flight names a session.
Without it a NULL owner would count as stale and a recovery could close a row
that it was never begun for. The argument turns on `CommitEffect`: every commit
has one of six effects on a row (nothing that matters, a request, a reclaim, a
receive, a recovery, an end), each with the guard its transaction checked. The
action properties and the refinement follow from the effects alone, the
uniqueness of the open handoff from `OpenSetStep`. The refinement of the lease also
needs `ReviewColumnsAgree`, for a row that nobody requested to have no receiver. The
refinement of the phases stands on it too, since the phase is read off the columns in
an order that says which of them may be stale, and on `OnlyRequestedEnd`: an id that
nobody requested is neither closed nor recovered, or its request would not begin an
exchange. `PhaseCommit` goes through the transactions; that a new handoff is requested
alone is `AtMostOneOpen` of the next state.

**`TaskHandoffProofs`**, of `TaskSpec`: `TaskTypeCorrect`,
`OneOpenTaskHandoff`, `TaskColumnsSafe`, `LiveExecutorSafe`, `ClosedTaskIsFinal`,
`DoneIsSettled`, `TaskImplementsLease`, `TaskImplementsPhases`. The inductive invariant is `TaskInv`: types,
`CallsFit`, `TaskColumnsAgree` and `AtMostOneOpenTaskHandoff`. `CallsFit` says what
the calls in flight rely on: a recovery names a session, as above, and a receive
names a row that exists. The second part is needed because the UPDATE of a
receive does not ask who requested the handoff; that a requested row stays
requested (`RequestedStays`) is what makes the check before the transaction good
enough. The effects of `TaskCommitEffect` are those of the goal's, except that a
receive only needs the last receiver's lease not to be held. A withdrawal of the
goal is the one step that changes several rows for another reason
(`WithdrawEffect`). `DoneIsSettled` needs no invariant: both writers of `done`
read the decisions in their own transaction. For the phases, a withdrawal closes
every open row at once (`ReportEnds`), and the receive of a recovered row, which the
UPDATE does not refuse, leaves the exchange recovered.

**`GoalProofs`**, of `ReviewSpec`: `DoneIsReviewed` (invariant),
`FinalizeIsOfReviewed`, `TakeoverTakesDecisions` (action properties),
`ReviewImplementsLifecycle`, `ReviewImplementsPhases` (refinements). The finalization is not a step of
`HandoffSpec`, so the handoff invariants are proved again for `ReviewNext`, from
the lemmas of the first part for the steps they share. `ReviewInv` adds
three things to them and to `DoneWasReviewed`. `FinalizeNamesReviewer`: a
finalization in flight names a handoff and the reviewer it read; without it a NULL
reviewer would match a submission that nobody received. `DecisionsAgree`: a review
that is answered and not applied has another label than approve, since only the
human's approval writes it and applies the review at once; without it a
poll could turn an answer into an approval. `goal \in GoalStatus` lets the steps
that move the goal be told apart (`GoalStep`).

**`PlanningProofs`**, of `PlanningSpec`: `PlanColumnsSafe`, `TasksCreatedOnce`
(invariants), `PlanningOutcomesAreFinal`, `LiveCreatorsSafe`, `AcceptanceIsKept`
(action properties). What a step does to one row is `PlanMoves` and `CreateMoves`, as
before. `PlanningInv` has the types, the two invariants, and what they
stand on: `ReceivesSubmitted`, the receive of a review in flight is of a
submitted plan, since its UPDATE does not look at the requester;
`SubmittedBeforeReview`, without which a completed plan could be submitted
under its id; and `BlankUntilFiled`, an id that was not drawn has no outcome, without
which the handoff that an acceptance files could be born closed. Of one acceptance
there is one batch, because creating tasks asks for an open handoff and closes it, and
the replacement that a recovery files is another one.

**`StopCheckProofs`**, of `AdviceSpec`: `SomebodyHasTheTurn`, `StoppedIsWoken`,
`NamedCanAct`, `NamedCanActAfterOne`.
The inductive invariant is `AdviceInv`: the types, `TaskFits` for each task,
`GoalFits`, and `ReviewFits`. `TaskFits` ties the status of a task to its row (a task to do has no row,
an unreceived or a recovered one; a task in review a submission or a recovered
one), which neither the next action nor the stop check reads together: the one looks
at the status, the other at the row. `GoalFits` says that tasks come from an accepted
plan, and that a goal handoff is completed with its goal; without it the last
branch of `stopCheckCommander` could release a commander that has to request the
handoff. `Turn` is the one lemma about `deriveNextAction` that both theorems need: who
is named, and what that says of the rows. `StoppedIsWoken` then takes the
three roles apart. The executor is never let go while its task is being done. The
commander is let go with its own turn only while it reviews the goal, and is
then prompted (`CommanderHears`). The holder of the goal is let go when it has no
rejection to answer and some task has an open row. That row may have outlived a
dropped task, and counts for the holder's prompt then too (`LeftRowHears`). The
exceptions of `StopIsSafe` are the two cases listed above in which the code
sends nothing at all. `NamedCanAct` says, for every number of deviations, that the
actor that is named has a call that is not refused, or that a task whose handoff was
recovered can be handed out again, except when an approval outlives the holder of the
handoff (`ApprovalOutlivesHolder`), which takes two deviations. This is the case listed
above, met when the invariant without the exception turned out not to be inductive.
`NamedCanActAfterOne` is the property of the run without exception, for `MaxOdd <= 1`.
Both need that what was taken back can be submitted again (`MaySubmitAgain`: the bound
on submissions is asked of a rejection and not of a submission, so that it never stops
a goal half way), and of the human's review where the handoff is while it is open or
approved (`ReviewFits`), with the deviations spent on moving it from there counted. The
lemmas follow the derivation: `PlanMay`, `TaskMay` and `WorkMay` for the steps of a
goal whose handoff is held, `NamedMay` for all others.

**`MonitorProofs`**, of `WatchSpec`: `ToldOnce`. `HeardInv` bounds the count of an action by the
kills and failed saves so far, plus one when the action is recorded or about to be. A delivery asks
for an action that is not on record and is no step of a process about to write a
record, so it starts from the lower count; the kill and the failed save are the steps that
may lose the one, and pay for it. `NoEventIsMissed` needs another invariant, `CaughtUpInv`:
as long as no event came (`stream` is quiet), the goals read are those of the board,
then the actions of the board that an event tells of (`Owing`) are left to deliver or
delivered, and at last all delivered (`Current`); what is delivered was told (`ToldAll`); and an open stream is
one of a daemon that serves, so that the report before following it arrived.
A change with an event makes the stream ready and ends the claim; one without leaves the
goals alone and owes the scope nothing new but receipts (`QuietKeeps`,
`QuietOwesReceipts`). Of `Spec` of `CodexBridge`:
`QueueStaysFresh` and `NothingStranded`.
The invariant of the first is the property with types, and the work is in the loops over the queue.
`WithoutSelects` says what `Without` returns: elements that stay, each from a place of
its own; it is an induction over the queue. `None` must be no action, which
`NoneAssumption` says of the module's constant. `NothingStranded` is what of
`QueuedIsTried` needs no fairness: with an action queued for an attached thread, some
goroutine is in `pump` (or was cut off there by a change of scope), or the end of a turn
is owed, or the last submission was refused on an idle thread. `StrandInv` says why, whatever the order of responses and notifications. An
active bridge has a turn that ends or a request that may fail (`ActiveEnds`), and so has
one that reads the beginning of a turn (`BeginningsEnd`), since the App Server
announces a beginning before the end that follows it. When a turn is refused because
another one runs, and the end of that one was read before the refusal, the reader of
notifications is in `pump` already and waits for the lock (`RefusalsEnd`,
`OneSubmits`); so only a refusal on an idle thread leaves an action behind.

**`IdentityProofs`**, of `PunctualSpec`: `OneAgentPerSession`, `NamedSessionsStay`
(invariants), `RevocationIsFinal` (action property). `IdInv` says of transports, calls in
flight, keys and references what each may rely on. `TransportsFit`: the row
behind a transport is there, is its agent's or nobody's, and neither the reclaim nor
the retention takes it. `CallsFit`: the middle of `session.identify` goes on with a
row that has the key of its agent. `KeysFit`: one row has the key, and the monitor is
bound to it. `RefsFit`: what names a row names one that is there and that the retention
keeps. The id of a new row is the largest plus one, so it is nobody's (`LeastNumber`),
and an id that is given again was named by nothing. The assumption is that of
the runs: an agent identifies itself within a day.

**`AnswersProofs`**, of `Spec` of `Answers`: `AnsweredOnce` (action property),
`ChatAnswersAreHuman`, `NoWakeUpIsLost` (invariants). `RowsFit` says only that
`decisions` is a sequence of rows with their columns, and `RowMoves` that a step
settles open rows and applies answered ones. A quote that was checked before
another answer committed is caught by the conditional write (`ChatSettles`). For
`ChatAnswersAreHuman` the invariant `ChatInv` adds `QuotesChecked`, what the check of a
quote found may still be quoted when the answer is written, as lines are only
appended and the kind of a decision stays, and `AnswersQuoted`, the property itself; that no line
answers twice is checked again by the write, which passes over used lines.
`WakeInv` adds to `WaitsAreWoken` that a change due to be published has settled
its decision and that a waiting call names one that was asked; `News` is what every
settling owes the waiters, and `PublishWakes` is where the duty passes from the
publication to the signal.

**`LifecycleProofs`**, of the full `Spec` of `Lifecycle`: `LifecycleTyped`,
`MigrationsOnce` and `OpenStoresAreComplete`. `StoreInv`
is `ProcessesFit`, what a process in its middle relies on (at the step that applies
migrations one by one it is past the first), and `StoreFits`: a database without
tables has run nothing, which is why the baseline may run on it, and records are
closed downwards. Every transaction reads the record again before it runs a
migration, so an old look at the schema does no harm; nothing is assumed of locks
or of how long anything takes. `OpenStoresAreComplete` adds `ProcessesComplete`, what a
process that migrates has passed is recorded, though others ran it; and a process gets
its build before it opens the store. Of `OrderlySpec`: `DaemonIsReachable`. `ReachInv` has
the types and three facts. `DaemonsInOrder`: a daemon that is bound, or leaves, has the port,
which is what excludes a second one that is up, and it is not in the registry before it records
itself, although its pid may have been. `FilesFit`: the socket and the record of the daemon that
has the port and stays are its own. `RemovingFits`: while somebody is about to remove files,
no daemon that stays is up. Who checks the registry finds none up, when none is half up
(`StaleMeansNoneUp`), and who asks the socket as well needs no such help
(`SilentMeansNoneUp`).

Only model-checked are `EverythingOwedIsHeard`, `AdviceLeadsToDone`, `SettledWaitEnds`
and `QueuedIsTried`, which are liveness under fairness and beyond the prover. Of all
but `AdviceLeadsToDone` the part that needs no fairness is proved (`NoEventIsMissed`,
`NoWakeUpIsLost`, `NothingStranded`), and of that one that somebody who can act is
always named (`NamedCanAct`). What the violation runs show is a single behaviour each.
A definition of the library that recurses with an operator as its parameter
(`SelectSeq`) cannot be reasoned about, which is why `Without` is a recursive function;
for such a function, induction is an instance of well-founded induction for a *set* of
numbers (`CountInduction`, `LeastNumber`, `GreatestNumber`).

## Not modelled, and what is left

Left out, with the reason:

- the tracker of wakeups that were sent, and the report of lost monitors: reminders,
  repeated by the next tick;
- the supervisor of Codex processes, their registry and the socket for
  acknowledgements: they turn on pids, signals and files of other programs;
- checks of monitors, archives and merges, the dashboard's views, token usage:
  they read and decide nothing;
- handoff entries and review history: an append-only log that no guard reads;
- project and goal records, the command line, the MCP translation, skills
  and hooks: no state of the protocol beyond what the modules have.

Worth doing next: the wakeup tracker, a composition of `Watch` with `CodexBridge`, and
`Advice` as an abstraction of the handoff modules.
