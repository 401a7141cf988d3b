-------------------------------- MODULE Watch --------------------------------
(***************************************************************************)
(* One token-bound monitor process (`atct watch --monitor --once`) and the *)
(* daemon it reads: snapshot, reconciliation, event subscription, delivery *)
(* to the agent through the token's record on disk, recovery of a daemon   *)
(* that went away, health reports, and the watermark that lets a re-armed  *)
(* watch announce the goals it missed.                                     *)
(***************************************************************************)
EXTENDS WatchScope

CONSTANTS InitialBoards, \* boards a monitor may be armed on
          InitialScopes, \* assignments its token may be bound to
          MaxSteps,      \* bound: changes of the board
          MaxStops,      \* bound: times the daemon goes away
          MaxLosses,     \* bound: times the monitor process is killed or cannot
                         \* write its record
          MaxFailures,   \* bound: failed attempts to start the daemon
          EnsureLimit    \* watchEnsureMaxFailures

ASSUME WatchAssumption ==
  /\ InitialBoards \subseteq Board /\ InitialScopes \subseteq Scopes
  /\ {MaxSteps, MaxStops, MaxLosses, MaxFailures} \subseteq Nat
  /\ EnsureLimit \in Nat \ {0}

VARIABLES
  board,   \* what the store holds
  left,    \* changes, stops, losses and failed starts that are left
  daemon,  \* the daemon serves requests
  stream,  \* the event stream: closed, quiet, or with events that wait on it
  scope,   \* the assignment of the token
  p,       \* the memory of the process
  seen,    \* the record of the token on disk
  heard,   \* how often each action was written to the agent
  mark,    \* the watermark of the token's binding
  row      \* the state in the process's monitor_health row

wvars == <<board, left, daemon, stream, scope, p, seen, heard, mark, row>>

NoMark == [known |-> FALSE, covers |-> {}]
NoHalf == [goal |-> "active", others |-> {}]

\* A process that was just started: it remembers no delivery and no goal.
Fresh ==
  [pc |-> "snapshot", half |-> NoHalf, first |-> TRUE, goals |-> {}, todo |-> {},
   mem |-> {}, unsaved |-> {}, fired |-> FALSE, subscribed |-> FALSE,
   state |-> "healthy", failures |-> 0]

WatchTypeOK ==
  /\ board \in Board /\ scope \in Scopes
  /\ left \in [steps : 0..MaxSteps, stops : 0..MaxStops, losses : 0..MaxLosses,
               failures : 0..MaxFailures]
  /\ daemon \in BOOLEAN /\ stream \in {"closed", "quiet", "ready"}
  /\ daemon \/ stream = "closed"
  /\ p.pc \in {"off", "snapshot", "goals", "rest", "project", "save", "report",
               "subscribe", "stream", "ensure"}
  /\ p.half \in [goal : {"active", "stopped"}, others : SUBSET NewGoal]
  /\ p.goals \subseteq NewGoal /\ p.todo \cap p.mem = {}
  /\ p.state \in {"healthy", "recovering", "degraded"} /\ p.failures \in 0..EnsureLimit
  /\ p.unsaved \subseteq p.mem /\ (p.pc = "save" => p.unsaved # {})
  /\ seen \subseteq DOMAIN heard
  /\ mark \in [known : BOOLEAN, covers : SUBSET NewGoal]
  /\ row \in {"none", "healthy", "recovering", "degraded", "rearming"}

WatchInit ==
  /\ board \in InitialBoards /\ scope \in InitialScopes
  /\ left = [steps |-> MaxSteps, stops |-> MaxStops, losses |-> MaxLosses,
             failures |-> MaxFailures]
  /\ daemon = TRUE /\ stream = "closed" /\ p = Fresh
  /\ seen = {} /\ heard = <<>> /\ mark = NoMark /\ row = "none"

-----------------------------------------------------------------------------
(* The daemon and the board.                                               *)

\* An open stream passes an event on; its buffer of 16 events cannot fill within
\* MaxSteps, and any event makes the watch reconcile.
Sent == IF stream = "closed" THEN stream ELSE "ready"

\* A call of a session or of a person.  A change commits before its event is
\* published; some changes have no event.
Change ==
  /\ daemon /\ left.steps > 0
  /\ left' = [left EXCEPT !.steps = @ - 1]
  /\ \/ board' \in AnnouncedBoards(board) /\ stream' = Sent
     \/ board' \in QuietBoards(board) /\ stream' = stream
  /\ UNCHANGED <<daemon, scope, p, seen, heard, mark, row>>

\* The daemon stops serving, and the streams it served break.
DaemonStops ==
  /\ daemon /\ left.stops > 0
  /\ daemon' = FALSE /\ stream' = "closed"
  /\ left' = [left EXCEPT !.stops = @ - 1]
  /\ UNCHANGED <<board, scope, p, seen, heard, mark, row>>

\* Another agent's command ensures the daemon.
OthersStartDaemon ==
  /\ ~daemon /\ daemon' = TRUE
  /\ UNCHANGED <<board, left, stream, scope, p, seen, heard, mark, row>>

\* A health report is posted in place, and lost when nothing listens.
Post(state) == row' = IF daemon THEN state ELSE row

-----------------------------------------------------------------------------
(* The loop of the process.                                                *)

Internal == UNCHANGED <<board, left, daemon, scope>>
Silent == UNCHANGED <<seen, heard, mark>>

\* An error of a request: report it once, and recover the daemon.
Fail ==
  /\ p' = [p EXCEPT !.pc = "ensure", !.half = NoHalf, !.todo = {},
             !.subscribed = FALSE, !.state = IF @ = "healthy" THEN "recovering" ELSE @]
  /\ IF p.state = "healthy" THEN Post("recovering") ELSE row' = row
  /\ stream' = "closed"
  /\ Internal /\ Silent

Step(q) == p' = q /\ Internal /\ Silent /\ UNCHANGED <<stream, row>>

Snapshot ==
  /\ p.pc = "snapshot"
  /\ \/ ~daemon /\ Fail
     \/ daemon /\ Step([p EXCEPT !.pc = "goals", !.failures = 0])

\* ReconcileWorkflow lists the goals, and reads the tables of each goal after
\* that, each in a query of its own.
ReadGoals ==
  /\ p.pc = "goals"
  /\ \/ ~daemon /\ Fail
     \/ daemon /\ Step([p EXCEPT !.pc = "rest",
                          !.half = [goal |-> board.goal, others |-> board.others]])

Snapped == [board EXCEPT !.goal = p.half.goal, !.others = p.half.others]

ReadRest ==
  /\ p.pc = "rest"
  /\ \/ ~daemon /\ Fail
     \/ daemon /\ Step([p EXCEPT !.pc = "project",
                          !.todo = (Projected(scope, Snapped)
                                      \cup NewGoals(scope, p.goals, p.first, mark,
                                                    p.half.others)) \ p.mem])

\* One event of the projection, marked as delivered once it is written.  The
\* agent's channel takes an action that the token's record does not hold; what the
\* process could not record before it still has in memory.
Deliver(i) ==
  /\ p.pc = "project" /\ i \in p.todo
  /\ LET q == [p EXCEPT !.todo = @ \ {i}, !.mem = @ \cup {i}]
     IN  IF ReachesAgent(i) /\ i \notin seen
           THEN /\ p' = [q EXCEPT !.unsaved = @ \cup {i}, !.pc = "save"]
                /\ heard' = [j \in DOMAIN heard \cup {i} |->
                               (IF j \in DOMAIN heard THEN heard[j] ELSE 0)
                                 + (IF j = i THEN 1 ELSE 0)]
           ELSE p' = q /\ UNCHANGED heard
  /\ Internal /\ UNCHANGED <<seen, mark, stream, row>>

\* Mutant: the record is kept in memory and never written.
SaveRecordInMemory ==
  /\ p.pc = "save"
  /\ p' = [p EXCEPT !.unsaved = {}, !.fired = TRUE, !.pc = "project"]
  /\ Internal /\ UNCHANGED <<seen, heard, mark, stream, row>>

\* The record is renamed into place after the action was written.
SaveRecord ==
  /\ p.pc = "save"
  /\ seen' = seen \cup p.unsaved
  /\ p' = [p EXCEPT !.unsaved = {}, !.fired = TRUE, !.pc = "project"]
  /\ Internal /\ UNCHANGED <<heard, mark, stream, row>>

\* The record cannot be written: that is reported, and the watch goes on.
SaveFails ==
  /\ p.pc = "save" /\ left.losses > 0
  /\ left' = [left EXCEPT !.losses = @ - 1]
  /\ p' = [p EXCEPT !.fired = TRUE, !.pc = "project"]
  /\ UNCHANGED <<board, daemon, scope, stream, row>> /\ Silent

EndReconcile ==
  /\ p.pc = "project" /\ p.todo = {}
  /\ Step([p EXCEPT !.pc = "report", !.first = FALSE, !.goals = p.half.others])

\* Mutant: a watch that believes itself healthy reports nothing.
ReportHealthyOnChange ==
  /\ p.pc = "report"
  /\ p' = [p EXCEPT !.state = "healthy", !.failures = 0, !.half = NoHalf,
             !.pc = IF p.subscribed THEN "stream" ELSE "subscribe"]
  /\ IF p.state # "healthy" \/ row = "none" THEN Post("healthy") ELSE row' = row
  /\ Internal /\ UNCHANGED <<stream, seen, heard, mark>>

\* The report of a finished reconciliation.  A healthy project-wide watch moves
\* the watermark of its token to the time of the report: every goal that exists
\* by then is at or before it.
ReportHealthy ==
  /\ p.pc = "report"
  /\ p' = [p EXCEPT !.state = "healthy", !.failures = 0, !.half = NoHalf,
             !.pc = IF p.subscribed THEN "stream" ELSE "subscribe"]
  /\ Post("healthy")
  /\ mark' = IF daemon /\ ProjectWide(scope)
               THEN [known |-> TRUE, covers |-> board.others] ELSE mark
  /\ Internal /\ UNCHANGED <<stream, seen, heard>>

\* Mutant: the stream is followed without reconciling once more.
SubscribeOnly ==
  /\ p.pc = "subscribe"
  /\ \/ ~daemon /\ Fail
     \/ /\ daemon /\ stream' = "quiet"
        /\ p' = [p EXCEPT !.pc = "stream", !.subscribed = TRUE]
        /\ Internal /\ Silent /\ UNCHANGED row

\* Events before the subscription are not on the stream: reconcile once more.
Subscribe ==
  /\ p.pc = "subscribe"
  /\ \/ ~daemon /\ Fail
     \/ /\ daemon /\ stream' = "quiet"
        /\ p' = [p EXCEPT !.pc = "goals", !.subscribed = TRUE]
        /\ Internal /\ Silent /\ UNCHANGED row

Follow ==
  /\ p.pc = "stream" /\ stream = "ready"
  /\ stream' = "quiet" /\ p' = [p EXCEPT !.pc = "goals"]
  /\ Internal /\ Silent /\ UNCHANGED row

\* The reconcile ticker.
Tick == p.pc = "stream" /\ stream # "closed" /\ Step([p EXCEPT !.pc = "goals"])

StreamEnds == p.pc = "stream" /\ stream = "closed" /\ Fail

GaveUp == p.failures >= EnsureLimit

\* recoverDaemon: start or reuse a daemon unless EnsureLimit attempts in a row
\* failed, then wait and take a new snapshot.
EnsureDaemon ==
  /\ p.pc = "ensure" /\ ~GaveUp
  /\ daemon' = TRUE /\ p' = [p EXCEPT !.pc = "snapshot", !.failures = 0]
  /\ UNCHANGED <<board, left, scope, stream, row>> /\ Silent

EnsureFails ==
  /\ p.pc = "ensure" /\ ~GaveUp /\ ~daemon /\ left.failures > 0
  /\ left' = [left EXCEPT !.failures = @ - 1]
  /\ p' = [p EXCEPT !.pc = "snapshot", !.failures = @ + 1,
             !.state = IF p.failures + 1 >= EnsureLimit THEN "degraded" ELSE @]
  /\ UNCHANGED <<board, daemon, scope, stream, row>> /\ Silent

WaitWithoutEnsure ==
  p.pc = "ensure" /\ GaveUp /\ Step([p EXCEPT !.pc = "snapshot"])

-----------------------------------------------------------------------------
(* The process ends and is armed again.                                    *)

Gone ==
  /\ p' = [Fresh EXCEPT !.pc = "off"] /\ stream' = "closed"
  /\ UNCHANGED <<board, daemon, scope>> /\ Silent

Crash ==
  /\ p.pc # "off" /\ left.losses > 0
  /\ left' = [left EXCEPT !.losses = @ - 1]
  /\ Gone /\ UNCHANGED row

\* A --once watch ends a moment after its first delivery, and announces that
\* it expects to be armed again.
EndOnce ==
  /\ p.fired /\ p.pc # "save"
  /\ Gone /\ Post("rearming") /\ UNCHANGED left

\* The agent arms the watch again when it ends.
Rearm == p.pc = "off" /\ Step(Fresh)

Loop ==
  \/ Snapshot \/ ReadGoals \/ ReadRest \/ (\E i \in p.todo : Deliver(i)) \/ SaveRecord
  \/ EndReconcile \/ ReportHealthy \/ Subscribe \/ Follow \/ StreamEnds

Recover == EnsureDaemon \/ WaitWithoutEnsure

WatchNext ==
  \/ Change \/ DaemonStops \/ OthersStartDaemon
  \/ Loop \/ Tick \/ Recover \/ EnsureFails
  \/ SaveFails \/ Crash \/ EndOnce \/ Rearm

\* The process runs whenever it can, its agent arms it again, and a daemon
\* that is away is started: by the process unless the start fails, and by the
\* next command of another agent.
WatchFairness ==
  WF_wvars(Loop) /\ WF_wvars(Recover) /\ WF_wvars(Rearm) /\ WF_wvars(OthersStartDaemon)

WatchSpec == WatchInit /\ [][WatchNext]_wvars /\ WatchFairness

-----------------------------------------------------------------------------
(* Properties.                                                             *)

Owed == {i \in Projected(scope, board) : ReachesAgent(i)}

\* A receipt: it is projected, but no event tells of it.
IsReceipt(i) == i.kind = "taskcreate" \/ i.step = "review.reject.receive"

Announced == {i \in Owed : ~IsReceipt(i)}

AnnouncedIsHeard == <>[](Announced \subseteq DOMAIN heard)

\* What the store announced to the scope and still holds reaches its agent in the
\* end, across restarts of the daemon and of the process, and without the help of
\* the periodic reconciliation: no event falls between a snapshot and the stream.
\* With its help everything the store holds for the scope does, the receipts
\* included that no event tells of.
EverythingOwedIsHeard ==
  /\ AnnouncedIsHeard
  /\ WF_wvars(Tick) => <>[](Owed \subseteq DOMAIN heard)

\* A watch that follows the stream, with no event waiting on it, has nothing to
\* catch up with but receipts: its agent was told of everything else the store
\* holds for it, though the goals and their tables were read apart, and it is
\* listed as healthy, though its reports are lost while the daemon is away.
FollowingIsCaughtUp ==
  p.pc = "stream" /\ stream = "quiet" => Announced \subseteq DOMAIN heard /\ row = "healthy"

\* An action is repeated to the agent only when the record of it was lost: the
\* process was killed between writing and recording it, or could not record it.
RepeatedOnlyWhenLost ==
  \A i \in DOMAIN heard : heard[i] <= 1 + (MaxLosses - left.losses)
=============================================================================
