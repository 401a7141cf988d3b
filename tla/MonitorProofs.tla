---------------------------- MODULE MonitorProofs ----------------------------
(***************************************************************************)
(* Proofs about the two ends of a monitor, for every scope, board, queue   *)
(* and bound: what the watch writes to its agent (Watch), and the queue    *)
(* that the bridge of a Codex session starts turns from (CodexBridge).     *)
(***************************************************************************)
EXTENDS Watch, CodexBridge, WellFoundedInduction, SequenceTheorems, TLAPS

-----------------------------------------------------------------------------
(* Watch: an action is repeated only when its record was lost.             *)

\* The kills and failed saves there were, each of which may cost the record of an
\* action.
Kills == MaxLosses - left.losses

\* An action is on record, or written and about to be put there.
Recorded(i) == i \in seen \/ (p.pc = "save" /\ i \in p.unsaved)

Kept == [steps : Nat, stops : Nat, losses : 0..MaxLosses, failures : Nat]
ProcessOK == DOMAIN p = DOMAIN Fresh

HeardInv ==
  /\ ProcessOK
  /\ left \in Kept
  /\ \A i \in DOMAIN heard :
       /\ heard[i] \in Nat
       /\ heard[i] <= Kills + (IF Recorded(i) THEN 1 ELSE 0)

LEMMA HeardInit == WatchInit => HeardInv
BY WatchAssumption DEF WatchInit, HeardInv, ProcessOK, Fresh, Kept

\* The agent hears nothing: the counts stay, and nothing about to be recorded
\* is forgotten.
LEMMA NothingHeard ==
  ASSUME HeardInv, UNCHANGED <<heard, seen>>, DOMAIN p' = DOMAIN p,
         \/ p.pc # "save"
         \/ p' = p,
         left' \in Kept,
         left'.losses = left.losses
  PROVE  HeardInv'
<1>1. Kills \in Nat /\ Kills' \in Nat /\ Kills <= Kills'
  BY WatchAssumption DEF HeardInv, Kills, Kept
<1>2. \A i : Recorded(i) => Recorded(i)'
  BY DEF Recorded
<1> QED BY <1>1, <1>2 DEF HeardInv, ProcessOK

\* A step of the process in its loop, other than the two that write.
LEMMA LoopHearsNothing ==
  ASSUME HeardInv, Loop \/ Tick \/ Recover \/ EnsureFails \/ Rearm,
         ~SaveRecord, ~ \E i \in p.todo : Deliver(i)
  PROVE  HeardInv'
<1>1. left' \in Kept /\ left'.losses = left.losses /\ UNCHANGED <<heard, seen>>
  <2>1. CASE EnsureFails
    BY <2>1 DEF EnsureFails, Silent, Kept, HeardInv
  <2>2. CASE ~EnsureFails
    BY <2>2 DEF Loop, Tick, Recover, Rearm, Snapshot, ReadGoals, ReadRest, EndReconcile,
       ReportHealthy, Subscribe, Follow, StreamEnds, EnsureDaemon, WaitWithoutEnsure,
       Fail, Step, Internal, Silent, Kept, HeardInv
  <2> QED BY <2>1, <2>2
<1>2. p.pc # "save" /\ DOMAIN p' = DOMAIN p
  BY DEF Loop, Tick, Recover, EnsureFails, Rearm, Snapshot, ReadGoals, ReadRest,
     EndReconcile, ReportHealthy, Subscribe, Follow, StreamEnds, EnsureDaemon,
     WaitWithoutEnsure, Fail, Step, HeardInv, ProcessOK
<1> QED BY <1>1, <1>2, NothingHeard DEF Kept

\* An action that is written was not on record, and is about to be.
LEMMA DeliveryHeard ==
  ASSUME HeardInv, NEW i, Deliver(i)
  PROVE  HeardInv'
<1>1. CASE ReachesAgent(i) /\ i \notin seen
  <2>1. /\ p.pc = "project" /\ UNCHANGED <<seen, left>>
        /\ heard' = [j \in DOMAIN heard \cup {i} |->
                       (IF j \in DOMAIN heard THEN heard[j] ELSE 0) + (IF j = i THEN 1 ELSE 0)]
    BY <1>1 DEF Deliver, Internal
  <2>2. PICK q : q = [p EXCEPT !.todo = @ \ {i}, !.mem = @ \cup {i}]
    OBVIOUS
  <2>3. DOMAIN q = DOMAIN Fresh /\ p' = [q EXCEPT !.unsaved = @ \cup {i}, !.pc = "save"]
    BY <1>1, <2>2 DEF Deliver, HeardInv, ProcessOK
  <2>4. p'.pc = "save" /\ i \in p'.unsaved /\ DOMAIN p' = DOMAIN Fresh
    BY <2>3 DEF Fresh
  <2>5. Kills \in Nat /\ Kills' = Kills
    BY <2>1, WatchAssumption DEF HeardInv, Kills, Kept
  <2>6. \A j : Recorded(j) <=> j \in seen
    BY <2>1 DEF Recorded
  <2>7. \A j : (j \in seen \/ j = i) => Recorded(j)'
    BY <2>1, <2>4 DEF Recorded
  <2>8. ASSUME NEW j \in DOMAIN heard'
        PROVE  heard'[j] \in Nat /\ heard'[j] <= Kills' + (IF Recorded(j)' THEN 1 ELSE 0)
    BY <1>1, <2>1, <2>5, <2>6, <2>7 DEF HeardInv
  <2> QED BY <2>1, <2>4, <2>8 DEF HeardInv, ProcessOK
<1>2. CASE ~(ReachesAgent(i) /\ i \notin seen)
  <2>1. p.pc = "project" /\ UNCHANGED <<seen, left, heard>> /\ DOMAIN p' = DOMAIN p
    BY <1>2 DEF Deliver, Internal
  <2> QED BY <2>1, NothingHeard DEF HeardInv
<1> QED BY <1>1, <1>2

\* What was written last is on record from now on.
LEMMA SavedHeard ==
  ASSUME HeardInv, SaveRecord
  PROVE  HeardInv'
<1>1. /\ p.pc = "save" /\ seen' = seen \cup p.unsaved /\ UNCHANGED <<heard, left>>
      /\ DOMAIN p' = DOMAIN p
  BY DEF SaveRecord, Internal
<1>2. \A i : Recorded(i) => Recorded(i)'
  BY <1>1 DEF Recorded
<1>3. Kills \in Nat /\ Kills' = Kills
  BY <1>1, WatchAssumption DEF HeardInv, Kills, Kept
<1> QED BY <1>1, <1>2, <1>3 DEF HeardInv, ProcessOK

\* A kill and a failed save may lose the record of an action: the count of them
\* pays for it.
LEMMA KillHeard ==
  ASSUME HeardInv, Crash \/ SaveFails
  PROVE  HeardInv'
<1>1. /\ left.losses > 0 /\ left' = [left EXCEPT !.losses = @ - 1]
      /\ UNCHANGED <<heard, seen>> /\ DOMAIN p' = DOMAIN Fresh
  BY DEF Crash, SaveFails, Gone, Silent, HeardInv, ProcessOK
<1>2. left' \in Kept /\ left'.losses = left.losses - 1
  <2>1. left \in Kept /\ left.losses \in 0..MaxLosses
    BY DEF HeardInv, Kept
  <2>2. left.losses - 1 \in 0..MaxLosses
    BY <1>1, <2>1, WatchAssumption
  <2> QED BY <1>1, <2>1, <2>2 DEF Kept
<1>3. Kills \in Nat /\ Kills' = Kills + 1
  BY <1>2, WatchAssumption DEF HeardInv, Kills, Kept
<1> QED BY <1>1, <1>2, <1>3 DEF HeardInv, ProcessOK, Kept

LEMMA HeardStep ==
  ASSUME HeardInv, [WatchNext]_wvars
  PROVE  HeardInv'
<1>1. CASE Change \/ DaemonStops \/ OthersStartDaemon
  <2>1. left' \in Kept /\ left'.losses = left.losses
    BY <1>1 DEF Change, DaemonStops, OthersStartDaemon, HeardInv, Kept
  <2>2. UNCHANGED <<heard, seen, p>>
    BY <1>1 DEF Change, DaemonStops, OthersStartDaemon, Silent
  <2> QED BY <2>1, <2>2, NothingHeard DEF Kept, HeardInv
<1>2. CASE EndOnce
  <2>1. p.pc # "save" /\ UNCHANGED <<heard, seen, left>> /\ DOMAIN p' = DOMAIN p
    BY <1>2 DEF EndOnce, Gone, Silent, HeardInv, ProcessOK
  <2> QED BY <2>1, NothingHeard DEF HeardInv
<1>3. CASE UNCHANGED wvars
  BY <1>3, NothingHeard DEF wvars, HeardInv
<1>4. CASE Loop \/ Tick \/ Recover \/ EnsureFails \/ Rearm
  BY <1>4, LoopHearsNothing, DeliveryHeard, SavedHeard
<1> QED BY <1>1, <1>2, <1>3, <1>4, KillHeard DEF WatchNext

\* A monitor tells its agent an action once, and once more for each time its
\* process was killed between the write and the rename of the token's record, or
\* could not write that record (watchOnce.Sink): no re-arming, lost daemon or
\* repeated reconciliation repeats it.
THEOREM ToldOnce == WatchSpec => []RepeatedOnlyWhenLost
<1>1. HeardInv => RepeatedOnlyWhenLost
  <2> SUFFICES ASSUME HeardInv, NEW i \in DOMAIN heard
               PROVE  heard[i] <= 1 + (MaxLosses - left.losses)
    BY DEF RepeatedOnlyWhenLost
  <2>1. Kills \in Nat
    BY WatchAssumption DEF HeardInv, Kills, Kept
  <2> QED BY <2>1 DEF HeardInv, Kills
<1> QED BY <1>1, HeardInit, HeardStep, PTL DEF WatchSpec

-----------------------------------------------------------------------------
(* Watch: a watch that follows a quiet stream has nothing to catch up with. *)

IsFcn(f) == f = [x \in DOMAIN f |-> f[x]]

\* A board is a record of the rows the daemon reports.
BoardOK(b) ==
  /\ IsFcn(b)
  /\ DOMAIN b = {"goal", "gh", "ph", "th", "tc", "ask", "review", "others"}
  /\ DOMAIN b.th = Task
  /\ DOMAIN b.ask = {"status", "role", "task", "byDefault", "old"}

\* What the board holds and an event told of.
Told(b) == {i \in Projected(scope, b) : ~IsReceipt(i)}
Owing == Told(board)

\* What a reconciliation knows at each step of it, if no event came since it
\* began: the goals are still those it read, the actions of the board are those
\* it has to deliver or has delivered.
Current ==
  /\ p.pc = "rest" => p.half.goal = board.goal /\ p.half.others = board.others
  /\ p.pc \in {"project", "save"} => Owing \subseteq p.todo \cup p.mem
  /\ p.pc \in {"report", "stream"} => Owing \subseteq p.mem

\* The memory of the process holds no action of which the agent was not told.
ToldAll == \A i \in p.mem : ReachesAgent(i) => i \in DOMAIN heard

CaughtUpInv ==
  /\ ProcessOK /\ BoardOK(board)
  /\ stream # "closed" => daemon
  /\ seen \subseteq DOMAIN heard
  /\ p.unsaved \subseteq DOMAIN heard
  /\ ToldAll
  /\ p.pc = "stream" /\ stream # "closed" => row = "healthy"
  /\ stream = "quiet" => Current

LEMMA CaughtUpInit == WatchInit => CaughtUpInv
<1> SUFFICES ASSUME WatchInit PROVE CaughtUpInv
  OBVIOUS
<1>1. BoardOK(board)
  BY WatchAssumption DEF WatchInit, Board, BoardOK, IsFcn
<1> QED BY <1>1 DEF WatchInit, CaughtUpInv, ProcessOK, Fresh, ToldAll

\* c is b with one of its rows moved to h.
Moved(b, h, c) ==
  \/ c = [b EXCEPT !.ph = h, !.tc = IF h.phase = "completed" THEN "requested" ELSE @]
  \/ \E t \in Task : c = [b EXCEPT !.th[t] = h]
  \/ c = [b EXCEPT !.gh = h, !.goal = IF h.phase = "completed" THEN "stopped" ELSE @]

LEMMA OneRowMoves ==
  ASSUME NEW b, NEW phases, NEW c \in HandoffSteps(b, phases)
  PROVE  \E h : h.phase \in phases /\ Moved(b, h, c)
<1> DEFINE moved(h) == {x \in Advanced(h) : x.phase \in phases}
           plans == {[b EXCEPT !.ph = h, !.tc = IF h.phase = "completed" THEN "requested" ELSE @] :
                       h \in moved(b.ph)}
           tasks == UNION {{[b EXCEPT !.th[t] = h] : h \in moved(b.th[t])} : t \in Task}
           goals == {[b EXCEPT !.gh = h, !.goal = IF h.phase = "completed" THEN "stopped" ELSE @] :
                       h \in {x \in moved(b.gh) :
                                /\ x.phase = "completed" => Approved(b)
                                /\ x.phase = "rejected" => b.review.status # "open"}}
<1>1. c \in plans \/ c \in tasks \/ c \in goals
  BY DEF HandoffSteps
<1>2. CASE c \in plans
  BY <1>2 DEF Moved
<1>3. CASE c \in tasks
  <2>1. PICK t \in Task : c \in {[b EXCEPT !.th[t] = h] : h \in moved(b.th[t])}
    BY <1>3
  <2>2. PICK h \in moved(b.th[t]) : c = [b EXCEPT !.th[t] = h]
    BY <2>1
  <2> QED BY <2>2 DEF Moved
<1>4. CASE c \in goals
  BY <1>4 DEF Moved
<1> QED BY <1>1, <1>2, <1>3, <1>4

\* A change leaves a board a record.
LEMMA RowsAreRecords ==
  ASSUME NEW b, BoardOK(b), NEW phases, NEW c \in HandoffSteps(b, phases)
  PROVE  BoardOK(c)
<1>1. PICK h : Moved(b, h, c)
  BY OneRowMoves
<1>2. CASE \E t \in Task : c = [b EXCEPT !.th[t] = h]
  <2>1. PICK t \in Task : c = [b EXCEPT !.th[t] = h]
    BY <1>2
  <2>2. c = [b EXCEPT !.th = [b.th EXCEPT ![t] = h]]
    BY <2>1 DEF BoardOK
  <2> QED BY <2>2 DEF BoardOK, IsFcn
<1>3. CASE c = [b EXCEPT !.ph = h, !.tc = IF h.phase = "completed" THEN "requested" ELSE @]
  BY <1>3 DEF BoardOK, IsFcn
<1>4. CASE c = [b EXCEPT !.gh = h, !.goal = IF h.phase = "completed" THEN "stopped" ELSE @]
  BY <1>4 DEF BoardOK, IsFcn
<1> QED BY <1>1, <1>2, <1>3, <1>4 DEF Moved

LEMMA BoardsAreRecords ==
  ASSUME NEW b, BoardOK(b), NEW c \in AnnouncedBoards(b) \cup QuietBoards(b)
  PROVE  BoardOK(c)
<1>1. CASE c \in GoalCreated(b)
  BY <1>1 DEF GoalCreated, BoardOK, IsFcn
<1>2. CASE \E phases : c \in HandoffSteps(b, phases)
  BY <1>2, RowsAreRecords
<1>3. CASE c \in ReviewSubmissions(b)
  BY <1>3 DEF ReviewSubmissions, BoardOK, IsFcn
<1>4. CASE c \in ReviewAnswers(b)
  BY <1>4 DEF ReviewAnswers, BoardOK, IsFcn
<1>5. CASE c \in QuestionSteps(b) \cup AnswerAges(b)
  <2>1. \E a : /\ DOMAIN a = {"status", "role", "task", "byDefault", "old"}
               /\ c = [b EXCEPT !.ask = a]
    <3>1. CASE c \in QuestionSteps(b)
      <4>1. CASE \E s : c = [b EXCEPT !.ask.status = s]
        BY <4>1 DEF BoardOK
      <4>2. CASE \E s, d : c = [b EXCEPT !.ask.status = s, !.ask.byDefault = d]
        BY <4>2 DEF BoardOK
      <4> QED BY <3>1, <4>1, <4>2 DEF QuestionSteps
    <3>2. CASE c \in AnswerAges(b)
      BY <3>2 DEF AnswerAges, BoardOK
    <3> QED BY <1>5, <3>1, <3>2
  <2> QED BY <2>1 DEF BoardOK, IsFcn
<1>6. CASE c \in TaskCreateSteps(b)
  BY <1>6 DEF TaskCreateSteps, BoardOK, IsFcn
<1>7. CASE c = WithdrawnGoal(b)
  BY <1>7 DEF WithdrawnGoal, BoardOK, IsFcn
<1> QED BY <1>1, <1>2, <1>3, <1>4, <1>5, <1>6, <1>7 DEF AnnouncedBoards, QuietBoards

\* What a change without an event leaves alone.
SameButQuiet(h, x) == x = h \/ x.phase \in QuietPhases

LEMMA QuietKeeps ==
  ASSUME NEW b, BoardOK(b), NEW c \in QuietBoards(b)
  PROVE  /\ c.goal = b.goal /\ c.others = b.others /\ c.review = b.review
         /\ c.ask.status = b.ask.status /\ c.ask.role = b.ask.role
         /\ c.ask.task = b.ask.task /\ c.ask.byDefault = b.ask.byDefault
         /\ SameButQuiet(b.gh, c.gh) /\ SameButQuiet(b.ph, c.ph)
         /\ \A t \in Task : SameButQuiet(b.th[t], c.th[t])
<1>1. CASE c \in HandoffSteps(b, QuietPhases)
  <2>1. PICK h : h.phase \in QuietPhases /\ Moved(b, h, c)
    BY <1>1, OneRowMoves
  <2>2. CASE \E t \in Task : c = [b EXCEPT !.th[t] = h]
    <3>1. PICK t \in Task : c = [b EXCEPT !.th[t] = h]
      BY <2>2
    <3>2. c = [b EXCEPT !.th = [b.th EXCEPT ![t] = h]]
      BY <3>1 DEF BoardOK
    <3> QED BY <2>1, <3>2 DEF BoardOK, SameButQuiet
  <2>3. h.phase # "completed"
    BY <2>1 DEF QuietPhases
  <2> QED BY <2>1, <2>2, <2>3 DEF Moved, BoardOK, SameButQuiet
<1>2. CASE c \in TaskCreateSteps(b)
  BY <1>2 DEF TaskCreateSteps, BoardOK, SameButQuiet
<1>3. CASE c \in AnswerAges(b)
  BY <1>3 DEF AnswerAges, BoardOK, SameButQuiet
<1> QED BY <1>1, <1>2, <1>3 DEF QuietBoards

\* A row that is received or recovered quietly shows nothing but its receipt, so
\* that such a change owes the scope nothing new but receipts.
LEMMA QuietOwesReceipts ==
  ASSUME NEW b, BoardOK(b), NEW c \in QuietBoards(b)
  PROVE  Told(c) \subseteq Told(b)
<1> SUFFICES ASSUME NEW i \in Projected(scope, c), ~IsReceipt(i)
             PROVE  i \in Projected(scope, b)
  BY DEF Told
<1>1. Stopped(c) = Stopped(b)
  BY QuietKeeps DEF Stopped
<1>2. CASE i \in AskItems(scope, c)
  <2>1. c.gh.phase = "reviewing" => c.gh = b.gh
    BY QuietKeeps DEF SameButQuiet, QuietPhases
  <2>2. /\ c.ask.status = b.ask.status /\ c.ask.role = b.ask.role
        /\ c.ask.task = b.ask.task /\ c.ask.byDefault = b.ask.byDefault
    BY QuietKeeps
  <2>3. /\ ObservesAnswer(scope, c) => ObservesAnswer(scope, b)
        /\ AskInScope(scope, c) = AskInScope(scope, b)
    BY <1>1, <2>1, <2>2 DEF ObservesAnswer, AskInScope
  <2>4. i \in AskItems(scope, b)
    BY <1>2, <2>2, <2>3 DEF AskItems
  <2> QED BY <2>4 DEF Projected
<1>3. CASE i \in ReviewItems(scope, c)
  <2>1. ReviewItems(scope, c) = ReviewItems(scope, b)
    BY <1>1, QuietKeeps DEF ReviewItems
  <2> QED BY <1>3, <2>1 DEF Projected
<1>4. CASE i \in HandoffItems(scope, c) /\ ~Stopped(b)
  <2>1. PICK r \in Rows(c) :
          /\ Shown(r[3]) # "" /\ ProjectionRole(r[1], Shown(r[3])) = scope.role
          /\ InScope(scope, r[2])
          /\ i = Item(r[1], Shown(r[3]), r[2], r[3].gen)
    BY <1>4 DEF HandoffItems
  <2>2. Shown(r[3]) # "review.reject.receive"
    BY <2>1 DEF IsReceipt, Item
  <2>3. r[3].phase \notin QuietPhases
    <3>1. r[3].phase = "acknowledged" => Shown(r[3]) = "review.reject.receive"
      BY DEF Shown
    <3>2. r[3].phase = "recovered" => Shown(r[3]) = ""
      BY DEF Shown
    <3> QED BY <2>1, <2>2, <3>1, <3>2 DEF QuietPhases
  <2>4. r \in Rows(b)
    <3>1. CASE r = <<"goal", NoTask, c.gh>>
      <4>1. c.gh = b.gh
        BY <2>3, <3>1, QuietKeeps DEF SameButQuiet
      <4> QED BY <3>1, <4>1 DEF Rows
    <3>2. CASE r = <<"plan", NoTask, c.ph>>
      <4>1. c.ph = b.ph
        BY <2>3, <3>2, QuietKeeps DEF SameButQuiet
      <4> QED BY <3>2, <4>1 DEF Rows
    <3>3. CASE \E t \in Task : r = <<"task", t, c.th[t]>>
      <4>1. PICK t \in Task : r = <<"task", t, c.th[t]>>
        BY <3>3
      <4>2. c.th[t] = b.th[t]
        BY <2>3, <4>1, QuietKeeps DEF SameButQuiet
      <4> QED BY <4>1, <4>2 DEF Rows
    <3> QED BY <2>1, <3>1, <3>2, <3>3 DEF Rows
  <2>5. i \in HandoffItems(scope, b)
    BY <2>1, <2>4 DEF HandoffItems
  <2> QED BY <1>4, <2>5 DEF Projected
<1>5. i \notin TaskCreateItems(scope, c)
  BY DEF TaskCreateItems, IsReceipt, Item
<1> QED BY <1>1, <1>2, <1>3, <1>4, <1>5 DEF Projected

\* A step of the process that says nothing to its agent: what it must leave true.
LEMMA Quietly ==
  ASSUME CaughtUpInv, UNCHANGED <<board, scope, seen, heard>>,
         DOMAIN p' = DOMAIN p, p'.mem \subseteq p.mem, p'.unsaved \subseteq p.unsaved,
         stream' # "closed" => daemon',
         p'.pc = "stream" /\ stream' # "closed" => row' = "healthy",
         stream' = "quiet" => Current'
  PROVE  CaughtUpInv'
BY DEF CaughtUpInv, ProcessOK, ToldAll

\* An error, and the end of the process, close the stream.
LEMMA ClosedCaughtUp ==
  ASSUME CaughtUpInv, Fail \/ Gone
  PROVE  CaughtUpInv'
<1>1. CASE Fail
  <2>1. /\ DOMAIN p' = DOMAIN p /\ p'.mem = p.mem /\ p'.pc = "ensure" /\ p'.unsaved = p.unsaved
        /\ stream' = "closed" /\ UNCHANGED <<board, scope, seen, heard>>
    BY <1>1 DEF Fail, Internal, Silent, CaughtUpInv, ProcessOK, Fresh
  <2> QED BY <2>1, Quietly
<1>2. CASE Gone
  <2>1. /\ DOMAIN p' = DOMAIN p /\ p'.mem = {} /\ p'.pc = "off" /\ p'.unsaved = {}
        /\ stream' = "closed" /\ UNCHANGED <<board, scope, seen, heard>>
    BY <1>2 DEF Gone, Silent, CaughtUpInv, ProcessOK, Fresh
  <2> QED BY <2>1, Quietly
<1> QED BY <1>1, <1>2

\* A step that takes the process where it claims to know nothing.
LEMMA ForgetfulCaughtUp ==
  ASSUME CaughtUpInv,
         \/ Snapshot \/ Subscribe \/ Follow \/ Tick \/ StreamEnds \/ Recover \/ EnsureFails \/ Rearm
  PROVE  CaughtUpInv'
<1>1. CASE Fail
  BY <1>1, ClosedCaughtUp
<1>2. CASE ~Fail
  <2>1. /\ DOMAIN p' = DOMAIN p /\ p'.mem \subseteq p.mem
        /\ p'.pc \in {"goals", "snapshot"} /\ p'.unsaved \subseteq p.unsaved
    <3>1. CASE Snapshot \/ Subscribe \/ Follow \/ Tick \/ StreamEnds
      BY <1>2, <3>1 DEF Snapshot, Subscribe, Follow, Tick, StreamEnds, Step, CaughtUpInv,
         ProcessOK, Fresh
    <3>2. CASE Recover \/ EnsureFails
      BY <3>2 DEF Recover, EnsureFails, EnsureDaemon, WaitWithoutEnsure, Step, CaughtUpInv,
         ProcessOK, Fresh
    <3>3. CASE Rearm
      BY <3>3 DEF Rearm, Step, CaughtUpInv, ProcessOK, Fresh
    <3> QED BY <3>1, <3>2, <3>3
  <2>2. UNCHANGED <<board, scope, seen, heard>> /\ (stream' # "closed" => daemon')
    BY <1>2 DEF Snapshot, Subscribe, Follow, Tick, StreamEnds, Recover, EnsureFails, Rearm,
       EnsureDaemon, WaitWithoutEnsure, Step, Internal, Silent, CaughtUpInv
  <2> QED BY <2>1, <2>2, Quietly DEF Current
<1> QED BY <1>1, <1>2

\* The two queries of a reconciliation see the same board if no event came.
LEMMA ReadCaughtUp ==
  ASSUME CaughtUpInv, ReadGoals \/ ReadRest
  PROVE  CaughtUpInv'
<1>1. CASE Fail
  BY <1>1, ClosedCaughtUp
<1>2. CASE ReadGoals /\ ~Fail
  <2>1. /\ p' = [p EXCEPT !.pc = "rest",
                          !.half = [goal |-> board.goal, others |-> board.others]]
        /\ UNCHANGED <<board, daemon, scope, seen, heard, stream, row>>
    BY <1>2 DEF ReadGoals, Step, Internal, Silent
  <2>2. /\ DOMAIN p' = DOMAIN p /\ p'.mem = p.mem /\ p'.pc = "rest" /\ p'.unsaved = p.unsaved
        /\ p'.half = [goal |-> board.goal, others |-> board.others]
    BY <2>1 DEF CaughtUpInv, ProcessOK, Fresh
  <2> QED BY <2>1, <2>2, Quietly DEF Current, CaughtUpInv
<1>3. CASE ReadRest /\ ~Fail
  <2>1. /\ p.pc = "rest"
        /\ p' = [p EXCEPT !.pc = "project",
                          !.todo = (Projected(scope, Snapped)
                                      \cup NewGoals(scope, p.goals, p.first, mark,
                                                    p.half.others)) \ p.mem]
        /\ UNCHANGED <<board, daemon, scope, seen, heard, stream, row>>
    BY <1>3 DEF ReadRest, Step, Internal, Silent
  <2>2. /\ DOMAIN p' = DOMAIN p /\ p'.mem = p.mem /\ p'.pc = "project"
        /\ p'.unsaved = p.unsaved
        /\ Projected(scope, Snapped) \subseteq p'.todo \cup p'.mem
    BY <2>1 DEF CaughtUpInv, ProcessOK, Fresh
  <2>3. ASSUME stream = "quiet" PROVE Snapped = board
    BY <2>1, <2>3 DEF CaughtUpInv, Current, Snapped, BoardOK, IsFcn
  <2>4. stream' = "quiet" => Owing' \subseteq p'.todo \cup p'.mem
    BY <2>1, <2>2, <2>3 DEF Owing, Told
  <2> QED BY <2>1, <2>2, <2>4, Quietly DEF Current, CaughtUpInv
<1> QED BY <1>1, <1>2, <1>3

\* An action that is delivered moves from what is left to what was delivered.
LEMMA DeliverCaughtUp ==
  ASSUME CaughtUpInv, NEW i, Deliver(i)
  PROVE  CaughtUpInv'
<1>1. PICK q : q = [p EXCEPT !.todo = @ \ {i}, !.mem = @ \cup {i}]
  OBVIOUS
<1>2. /\ DOMAIN q = DOMAIN p /\ q.todo = p.todo \ {i} /\ q.mem = p.mem \cup {i}
      /\ q.pc = p.pc /\ q.half = p.half /\ q.unsaved = p.unsaved
  BY <1>1 DEF CaughtUpInv, ProcessOK, Fresh
<1>3. p.pc = "project" /\ UNCHANGED <<board, daemon, scope, seen, stream, row>>
  BY DEF Deliver, Internal
<1>4. CASE ReachesAgent(i) /\ i \notin seen
  <2>1. p' = [q EXCEPT !.unsaved = @ \cup {i}, !.pc = "save"] /\ DOMAIN heard' = DOMAIN heard \cup {i}
    BY <1>1, <1>4 DEF Deliver
  <2>2. /\ DOMAIN p' = DOMAIN p /\ p'.todo = q.todo /\ p'.mem = q.mem
        /\ p'.pc = "save" /\ p'.unsaved = q.unsaved \cup {i}
    BY <1>2, <2>1 DEF CaughtUpInv, ProcessOK, Fresh
  <2>3. ToldAll'
    BY <1>2, <2>1, <2>2 DEF CaughtUpInv, ToldAll
  <2>4. stream' = "quiet" => Current'
    BY <1>2, <1>3, <2>2 DEF CaughtUpInv, Current, Owing, Told
  <2>5. /\ p'.unsaved \subseteq DOMAIN heard' /\ seen' \subseteq DOMAIN heard'
        /\ BoardOK(board)' /\ ProcessOK'
    BY <1>2, <1>3, <2>1, <2>2 DEF CaughtUpInv, ProcessOK
  <2> QED BY <1>3, <2>2, <2>3, <2>4, <2>5 DEF CaughtUpInv
<1>5. CASE ~(ReachesAgent(i) /\ i \notin seen)
  <2>1. p' = q /\ UNCHANGED heard
    BY <1>1, <1>5 DEF Deliver
  <2>2. ToldAll'
    BY <1>2, <1>5, <2>1 DEF CaughtUpInv, ToldAll
  <2>3. stream' = "quiet" => Current'
    BY <1>2, <1>3, <2>1 DEF CaughtUpInv, Current, Owing, Told
  <2> QED BY <1>2, <1>3, <2>1, <2>2, <2>3 DEF CaughtUpInv, ProcessOK
<1> QED BY <1>4, <1>5

LEMMA SaveCaughtUp ==
  ASSUME CaughtUpInv, SaveRecord \/ SaveFails
  PROVE  CaughtUpInv'
<1>1. /\ p.pc = "save" /\ seen' \in {seen, seen \cup p.unsaved}
      /\ UNCHANGED <<board, daemon, scope, heard, stream, row>>
  BY DEF SaveRecord, SaveFails, Internal, Silent
<1>2. /\ DOMAIN p' = DOMAIN p /\ p'.todo = p.todo /\ p'.mem = p.mem /\ p'.pc = "project"
      /\ p'.unsaved \subseteq p.unsaved
  BY DEF SaveRecord, SaveFails, CaughtUpInv, ProcessOK, Fresh
<1>3. stream' = "quiet" => Current'
  BY <1>1, <1>2 DEF CaughtUpInv, Current, Owing, Told
<1> QED BY <1>1, <1>2, <1>3 DEF CaughtUpInv, ProcessOK, ToldAll

\* The end of a reconciliation, and its report.
LEMMA ReportCaughtUp ==
  ASSUME CaughtUpInv, EndReconcile \/ ReportHealthy
  PROVE  CaughtUpInv'
<1>1. /\ UNCHANGED <<board, daemon, scope, seen, heard, stream>>
      /\ DOMAIN p' = DOMAIN p /\ p'.mem = p.mem /\ p'.unsaved = p.unsaved
  <2>1. CASE EndReconcile
    BY <2>1 DEF EndReconcile, Step, Internal, Silent, CaughtUpInv, ProcessOK, Fresh
  <2>2. CASE ReportHealthy
    BY <2>2 DEF ReportHealthy, Internal, CaughtUpInv, ProcessOK, Fresh
  <2> QED BY <2>1, <2>2
<1>2. CASE EndReconcile
  <2>1. p.pc = "project" /\ p.todo = {} /\ p'.pc = "report"
    BY <1>2 DEF EndReconcile, Step, CaughtUpInv, ProcessOK, Fresh
  <2>2. stream' = "quiet" => Current'
    BY <1>1, <2>1 DEF CaughtUpInv, Current, Owing, Told
  <2> QED BY <1>1, <2>1, <2>2, Quietly DEF CaughtUpInv
<1>3. CASE ReportHealthy
  <2>1. /\ p.pc = "report" /\ p'.pc \in {"stream", "subscribe"}
        /\ daemon => row' = "healthy"
    BY <1>3 DEF ReportHealthy, Post, CaughtUpInv, ProcessOK, Fresh
  <2>2. stream' = "quiet" => Current'
    BY <1>1, <2>1 DEF CaughtUpInv, Current, Owing, Told
  <2> QED BY <1>1, <2>1, <2>2, Quietly DEF CaughtUpInv
<1> QED BY <1>2, <1>3

LEMMA CaughtUpStep ==
  ASSUME CaughtUpInv, [WatchNext]_wvars
  PROVE  CaughtUpInv'
<1>1. CASE Change
  <2>1. UNCHANGED <<daemon, scope, p, seen, heard, row>> /\ BoardOK(board')
    BY <1>1, BoardsAreRecords DEF Change, CaughtUpInv
  <2>2. CASE board' \in AnnouncedBoards(board) /\ stream' = Sent
    <3>1. stream' # "quiet" /\ (stream' # "closed" => stream # "closed")
      BY <2>2 DEF Sent
    <3> QED BY <2>1, <3>1 DEF CaughtUpInv, ProcessOK, ToldAll
  <2>3. CASE board' \in QuietBoards(board) /\ stream' = stream
    <3>1. BoardOK(board) /\ board'.goal = board.goal /\ board'.others = board.others
      BY <2>3, QuietKeeps DEF CaughtUpInv
    <3>2. Owing' \subseteq Owing
      BY <2>1, <2>3, <3>1, QuietOwesReceipts DEF Owing, Told
    <3>3. Current => Current'
      BY <2>1, <3>1, <3>2 DEF Current
    <3> QED BY <2>1, <2>3, <3>3 DEF CaughtUpInv, ProcessOK, ToldAll
  <2> QED BY <1>1, <2>2, <2>3 DEF Change
<1>2. CASE DaemonStops \/ OthersStartDaemon \/ UNCHANGED wvars
  <2>1. /\ UNCHANGED <<board, scope, p, seen, heard, row>>
        /\ stream' = stream \/ stream' = "closed"
        /\ stream' # "closed" => daemon'
    BY <1>2 DEF DaemonStops, OthersStartDaemon, wvars, CaughtUpInv
  <2>2. Current' <=> Current
    BY <2>1 DEF Current, Owing, Told
  <2> QED BY <2>1, <2>2 DEF CaughtUpInv, ProcessOK, ToldAll
<1>3. CASE Loop
  <2>1. CASE Snapshot \/ Subscribe \/ Follow \/ StreamEnds
    BY <2>1, ForgetfulCaughtUp
  <2>2. CASE ReadGoals \/ ReadRest
    BY <2>2, ReadCaughtUp
  <2>3. CASE (\E i \in p.todo : Deliver(i)) \/ SaveRecord
    BY <2>3, DeliverCaughtUp, SaveCaughtUp
  <2>4. CASE EndReconcile \/ ReportHealthy
    BY <2>4, ReportCaughtUp
  <2> QED BY <1>3, <2>1, <2>2, <2>3, <2>4 DEF Loop
<1>4. CASE Tick \/ Recover \/ EnsureFails \/ Rearm
  BY <1>4, ForgetfulCaughtUp
<1>5. CASE Crash \/ EndOnce \/ SaveFails
  <2>1. Gone \/ SaveFails
    BY <1>5 DEF Crash, EndOnce
  <2> QED BY <2>1, ClosedCaughtUp, SaveCaughtUp
<1> QED BY <1>1, <1>2, <1>3, <1>4, <1>5 DEF WatchNext

\* A watch that follows the stream with no event on it has told its agent all
\* that the board holds for its scope, but for the receipts of which the store
\* publishes no event (ReceiveTaskCreateHandoff and the three receipts of a
\* rejection), and is listed as healthy: no change falls between the snapshot, the
\* subscription and the two reads of a reconciliation (reconcileWatchScope,
\* ReconcileWorkflow), and no report of it stays lost.  This is the part of
\* AnnouncedIsHeard that needs no fairness.
THEOREM NoEventIsMissed == WatchSpec => []FollowingIsCaughtUp
<1>1. CaughtUpInv => FollowingIsCaughtUp
  BY DEF CaughtUpInv, Current, ToldAll, Owing, Told, Owed, Announced, FollowingIsCaughtUp
<1> QED BY <1>1, CaughtUpInit, CaughtUpStep, PTL DEF WatchSpec

-----------------------------------------------------------------------------
(* CodexBridge: what the loops over the queue keep.                        *)

\* Induction over the natural numbers, for a set of them.
LEMMA CountInduction ==
  ASSUME NEW T, 0 \in T, \A n \in Nat : n \in T => n + 1 \in T
  PROVE  Nat \subseteq T
<1> DEFINE Less == {x \in Nat \X Nat : x[1] < x[2]}
           Rest0 == Nat \ T
<1>1. IsWellFoundedOn(Less, Nat)
  BY NatLessThanWellFounded DEF OpToRel
<1>2. \A x, y \in Nat : x < y => <<x, y>> \in Less
  OBVIOUS
<1>3. SUFFICES ASSUME Rest0 # {} PROVE FALSE
  OBVIOUS
<1>4. PICK n \in Rest0 : \A m \in Rest0 : <<m, n>> \notin Less
  <2> Rest0 \subseteq Nat
    OBVIOUS
  <2> HIDE DEF Less, Rest0
  <2> QED BY <1>1, <1>3, WFMin
<1>5. n \in Nat /\ n # 0 /\ n \notin T
  BY <1>4
<1>6. n - 1 \in Nat /\ n - 1 < n /\ (n - 1) + 1 = n
  BY <1>5
<1>7. n - 1 \in T
  BY <1>2, <1>4, <1>5, <1>6
<1> QED BY <1>5, <1>6, <1>7

\* k runs the loop of Without over the first m elements of s.
Keeps(k, s, gone, m) ==
  k = [n \in 0..m |->
        IF n = 0 THEN <<>>
        ELSE IF s[n] \in gone THEN k[n - 1] ELSE Append(k[n - 1], s[n])]

\* The loop can always be run to its end.
LEMMA LoopRuns ==
  ASSUME NEW s, NEW gone, NEW m \in Nat
  PROVE  \E k : Keeps(k, s, gone, m)
<1> DEFINE T == {n \in Nat : \E k : Keeps(k, s, gone, n)}
<1>1. 0 \in T
  <2>1. PICK k : k = [n \in 0..0 |-> <<>>]
    OBVIOUS
  <2>2. Keeps(k, s, gone, 0)
    BY <2>1 DEF Keeps
  <2> QED BY <2>2
<1>2. ASSUME NEW n \in Nat, n \in T PROVE n + 1 \in T
  <2>1. PICK k : Keeps(k, s, gone, n)
    BY <1>2
  <2>2. PICK l : l = [i \in 0..(n + 1) |->
                        IF i <= n THEN k[i]
                        ELSE IF s[n + 1] \in gone THEN k[n] ELSE Append(k[n], s[n + 1])]
    OBVIOUS
  <2>3. \A i \in 0..n : l[i] = k[i]
    BY <2>2
  <2>4. l[n + 1] = IF s[n + 1] \in gone THEN k[n] ELSE Append(k[n], s[n + 1])
    BY <2>2
  <2>5. ASSUME NEW i \in 0..(n + 1)
        PROVE  l[i] = IF i = 0 THEN <<>>
                      ELSE IF s[i] \in gone THEN l[i - 1] ELSE Append(l[i - 1], s[i])
    <3>1. CASE i = n + 1
      BY <2>3, <2>4, <3>1
    <3>2. CASE i # n + 1
      <4>1. i \in 0..n /\ (i # 0 => i - 1 \in 0..n)
        BY <3>2
      <4>2. k[i] = IF i = 0 THEN <<>>
                   ELSE IF s[i] \in gone THEN k[i - 1] ELSE Append(k[i - 1], s[i])
        BY <2>1, <4>1 DEF Keeps
      <4> QED BY <2>3, <4>1, <4>2
    <3> QED BY <3>1, <3>2
  <2>6. Keeps(l, s, gone, n + 1)
    BY <2>2, <2>5 DEF Keeps
  <2> QED BY <2>6
<1>3. Nat \subseteq T
  <2> HIDE DEF T
  <2> QED BY <1>1, <1>2, CountInduction
<1> QED BY <1>3

\* r is what a queue s keeps without gone: every place of r comes from a place
\* of s of its own, and holds an element that stays.
Selects(r, s, gone, n) ==
  \E e \in [DOMAIN r -> 1..n] :
    /\ \A i \in DOMAIN r : r[i] = s[e[i]] /\ s[e[i]] \notin gone
    /\ \A i, j \in DOMAIN r : i # j => e[i] # e[j]

LEMMA SelectsNone ==
  ASSUME NEW s, NEW gone, NEW n \in Nat
  PROVE  Selects(<<>>, s, gone, n)
<1>1. DOMAIN << >> = {}
  BY EmptySeq
<1>2. PICK e : e = [i \in {} |-> 0]
  OBVIOUS
<1>3. e \in [{} -> 1..n]
  BY <1>2
<1> QED BY <1>1, <1>3 DEF Selects

\* One more element of s: it is left out, or comes last.
LEMMA SelectsMore ==
  ASSUME NEW S, NEW s \in Seq(S), NEW gone, NEW n \in Nat, n + 1 \in DOMAIN s,
         NEW r \in Seq(S), Selects(r, s, gone, n)
  PROVE  /\ Selects(r, s, gone, n + 1)
         /\ s[n + 1] \notin gone => /\ Append(r, s[n + 1]) \in Seq(S)
                                    /\ Selects(Append(r, s[n + 1]), s, gone, n + 1)
<1>1. PICK e \in [DOMAIN r -> 1..n] :
        /\ \A i \in DOMAIN r : r[i] = s[e[i]] /\ s[e[i]] \notin gone
        /\ \A i, j \in DOMAIN r : i # j => e[i] # e[j]
  BY DEF Selects
<1>2. e \in [DOMAIN r -> 1..(n + 1)]
  BY <1>1
<1>3. Selects(r, s, gone, n + 1)
  BY <1>1, <1>2 DEF Selects
<1>4. ASSUME s[n + 1] \notin gone
      PROVE  /\ Append(r, s[n + 1]) \in Seq(S)
             /\ Selects(Append(r, s[n + 1]), s, gone, n + 1)
  <2>1. PICK q : q = Append(r, s[n + 1])
    OBVIOUS
  <2>2. s[n + 1] \in S
    OBVIOUS
  <2>3. /\ q \in Seq(S) /\ DOMAIN q = 1..(Len(r) + 1) /\ DOMAIN r = 1..Len(r) /\ Len(r) \in Nat
        /\ \A i \in DOMAIN r : q[i] = r[i]
        /\ q[Len(r) + 1] = s[n + 1]
    BY <2>1, <2>2, AppendProperties, LenProperties
  <2>4. PICK d : d = [i \in DOMAIN q |-> IF i \in DOMAIN r THEN e[i] ELSE n + 1]
    OBVIOUS
  <2>5. /\ \A i \in DOMAIN r : d[i] = e[i]
        /\ d[Len(r) + 1] = n + 1
    BY <2>3, <2>4
  <2>6. d \in [DOMAIN q -> 1..(n + 1)]
    BY <1>1, <2>4
  <2>7. \A i \in DOMAIN q : i \in DOMAIN r \/ i = Len(r) + 1
    BY <2>3
  <2>8. \A i \in DOMAIN q : q[i] = s[d[i]] /\ s[d[i]] \notin gone
    BY <1>1, <1>4, <2>3, <2>5, <2>7
  <2>9. \A i \in DOMAIN r : e[i] # n + 1
    BY <1>1
  <2>10. \A i, j \in DOMAIN q : i # j => d[i] # d[j]
    BY <1>1, <2>5, <2>7, <2>9
  <2>11. Selects(q, s, gone, n + 1)
    BY <2>6, <2>8, <2>10 DEF Selects
  <2> QED BY <2>1, <2>3, <2>11
<1> QED BY <1>3, <1>4

LEMMA WithoutSelects ==
  ASSUME NEW S, NEW s \in Seq(S), NEW gone
  PROVE  Without(s, gone) \in Seq(S) /\ Selects(Without(s, gone), s, gone, Len(s))
<1>1. PICK k : Keeps(k, s, gone, Len(s)) /\ Without(s, gone) = k[Len(s)]
  <2>1. \E k : Keeps(k, s, gone, Len(s))
    BY LoopRuns, LenProperties
  <2>2. PICK k : k = CHOOSE l : Keeps(l, s, gone, Len(s))
    OBVIOUS
  <2>3. Keeps(k, s, gone, Len(s))
    BY <2>1, <2>2
  <2>4. Without(s, gone) = k[Len(s)]
    BY <2>2 DEF Without, Keeps
  <2> QED BY <2>3, <2>4
<1> DEFINE T == {n \in Nat : n <= Len(s) => k[n] \in Seq(S) /\ Selects(k[n], s, gone, n)}
<1>2. 0 \in T
  <2>1. k[0] = <<>>
    BY <1>1, LenProperties DEF Keeps
  <2> QED BY <2>1, SelectsNone, EmptySeq
<1>3. ASSUME NEW n \in Nat, n \in T PROVE n + 1 \in T
  <2>1. SUFFICES ASSUME n + 1 <= Len(s)
                 PROVE  k[n + 1] \in Seq(S) /\ Selects(k[n + 1], s, gone, n + 1)
    OBVIOUS
  <2>2. Len(s) \in Nat /\ n + 1 \in DOMAIN s /\ n <= Len(s)
    BY <2>1, LenProperties
  <2>3. k[n + 1] = IF s[n + 1] \in gone THEN k[n] ELSE Append(k[n], s[n + 1])
    <3>1. PICK i : i = n + 1
      OBVIOUS
    <3>2. i \in 0..Len(s) /\ i # 0 /\ i - 1 = n
      BY <2>1, <2>2, <3>1
    <3>3. k[i] = IF s[i] \in gone THEN k[i - 1] ELSE Append(k[i - 1], s[i])
      BY <1>1, <3>2 DEF Keeps
    <3> QED BY <3>1, <3>2, <3>3
  <2> QED BY <1>3, <2>2, <2>3, SelectsMore
<1>4. Nat \subseteq T
  <2> HIDE DEF T
  <2> QED BY <1>2, <1>3, CountInduction
<1>5. Len(s) \in T
  BY <1>4, LenProperties
<1> QED BY <1>1, <1>5, LenProperties

-----------------------------------------------------------------------------
(* CodexBridge: the queue is fresh.                                        *)

QueueInv == /\ queue \in Seq(Action) /\ receipts \in [Goal -> 0..MaxReview]
            /\ QueueIsFresh

\* QueueIsFresh of a queue and of receipts that may be the next ones.
FreshQueue(q, known) ==
  /\ \A n \in DOMAIN q : q[n].kind = "review" => q[n].gen >= known[q[n].of]
  /\ \A m, n \in DOMAIN q : (m # n /\ q[m].kind = q[n].kind) => q[m].of # q[n].of

LEMMA Kinds ==
  /\ \A a \in Action : /\ a.of \in Goal /\ (IsReview(a) <=> a.kind = "review")
                       /\ a.kind = "review" <=> a \in Review
                       /\ a \in Review => a.gen \in Nat
                       /\ a \notin Review => a \in Event
  /\ \A a, b \in Event : a.kind = b.kind /\ a.of = b.of => a = b
<1>1. ASSUME NEW a \in Action
      PROVE  /\ a.of \in Goal /\ (IsReview(a) <=> a.kind = "review")
             /\ a.kind = "review" <=> a \in Review
             /\ a \in Review => a.gen \in Nat
             /\ a \notin Review => a \in Event
  BY NoneAssumption, CodexAssumption DEF Action, Review, Event, IsReview
<1>2. \A a, b \in Event : a.kind = b.kind /\ a.of = b.of => a = b
  BY DEF Event
<1> QED BY <1>1, <1>2

LEMMA FreshMeans ==
  ASSUME NEW q \in Seq(Action), NEW known
  PROVE  FreshQueue(q, known) <=>
           /\ \A a \in ToSet(q) : IsReview(a) => a.gen >= known[a.of]
           /\ \A m, n \in DOMAIN q :
                (m # n /\ q[m].kind = q[n].kind) => q[m].of # q[n].of
<1>1. \A n \in DOMAIN q : q[n] \in Action /\ q[n] \in ToSet(q)
  BY DEF ToSet
<1>2. \A a \in ToSet(q) : \E n \in DOMAIN q : a = q[n]
  BY DEF ToSet
<1>3. \A n \in DOMAIN q : IsReview(q[n]) <=> q[n].kind = "review"
  BY <1>1, Kinds
<1> QED BY <1>1, <1>2, <1>3 DEF FreshQueue

LEMMA FreshNow ==
  ASSUME queue \in Seq(Action)
  PROVE  QueueIsFresh <=> FreshQueue(queue, receipts)
BY FreshMeans DEF QueueIsFresh

LEMMA FreshNext ==
  ASSUME queue' \in Seq(Action), FreshQueue(queue', receipts')
  PROVE  QueueIsFresh'
BY FreshMeans DEF QueueIsFresh

\* What the loops keep of a fresh queue is fresh.
LEMMA FreshWithout ==
  ASSUME NEW q \in Seq(Action), NEW known \in [Goal -> 0..MaxReview], NEW gone,
         FreshQueue(q, known)
  PROVE  /\ Without(q, gone) \in Seq(Action) /\ FreshQueue(Without(q, gone), known)
         /\ \A n \in DOMAIN Without(q, gone) :
              Without(q, gone)[n] \in ToSet(q) \ gone
<1>1. PICK r : r = Without(q, gone)
  OBVIOUS
<1>2. r \in Seq(Action) /\ Selects(r, q, gone, Len(q))
  BY <1>1, WithoutSelects
<1>3. PICK e \in [DOMAIN r -> 1..Len(q)] :
        /\ \A i \in DOMAIN r : r[i] = q[e[i]] /\ q[e[i]] \notin gone
        /\ \A i, j \in DOMAIN r : i # j => e[i] # e[j]
  BY <1>2 DEF Selects
<1>4. \A i \in DOMAIN r : e[i] \in DOMAIN q
  BY <1>3, LenProperties
<1>5. FreshQueue(r, known)
  BY <1>3, <1>4 DEF FreshQueue
<1>6. \A n \in DOMAIN r : r[n] \in ToSet(q) \ gone
  BY <1>3, <1>4 DEF ToSet
<1> QED BY <1>1, <1>2, <1>5, <1>6

\* An action that no queued one equals in kind and subject may come last.
LEMMA FreshAppend ==
  ASSUME NEW q \in Seq(Action), NEW known \in [Goal -> 0..MaxReview], NEW a \in Action,
         FreshQueue(q, known), a.kind = "review" => a.gen >= known[a.of],
         \A n \in DOMAIN q : q[n].kind = a.kind => q[n].of # a.of
  PROVE  Append(q, a) \in Seq(Action) /\ FreshQueue(Append(q, a), known)
<1>1. PICK r : r = Append(q, a)
  OBVIOUS
<1>2. /\ r \in Seq(Action) /\ DOMAIN r = 1..(Len(q) + 1) /\ DOMAIN q = 1..Len(q)
      /\ Len(q) \in Nat /\ r[Len(q) + 1] = a /\ \A i \in DOMAIN q : r[i] = q[i]
  BY <1>1, AppendProperties, LenProperties
<1>3. \A i \in DOMAIN r : i \in DOMAIN q \/ i = Len(q) + 1
  BY <1>2
<1>4. FreshQueue(r, known)
  BY <1>2, <1>3 DEF FreshQueue
<1> QED BY <1>1, <1>2, <1>4

\* A new review takes the place of the one queued review of its handoff.
LEMMA CoalescedFresh ==
  ASSUME QueueInv, NEW a \in Review, Newer(a)
  PROVE  Coalesced(a) \in Seq(Action) /\ FreshQueue(Coalesced(a), receipts)
<1> DEFINE old == {n \in DOMAIN queue : IsReview(queue[n]) /\ queue[n].of = a.of}
<1>0. /\ queue \in Seq(Action) /\ receipts \in [Goal -> 0..MaxReview]
      /\ FreshQueue(queue, receipts) /\ \A n \in DOMAIN queue : queue[n] \in Action
  BY FreshNow DEF QueueInv
<1>1. a \in Action /\ a.kind = "review" /\ a.of \in Goal /\ a.gen \in Nat
  BY Kinds DEF Action
<1>2. a.gen >= receipts[a.of]
  BY <1>0, <1>1, CodexAssumption DEF Newer
<1>3. \A n \in DOMAIN queue : n \in old <=> queue[n].kind = "review" /\ queue[n].of = a.of
  BY <1>0, Kinds
<1>4. CASE old = {}
  <2>1. Coalesced(a) = Append(queue, a)
    BY <1>4 DEF Coalesced
  <2>2. \A n \in DOMAIN queue : queue[n].kind = a.kind => queue[n].of # a.of
    BY <1>1, <1>3, <1>4
  <2> QED BY <1>0, <1>1, <1>2, <2>1, <2>2, FreshAppend
<1>5. CASE old # {}
  <2>1. PICK r : r = [n \in DOMAIN queue |-> IF n \in old THEN a ELSE queue[n]]
    OBVIOUS
  <2>2. Coalesced(a) = r
    BY <1>5, <2>1 DEF Coalesced
  <2>3. DOMAIN queue = 1..Len(queue) /\ Len(queue) \in Nat
    BY <1>0, LenProperties
  <2>4. r \in [1..Len(queue) -> Action]
    BY <1>0, <1>1, <2>1, <2>3
  <2>5. r \in Seq(Action)
    BY <2>3, <2>4, SeqDef
  <2>6. /\ DOMAIN r = DOMAIN queue
        /\ \A n \in DOMAIN r : r[n] = IF n \in old THEN a ELSE queue[n]
    BY <2>1
  <2>7. \A n \in DOMAIN r : r[n].kind = queue[n].kind /\ r[n].of = queue[n].of
    BY <1>1, <1>3, <2>6
  <2>8. FreshQueue(r, receipts)
    BY <1>0, <1>2, <2>6, <2>7 DEF FreshQueue
  <2> QED BY <2>2, <2>5, <2>8
<1> QED BY <1>4, <1>5

LEMMA HeardReview ==
  ASSUME QueueInv, NEW w, NEW a \in Review, HearReview(w, a)
  PROVE  QueueInv'
<1>1. /\ UNCHANGED receipts
      /\ queue' = IF Newer(a) THEN Coalesced(a) ELSE queue
  BY DEF HearReview
<1>2. queue' \in Seq(Action) /\ FreshQueue(queue', receipts')
  BY <1>1, CoalescedFresh, FreshNow DEF QueueInv
<1> QED BY <1>1, <1>2, FreshNext DEF QueueInv

\* The receipt raises what is known of one handoff, and takes its older review.
LEMMA HeardReceipt ==
  ASSUME QueueInv, NEW w, NEW g \in Goal, NEW gen \in 1..MaxReview, HearReceipt(w, g, gen)
  PROVE  QueueInv'
<1> DEFINE gone == {a \in Review : a.of = g /\ a.gen < gen}
<1>0. /\ queue \in Seq(Action) /\ receipts \in [Goal -> 0..MaxReview]
      /\ FreshQueue(queue, receipts)
  BY FreshNow DEF QueueInv
<1>1. /\ queue' = Without(queue, gone)
      /\ receipts' = [receipts EXCEPT ![g] = IF gen > @ THEN gen ELSE @]
  BY DEF HearReceipt
<1>2. receipts' \in [Goal -> 0..MaxReview]
  BY <1>0, <1>1, CodexAssumption
<1>3. /\ queue' \in Seq(Action) /\ FreshQueue(queue', receipts)
      /\ \A n \in DOMAIN queue' : queue'[n] \in ToSet(queue) \ gone
  <2> HIDE DEF gone
  <2> QED BY <1>0, <1>1, FreshWithout
<1>4. ASSUME NEW n \in DOMAIN queue', queue'[n].kind = "review"
      PROVE  queue'[n].gen >= receipts'[queue'[n].of]
  <2>1. PICK a : a = queue'[n]
    OBVIOUS
  <2>2. a \in Action /\ a \notin gone /\ a.gen >= receipts[a.of]
    BY <1>3, <1>4, <2>1 DEF FreshQueue
  <2>3. a \in Review /\ a.of \in Goal /\ a.gen \in Nat
    BY <1>4, <2>1, <2>2, Kinds
  <2>4. a.of = g => a.gen >= gen
    BY <2>2, <2>3
  <2>5. a.gen >= receipts'[a.of]
    BY <1>0, <1>1, <2>2, <2>3, <2>4
  <2> QED BY <2>1, <2>5
<1>5. FreshQueue(queue', receipts')
  BY <1>3, <1>4 DEF FreshQueue
<1> QED BY <1>2, <1>3, <1>5, FreshNext DEF QueueInv

LEMMA HeardEvent ==
  ASSUME QueueInv, NEW w, NEW a \in Event, HearEvent(w, a)
  PROVE  QueueInv'
<1>0. /\ queue \in Seq(Action) /\ receipts \in [Goal -> 0..MaxReview]
      /\ FreshQueue(queue, receipts)
  BY FreshNow DEF QueueInv
<1>1. UNCHANGED receipts /\ a \notin ToSet(queue)
  BY DEF HearEvent, Among
<1>2. PICK q : q = Without(queue, Moot(a))
  OBVIOUS
<1>3. queue' = Append(q, a)
  BY <1>2 DEF HearEvent
<1>4. /\ q \in Seq(Action) /\ FreshQueue(q, receipts)
      /\ \A n \in DOMAIN q : q[n] \in ToSet(queue)
  BY <1>0, <1>2, FreshWithout
<1>5. a \in Action /\ a.kind # "review"
  BY DEF Action, Event
<1>6. ASSUME NEW n \in DOMAIN q, q[n].kind = a.kind PROVE q[n].of # a.of
  <2>1. PICK b : b = q[n]
    OBVIOUS
  <2>2. b \in Action /\ b.kind = a.kind /\ b # a
    BY <1>1, <1>4, <1>6, <2>1
  <2>3. b \in Event
    BY <1>5, <2>2, Kinds
  <2> QED BY <2>1, <2>2, <2>3, Kinds
<1>7. Append(q, a) \in Seq(Action) /\ FreshQueue(Append(q, a), receipts)
  BY <1>0, <1>4, <1>5, <1>6, FreshAppend
<1> QED BY <1>0, <1>1, <1>3, <1>7, FreshNext DEF QueueInv

\* The head leaves the queue.
LEMMA AcceptedFresh ==
  ASSUME QueueInv, NEW x, Accepted(x)
  PROVE  QueueInv'
<1>0. /\ queue \in Seq(Action) /\ receipts \in [Goal -> 0..MaxReview]
      /\ FreshQueue(queue, receipts) /\ UNCHANGED receipts
  BY FreshNow DEF QueueInv, Accepted
<1>1. CASE UNCHANGED queue
  BY <1>0, <1>1, FreshNext DEF QueueInv
<1>2. CASE queue # <<>> /\ queue' = Tail(queue)
  <2>1. PICK q : q = Tail(queue)
    OBVIOUS
  <2>2. /\ q \in Seq(Action) /\ DOMAIN q = 1..(Len(queue) - 1) /\ DOMAIN queue = 1..Len(queue)
        /\ Len(queue) \in Nat /\ \A i \in DOMAIN q : q[i] = queue[i + 1]
    BY <1>0, <1>2, <2>1, HeadTailProperties, LenProperties
  <2>3. \A i \in DOMAIN q : i + 1 \in DOMAIN queue
    BY <2>2
  <2>4. \A i, j \in DOMAIN q : i # j => i + 1 # j + 1
    BY <2>2
  <2>5. FreshQueue(q, receipts)
    BY <1>0, <2>2, <2>3, <2>4 DEF FreshQueue
  <2> QED BY <1>0, <1>2, <2>1, <2>2, <2>5, FreshNext DEF QueueInv
<1> QED BY <1>1, <1>2 DEF Accepted

LEMMA QueueStep ==
  ASSUME QueueInv, [Next]_vars
  PROVE  QueueInv'
<1>1. ASSUME UNCHANGED <<queue, receipts>> PROVE QueueInv'
  BY <1>1, FreshNow, FreshNext DEF QueueInv
<1>2. ASSUME NEW w, Rebind(w) PROVE UNCHANGED <<queue, receipts>>
  BY <1>2 DEF Rebind
<1>3. ASSUME NEW x, Submits(x) \/ Answer(x), ~Accepted(x)
      PROVE  UNCHANGED <<queue, receipts>>
  BY <1>3 DEF Submits, Pick, Refused, Unknown, Answer, Serve, bridge
<1>4. ASSUME \/ Reads \/ TurnOff \/ StartThread \/ Type \/ AnswerNobody \/ EndTurn
             \/ Disconnect
      PROVE  UNCHANGED <<queue, receipts>>
  BY <1>4 DEF Reads, ThreadStarted, TurnStarted, ThreadIdle, Read, TurnOff, StartThread,
     Type, AnswerNobody, EndTurn, Disconnect, Serve, bridge
<1>5. UNCHANGED vars => UNCHANGED <<queue, receipts>>
  BY DEF vars, bridge
<1> QED BY <1>1, <1>2, <1>3, <1>4, <1>5, HeardReview, HeardReceipt, HeardEvent,
           AcceptedFresh DEF Next

LEMMA QueueInit == Init => QueueInv
<1>1. SUFFICES ASSUME Init PROVE QueueInv
  OBVIOUS
<1>2. queue = <<>> /\ queue \in Seq(Action) /\ DOMAIN queue = {}
  BY <1>1, EmptySeq DEF Init
<1>3. receipts \in [Goal -> 0..MaxReview]
  BY <1>1, CodexAssumption DEF Init
<1> QED BY <1>2, <1>3 DEF QueueInv, QueueIsFresh, ToSet

\* Whatever events, responses, notifications and changes of scope interleave
\* with a submission, the queue of the bridge holds no review that is older
\* than a receipt heard, one review of a handoff and no delivery key twice.
THEOREM QueueStaysFresh == Spec => []QueueIsFresh
<1>1. Init => QueueInv
  BY QueueInit
<1>2. QueueInv => QueueIsFresh
  BY DEF QueueInv
<1> QED BY <1>1, <1>2, QueueStep, PTL DEF Spec
-----------------------------------------------------------------------------
(* CodexBridge: nothing is stranded.                                       *)

Notification == {"thread", "thread_busy", "started", "completed", "idle"}
Ending == {"completed", "idle"}
Beginning == {"thread_busy", "started"}

\* The end of a turn is owed after the n-th notification.
EndFollows(n) ==
  server.turns > 0 \/ \E m \in DOMAIN notes : m > n /\ notes[m] \in Ending

Replies == {"none", "ok", "nameless", "busy", "refused"}

PumpFits ==
  /\ pump \in [Pumper -> [at : {"rest", "lock", "turn", "cut"},
                          action : Action \cup {None},
                          reply : Replies]]
  /\ server \in [up : BOOLEAN, turns : Nat, abandoned : {0, 1}]
  /\ notes \in Seq(Notification)

\* Who waits for a response has the lock.
OneSubmits == \A x \in Pumper : At(x, "turn") => lock = x

\* A bridge that is active has a turn that ends or a request that may fail, and
\* so has one that reads the beginning of a turn.
ActiveEnds ==
  active => EndIsOwed \/ \E x \in Pumper : At(x, "turn") /\ pump[x].reply # "ok"
BeginningsEnd ==
  \A n \in DOMAIN notes : notes[n] \in Beginning => EndFollows(n)

\* A turn that is refused because another one runs is tried again at its end.
RefusalsEnd ==
  \A x \in Pumper :
    At(x, "turn") /\ pump[x].reply = "busy" => EndIsOwed \/ At("run", "lock")

StrandInv ==
  /\ PumpFits /\ OneSubmits
  /\ ActiveEnds /\ BeginningsEnd /\ RefusalsEnd
  /\ NothingIsStranded

LEMMA Pumpers == "run" \in Pumper /\ None \notin Pumper /\ \A w \in Watcher : w \in Pumper /\ w # "run"
BY CodexAssumption, NoneAssumption DEF Pumper

\* A step of one goroutine moves no other.
LEMMA PumpMoves ==
  ASSUME PumpFits, NEW x \in Pumper,
         NEW at \in {"rest", "lock", "turn", "cut"}, NEW a \in Action \cup {None},
         NEW reply \in Replies,
         pump' = [pump EXCEPT ![x] = [at |-> at, action |-> a, reply |-> reply]]
  PROVE  /\ pump' \in [Pumper -> [at : {"rest", "lock", "turn", "cut"},
                                  action : Action \cup {None},
                                  reply : Replies]]
         /\ pump'[x].at = at /\ pump'[x].reply = reply
         /\ \A q \in Pumper \ {x} : pump'[q] = pump[q]
BY DEF PumpFits, Replies

LEMMA Positions ==
  Rest = [at |-> "rest", action |-> None, reply |-> "none"]
  /\ Pumping = [at |-> "lock", action |-> None, reply |-> "none"]
  /\ [Rest EXCEPT !.at = "cut"] = [at |-> "cut", action |-> None, reply |-> "none"]
  /\ "none" \in Replies
BY DEF Rest, Pumping, Replies

\* Nobody but the holder of the lock waits for a response.
LEMMA NobodySubmits ==
  ASSUME OneSubmits, NEW x \in Pumper, lock \in {None, x}, ~At(x, "turn")
  PROVE  \A q \in Pumper : ~At(q, "turn")
BY Pumpers DEF OneSubmits
-----------------------------------------------------------------------------
LEMMA HearStrands ==
  ASSUME StrandInv, NEW w \in Watcher, Hear(w)
  PROVE  StrandInv'
<1>1. /\ w \in Pumper /\ w # "run" /\ Resting(w) /\ ~At(w, "turn")
      /\ UNCHANGED <<server, notes, active, lock>>
  BY Pumpers DEF Hear, Resting, At
<1>2. /\ pump' \in [Pumper -> [at : {"rest", "lock", "turn", "cut"},
                               action : Action \cup {None},
                               reply : Replies]]
      /\ pump'[w].at = "lock" /\ \A q \in Pumper \ {w} : pump'[q] = pump[q]
  BY <1>1, PumpMoves, Positions DEF StrandInv, Hear
<1>3. UNCHANGED EndIsOwed /\ UNCHANGED BeginningsEnd
  BY <1>1 DEF EndIsOwed, BeginningsEnd, EndFollows
<1>4. PumpFits' /\ OneSubmits' /\ ActiveEnds' /\ RefusalsEnd'
  BY <1>1, <1>2, <1>3, Pumpers
     DEF StrandInv, PumpFits, OneSubmits, ActiveEnds, RefusalsEnd, At
<1>5. NothingIsStranded'
  BY <1>1, <1>2 DEF NothingIsStranded, At
<1> QED BY <1>3, <1>4, <1>5 DEF StrandInv

LEMMA RebindStrands ==
  ASSUME StrandInv, NEW w \in Watcher, Rebind(w)
  PROVE  StrandInv'
<1>1. /\ w \in Pumper /\ w # "run" /\ notes' = notes
  BY Pumpers DEF Rebind
<1>2. /\ pump' \in [Pumper -> [at : {"rest", "lock", "turn", "cut"},
                               action : Action \cup {None},
                               reply : Replies]]
      /\ pump'[w].at = "cut" /\ \A q \in Pumper \ {w} : pump'[q] = pump[q]
  BY <1>1, PumpMoves, Positions DEF StrandInv, Rebind
<1>3. /\ server' \in [up : BOOLEAN, turns : Nat, abandoned : {0, 1}]
      /\ server'.turns = server.turns
  BY DEF StrandInv, PumpFits, Rebind
<1>4. UNCHANGED EndIsOwed /\ UNCHANGED BeginningsEnd
  BY <1>1, <1>3 DEF EndIsOwed, BeginningsEnd, EndFollows
<1>5. PumpFits'
  BY <1>1, <1>2, <1>3 DEF StrandInv, PumpFits
<1>6. RefusalsEnd'
  BY <1>1, <1>2, <1>4, Pumpers DEF StrandInv, RefusalsEnd, At
<1>7. NothingIsStranded'
  BY <1>1, <1>2 DEF NothingIsStranded, At
<1>8. OneSubmits' /\ ActiveEnds'
  <2>1. CASE At(w, "turn")
    <3>1. lock = w /\ active' = FALSE
      BY <1>1, <2>1 DEF StrandInv, OneSubmits, Rebind
    <3>2. \A q \in Pumper : ~At(q, "turn")'
      BY <1>1, <1>2, <3>1 DEF StrandInv, OneSubmits, At
    <3> QED BY <3>1, <3>2 DEF OneSubmits, ActiveEnds
  <2>2. CASE ~At(w, "turn")
    <3>1. UNCHANGED <<lock, active>>
      BY <2>2 DEF Rebind
    <3> QED BY <1>1, <1>2, <1>4, <2>2, <3>1 DEF StrandInv, OneSubmits, ActiveEnds, At
  <2> QED BY <2>1, <2>2
<1> QED BY <1>4, <1>5, <1>6, <1>7, <1>8 DEF StrandInv

LEMMA PickStrands ==
  ASSUME StrandInv, queue \in Seq(Action), NEW x \in Pumper, Pick(x)
  PROVE  StrandInv'
<1>1. /\ UNCHANGED <<server, notes, queue, attached, disabled, monitor>>
      /\ ~At(x, "turn")
  BY DEF Pick, At
<1>2. UNCHANGED EndIsOwed /\ UNCHANGED BeginningsEnd
  BY <1>1 DEF EndIsOwed, BeginningsEnd, EndFollows
<1>3. \A q \in Pumper : ~At(q, "turn")
  BY <1>1, NobodySubmits DEF StrandInv, Pick
<1>4. CASE Leave(x) /\ UNCHANGED active /\ (disabled \/ active \/ ~attached \/ queue = <<>>)
  <2>1. /\ PumpFits' /\ \A q \in Pumper \ {x} : pump'[q] = pump[q]
        /\ pump'[x].at = "rest"
    BY <1>1, <1>4, PumpMoves, Positions DEF StrandInv, PumpFits, Leave
  <2>2. \A q \in Pumper : ~At(q, "turn")'
    BY <1>3, <2>1 DEF At
  <2>3. active => EndIsOwed
    BY <1>3 DEF StrandInv, ActiveEnds
  <2>4. OneSubmits' /\ ActiveEnds' /\ RefusalsEnd'
    BY <1>2, <1>4, <2>2, <2>3 DEF OneSubmits, ActiveEnds, RefusalsEnd
  <2>5. NothingIsStranded'
    BY <1>1, <1>2, <1>4, <2>3 DEF NothingIsStranded
  <2> QED BY <1>2, <2>1, <2>4, <2>5 DEF StrandInv
<1>5. CASE /\ queue # <<>> /\ lock' = x
           /\ pump' = [pump EXCEPT ![x] = [at |-> "turn", action |-> Head(queue), reply |-> "none"]]
  <2>1. Head(queue) \in Action
    BY <1>5, HeadTailProperties
  <2>2. /\ PumpFits' /\ \A q \in Pumper \ {x} : pump'[q] = pump[q]
        /\ pump'[x].at = "turn" /\ pump'[x].reply = "none"
    BY <1>1, <1>5, <2>1, PumpMoves, Positions DEF StrandInv, PumpFits
  <2>3. OneSubmits' /\ ActiveEnds' /\ RefusalsEnd' /\ NothingIsStranded'
    BY <1>3, <1>5, <2>2 DEF OneSubmits, ActiveEnds, RefusalsEnd, NothingIsStranded, At
  <2> QED BY <1>2, <2>2, <2>3 DEF StrandInv
<1> QED BY <1>4, <1>5 DEF Pick

LEMMA AcceptedStrands ==
  ASSUME StrandInv, NEW x \in Pumper, Accepted(x)
  PROVE  StrandInv'
<1>1. /\ UNCHANGED <<server, notes, attached, active, disabled, lock>>
      /\ At(x, "turn") /\ pump[x].reply = "ok"
  BY DEF Accepted
<1>2. UNCHANGED EndIsOwed /\ UNCHANGED BeginningsEnd
  BY <1>1 DEF EndIsOwed, BeginningsEnd, EndFollows
<1>3. \A q \in Pumper \ {x} : ~At(q, "turn")
  BY <1>1 DEF StrandInv, OneSubmits
<1>4. CASE UNCHANGED pump /\ monitor' = "crashed"
  BY <1>1, <1>2, <1>4
     DEF StrandInv, PumpFits, OneSubmits, ActiveEnds, RefusalsEnd, NothingIsStranded, At
<1>5. CASE pump' = [pump EXCEPT ![x] = Pumping]
  <2>1. /\ PumpFits' /\ \A q \in Pumper \ {x} : pump'[q] = pump[q]
        /\ pump'[x].at = "lock"
    BY <1>1, <1>5, PumpMoves, Positions DEF StrandInv, PumpFits
  <2>2. active => EndIsOwed
    BY <1>1, <1>3 DEF StrandInv, ActiveEnds
  <2>3. \A q \in Pumper : ~At(q, "turn")'
    BY <1>3, <2>1 DEF At
  <2>4. OneSubmits' /\ ActiveEnds' /\ RefusalsEnd'
    BY <1>1, <1>2, <2>2, <2>3 DEF OneSubmits, ActiveEnds, RefusalsEnd
  <2>5. NothingIsStranded'
    BY <2>1 DEF NothingIsStranded, At
  <2> QED BY <1>2, <2>1, <2>4, <2>5 DEF StrandInv
<1> QED BY <1>4, <1>5 DEF Accepted

LEMMA RefusedStrands ==
  ASSUME StrandInv, NEW x \in Pumper, Refused(x) \/ Unknown(x)
  PROVE  StrandInv'
<1>1. /\ UNCHANGED <<server, notes>>
      /\ At(x, "turn") /\ Leave(x) /\ active' = FALSE
  BY DEF Refused, Unknown
<1>2. UNCHANGED EndIsOwed /\ UNCHANGED BeginningsEnd
  BY <1>1 DEF EndIsOwed, BeginningsEnd, EndFollows
<1>3. /\ PumpFits' /\ \A q \in Pumper \ {x} : pump'[q] = pump[q]
      /\ pump'[x].at = "rest"
  BY <1>1, PumpMoves, Positions DEF StrandInv, PumpFits, Leave
<1>4. \A q \in Pumper : ~At(q, "turn")'
  BY <1>1, <1>3 DEF StrandInv, OneSubmits, At
<1>5. OneSubmits' /\ ActiveEnds' /\ RefusalsEnd'
  BY <1>1, <1>4 DEF OneSubmits, ActiveEnds, RefusalsEnd
<1>6. NothingIsStranded'
  <2>1. CASE Refused(x)
    <3>1. refused' \/ EndIsOwed \/ (At("run", "lock") /\ "run" # x)
      BY <1>1, <2>1 DEF StrandInv, RefusalsEnd, Refused, At
    <3> QED BY <1>2, <1>3, <3>1, Pumpers DEF NothingIsStranded, At
  <2>2. CASE Unknown(x)
    BY <2>2 DEF Unknown, NothingIsStranded
  <2> QED BY <2>1, <2>2
<1> QED BY <1>2, <1>3, <1>5, <1>6 DEF StrandInv
-----------------------------------------------------------------------------
\* The notification that is read leaves, and those behind it move up.
LEMMA NoteRead ==
  ASSUME StrandInv, NEW note, Read(note)
  PROVE  /\ notes' \in Seq(Notification) /\ UNCHANGED server /\ BeginningsEnd'
         /\ note \in Beginning => EndIsOwed'
         /\ note \notin Ending => (EndIsOwed => EndIsOwed')
<1>1. /\ notes \in Seq(Notification) /\ notes # <<>> /\ notes' = Tail(notes)
      /\ note = notes[1] /\ UNCHANGED server
  BY HeadTailProperties DEF StrandInv, PumpFits, Read
<1>2. /\ notes' \in Seq(Notification) /\ Len(notes) \in Nat /\ Len(notes) >= 1
      /\ DOMAIN notes = 1..Len(notes) /\ DOMAIN notes' = 1..(Len(notes) - 1)
      /\ \A n \in DOMAIN notes' : notes'[n] = notes[n + 1]
  BY <1>1, HeadTailProperties, LenProperties, EmptySeq
<1>3. \A m \in DOMAIN notes : m > 1 => m - 1 \in DOMAIN notes' /\ notes'[m - 1] = notes[m]
  <2> TAKE m \in DOMAIN notes
  <2> HAVE m > 1
  <2>1. m - 1 \in DOMAIN notes' /\ (m - 1) + 1 = m
    BY <1>2
  <2> QED BY <1>2, <2>1
<1>4. BeginningsEnd'
  <2> SUFFICES ASSUME NEW n \in DOMAIN notes', notes'[n] \in Beginning
               PROVE  EndFollows(n)'
    BY DEF BeginningsEnd
  <2>1. n + 1 \in DOMAIN notes /\ notes[n + 1] \in Beginning /\ n \in Nat
    BY <1>2
  <2>2. EndFollows(n + 1)
    BY <2>1 DEF StrandInv, BeginningsEnd
  <2>3. CASE server.turns > 0
    BY <1>1, <2>3 DEF EndFollows
  <2>4. CASE \E m \in DOMAIN notes : m > n + 1 /\ notes[m] \in Ending
    <3>1. PICK m \in DOMAIN notes : m > n + 1 /\ notes[m] \in Ending
      BY <2>4
    <3>2. m > 1 /\ m - 1 > n
      BY <1>2, <2>1, <3>1
    <3> QED BY <1>3, <3>1, <3>2 DEF EndFollows
  <2> QED BY <2>2, <2>3, <2>4 DEF EndFollows
<1>5. note \in Beginning => EndIsOwed'
  <2> HAVE note \in Beginning
  <2>1. EndFollows(1)
    BY <1>1, <1>2 DEF StrandInv, BeginningsEnd
  <2> QED BY <1>1, <1>3, <2>1 DEF EndFollows, EndIsOwed, Ending
<1>6. note \notin Ending => (EndIsOwed => EndIsOwed')
  <2> SUFFICES ASSUME note \notin Ending, EndIsOwed PROVE EndIsOwed'
    OBVIOUS
  <2>1. \A m \in DOMAIN notes : notes[m] \in Ending => m > 1
    BY <1>1, <1>2
  <2> QED BY <1>1, <1>3, <2>1 DEF EndIsOwed, Ending
<1> QED BY <1>1, <1>2, <1>4, <1>5, <1>6

LEMMA ReadStrands ==
  ASSUME StrandInv, Reads
  PROVE  StrandInv'
<1>1. PICK note \in Notification : Read(note) /\ note \in Ending \cup Beginning \cup {"thread"}
  BY DEF Reads, ThreadStarted, TurnStarted, ThreadIdle, Notification, Ending, Beginning
<1>2. /\ notes' \in Seq(Notification) /\ UNCHANGED server /\ BeginningsEnd'
      /\ note \in Beginning => EndIsOwed'
  BY <1>1, NoteRead
<1>3. UNCHANGED <<queue, disabled, lock, monitor>> /\ Resting("run")
  BY <1>1 DEF Read
<1>4. CASE note \in Beginning
  <2>1. active' \in BOOLEAN /\ UNCHANGED pump
    BY <1>1, <1>4 DEF Reads, ThreadStarted, TurnStarted, ThreadIdle, Read, Beginning
  <2>2. EndIsOwed'
    BY <1>2, <1>4
  <2> QED BY <1>2, <1>3, <2>1, <2>2
          DEF StrandInv, PumpFits, OneSubmits, ActiveEnds, RefusalsEnd, NothingIsStranded, At
<1>5. CASE note \notin Beginning
  <2>1. active' = FALSE /\ pump' = [pump EXCEPT !["run"] = Pumping]
    BY <1>1, <1>5 DEF Reads, ThreadStarted, TurnStarted, ThreadIdle, Read, Beginning
  <2>2. /\ PumpFits' /\ \A q \in Pumper \ {"run"} : pump'[q] = pump[q]
        /\ pump'["run"].at = "lock"
    BY <1>2, <2>1, PumpMoves, Positions, Pumpers DEF StrandInv, PumpFits
  <2>3. OneSubmits' /\ ActiveEnds' /\ RefusalsEnd' /\ NothingIsStranded'
    BY <1>3, <2>1, <2>2, Pumpers
       DEF StrandInv, OneSubmits, ActiveEnds, RefusalsEnd, NothingIsStranded, At
  <2> QED BY <1>2, <2>2, <2>3 DEF StrandInv
<1> QED BY <1>4, <1>5

\* What is sent at the end of a turn.
Ends == {<<"completed", "started">>, <<"completed">>, <<"completed", "idle">>,
         <<"idle", "completed">>}

\* Notifications that are sent stand behind those that are not read.
LEMMA NotesSent ==
  ASSUME PumpFits, NEW s \in Seq(Notification), notes' = notes \o s
  PROVE  /\ notes' \in Seq(Notification)
         /\ \A n \in DOMAIN notes : n \in DOMAIN notes' /\ notes'[n] = notes[n]
         /\ \A n \in DOMAIN s : /\ Len(notes) + n \in DOMAIN notes'
                                /\ notes'[Len(notes) + n] = s[n]
         /\ \A n \in DOMAIN notes' \ DOMAIN notes :
              n - Len(notes) \in DOMAIN s /\ notes'[n] = s[n - Len(notes)]
         /\ DOMAIN notes = 1..Len(notes) /\ Len(notes) \in Nat
<1>1. notes \in Seq(Notification)
  BY DEF PumpFits
<1>2. /\ DOMAIN notes = 1..Len(notes) /\ Len(notes) \in Nat
      /\ DOMAIN s = 1..Len(s) /\ Len(s) \in Nat
  BY <1>1, LenProperties
<1>3. /\ notes' \in Seq(Notification) /\ Len(notes') = Len(notes) + Len(s)
      /\ \A n \in 1..(Len(notes) + Len(s)) :
           notes'[n] = IF n <= Len(notes) THEN notes[n] ELSE s[n - Len(notes)]
  BY <1>1, ConcatProperties
<1>4. DOMAIN notes' = 1..(Len(notes) + Len(s))
  BY <1>3, LenProperties
<1> QED BY <1>2, <1>3, <1>4

\* The App Server and the TUI owe an end for every turn that they begin.
LEMMA ServedEnds ==
  ASSUME StrandInv, Serve,
         \/ StartThread \/ Type \/ AnswerNobody \/ EndTurn \/ Disconnect
         \/ \E x \in Pumper : Answer(x)
  PROVE  /\ notes' \in Seq(Notification)
         /\ server' \in [up : BOOLEAN, turns : Nat, abandoned : {0, 1}]
         /\ BeginningsEnd' /\ (EndIsOwed => EndIsOwed')
<1>0. server \in [up : BOOLEAN, turns : Nat, abandoned : {0, 1}] /\ notes \in Seq(Notification)
  BY DEF StrandInv, PumpFits
<1>1. ASSUME server' = [server EXCEPT !.up = FALSE] \/ UNCHANGED server, UNCHANGED notes
      PROVE  /\ BeginningsEnd' /\ (EndIsOwed => EndIsOwed') /\ notes' \in Seq(Notification)
             /\ server' \in [up : BOOLEAN, turns : Nat, abandoned : {0, 1}]
  <2>1. server'.turns = server.turns /\ server' \in [up : BOOLEAN, turns : Nat, abandoned : {0, 1}]
    BY <1>0, <1>1
  <2> QED BY <1>0, <1>1, <2>1 DEF StrandInv, BeginningsEnd, EndFollows, EndIsOwed
<1>2. ASSUME NEW s \in Seq(Notification), notes' = notes \o s,
             server' = [server EXCEPT !.turns = @ + 1] \/ server' = [server EXCEPT !.turns = 1]
      PROVE  BeginningsEnd' /\ EndIsOwed' /\ notes' \in Seq(Notification)
             /\ server' \in [up : BOOLEAN, turns : Nat, abandoned : {0, 1}]
  <2>1. server'.turns > 0 /\ server' \in [up : BOOLEAN, turns : Nat, abandoned : {0, 1}]
    BY <1>0, <1>2
  <2>2. notes' \in Seq(Notification)
    BY <1>2, NotesSent DEF StrandInv
  <2> QED BY <2>1, <2>2 DEF BeginningsEnd, EndFollows, EndIsOwed
<1>3. <<>> \in Seq(Notification) /\ <<"started">> \in Seq(Notification)
      /\ <<"thread">> \in Seq(Notification) /\ <<"thread_busy">> \in Seq(Notification)
      /\ Ends \subseteq Seq(Notification)
  BY DEF Notification, Ends
<1>4. CASE AnswerNobody \/ Disconnect
  BY <1>0, <1>1, <1>4 DEF AnswerNobody, Disconnect
<1>5. CASE Type
  <2>1. PICK s \in {<<>>, <<"started">>} : notes' = notes \o s
    BY <1>5 DEF Type, Send, Started
  <2>2. server' = [server EXCEPT !.turns = @ + 1]
    BY <1>5 DEF Type, Begin
  <2> QED BY <1>2, <1>3, <2>1, <2>2
<1>6. CASE \E x \in Pumper : Answer(x)
  <2>1. PICK x \in Pumper : Answer(x)
    BY <1>6
  <2>2. CASE Begin /\ Send(Started)
    <3>1. PICK s \in {<<>>, <<"started">>} : notes' = notes \o s
      BY <2>2 DEF Send, Started
    <3>2. server' = [server EXCEPT !.turns = @ + 1]
      BY <2>2 DEF Begin
    <3> QED BY <1>2, <1>3, <3>1, <3>2
  <2>3. CASE UNCHANGED <<server, notes>>
    BY <1>0, <1>1, <2>3
  <2> QED BY <2>1, <2>2, <2>3 DEF Answer
<1>7. CASE StartThread
  <2>1. CASE Send(<<"thread_busy">>) /\ server' = [server EXCEPT !.turns = 1]
    BY <1>2, <1>3, <2>1 DEF Send
  <2>2. CASE Send(<<"thread">>) /\ UNCHANGED server
    <3>1. notes' = notes \o <<"thread">> /\ notes = <<>> /\ server.turns = 0
      BY <1>7, <2>2 DEF Send, StartThread
    <3>2. notes' = <<"thread">> /\ ~EndIsOwed /\ notes' \in Seq(Notification)
      BY <1>0, <1>3, <3>1 DEF EndIsOwed
    <3>3. DOMAIN notes' = {1} /\ notes'[1] = "thread"
      BY <3>2
    <3>4. BeginningsEnd'
      BY <3>3 DEF BeginningsEnd, Beginning
    <3> QED BY <1>0, <2>2, <3>2, <3>4
  <2> QED BY <1>7, <2>1, <2>2 DEF StartThread
<1>8. CASE EndTurn
  <2>1. PICK s \in Ends : /\ Send(s) /\ server' = [server EXCEPT !.turns = @ - 1]
                          /\ server.turns > 0
                          /\ server.turns > 1 \/ s # <<"completed", "started">>
    BY <1>8 DEF EndTurn, Ends
  <2>2. /\ notes' = notes \o s /\ s \in Seq(Notification)
        /\ server' \in [up : BOOLEAN, turns : Nat, abandoned : {0, 1}]
        /\ server'.turns = server.turns - 1
    <3>1. server.turns \in Nat /\ server.turns - 1 \in Nat
      BY <1>0, <2>1
    <3>2. notes' = notes \o s /\ s \in Seq(Notification)
      BY <1>3, <2>1 DEF Send
    <3> QED BY <1>0, <2>1, <3>1, <3>2
  <2>3. 1 \in DOMAIN s /\ s[1] \in Ending
    BY <2>1 DEF Ends, Ending
  <2>4. Len(notes) + 1 \in DOMAIN notes' /\ notes'[Len(notes) + 1] \in Ending
    BY <2>2, <2>3, NotesSent DEF StrandInv
  <2>5. EndIsOwed'
    BY <2>4 DEF EndIsOwed, Ending
  <2>6. BeginningsEnd'
    <3> SUFFICES ASSUME NEW n \in DOMAIN notes', notes'[n] \in Beginning
                 PROVE  EndFollows(n)'
      BY DEF BeginningsEnd
    <3>1. CASE n \in DOMAIN notes
      <4>1. Len(notes) + 1 > n
        BY <2>2, <3>1, NotesSent DEF StrandInv
      <4> QED BY <2>4, <4>1 DEF EndFollows
    <3>2. CASE n \notin DOMAIN notes
      <4>1. n - Len(notes) \in DOMAIN s /\ s[n - Len(notes)] \in Beginning
        BY <2>2, <3>2, NotesSent DEF StrandInv
      <4>2. s = <<"completed", "started">>
        BY <2>1, <4>1 DEF Ends, Beginning
      <4>3. server'.turns > 0
        BY <1>0, <2>1, <2>2, <4>2
      <4> QED BY <4>3 DEF EndFollows
    <3> QED BY <3>1, <3>2
  <2> QED BY <2>2, <2>5, <2>6, NotesSent DEF StrandInv
<1> QED BY <1>4, <1>5, <1>6, <1>7, <1>8

LEMMA ServedStrands ==
  ASSUME StrandInv, Serve,
         \/ StartThread \/ Type \/ AnswerNobody \/ EndTurn \/ Disconnect
         \/ \E x \in Pumper : Answer(x)
  PROVE  StrandInv'
<1>1. /\ notes' \in Seq(Notification)
      /\ server' \in [up : BOOLEAN, turns : Nat, abandoned : {0, 1}]
      /\ BeginningsEnd' /\ (EndIsOwed => EndIsOwed')
  BY ServedEnds
<1>2. UNCHANGED <<queue, attached, active, disabled, refused, lock, monitor>>
  BY DEF Serve, bridge
<1>3. CASE UNCHANGED pump
  BY <1>1, <1>2, <1>3
     DEF StrandInv, PumpFits, OneSubmits, ActiveEnds, RefusalsEnd, NothingIsStranded, At
<1>4. CASE \E x \in Pumper : Answer(x)
  <2>1. PICK x \in Pumper : Answer(x)
    BY <1>4
  <2>2. PICK reply \in Replies \ {"none"} :
          /\ pump' = [pump EXCEPT ![x].reply = reply]
          /\ At(x, "turn") /\ (EndIsOwed' \/ reply = "refused")
    <3>1. CASE Begin /\ \E reply \in {"ok", "nameless"} : pump' = [pump EXCEPT ![x].reply = reply]
      <4>1. server'.turns > 0
        BY <3>1 DEF StrandInv, PumpFits, Begin
      <4> QED BY <2>1, <3>1, <4>1 DEF Answer, EndIsOwed, Replies
    <3>2. CASE /\ UNCHANGED server
               /\ pump' = [pump EXCEPT ![x].reply = IF server.turns > 0 THEN "busy" ELSE "refused"]
      BY <2>1, <3>2 DEF Answer, EndIsOwed, Replies
    <3> QED BY <2>1, <3>1, <3>2 DEF Answer
  <2>3. /\ pump' \in [Pumper -> [at : {"rest", "lock", "turn", "cut"},
                                 action : Action \cup {None},
                                 reply : Replies]]
        /\ \A q \in Pumper : pump'[q].at = pump[q].at
    BY <2>2 DEF StrandInv, PumpFits
  <2> QED BY <1>1, <1>2, <2>2, <2>3
          DEF StrandInv, PumpFits, OneSubmits, ActiveEnds, RefusalsEnd, NothingIsStranded, At
<1> QED BY <1>3, <1>4 DEF StartThread, Type, AnswerNobody, EndTurn, Disconnect

LEMMA StrandStep ==
  ASSUME queue \in Seq(Action), StrandInv, [Next]_vars
  PROVE  StrandInv'
<1>1. CASE UNCHANGED vars
  BY <1>1 DEF vars, bridge, StrandInv, PumpFits, OneSubmits, ActiveEnds, BeginningsEnd,
     EndFollows, RefusalsEnd, NothingIsStranded, EndIsOwed, At
<1>2. CASE TurnOff
  BY <1>2 DEF TurnOff, bridge, StrandInv, PumpFits, OneSubmits, ActiveEnds, BeginningsEnd,
     EndFollows, RefusalsEnd, NothingIsStranded, EndIsOwed, At
<1>3. ASSUME NEW w \in Watcher,
             \/ \E a \in Review : HearReview(w, a)
             \/ \E g \in Goal, gen \in 1..MaxReview : HearReceipt(w, g, gen)
             \/ \E a \in Event : HearEvent(w, a)
      PROVE  StrandInv'
  <2>1. Hear(w)
    BY <1>3 DEF HearReview, HearReceipt, HearEvent
  <2> QED BY <2>1, HearStrands
<1>4. ASSUME NEW x \in Pumper, Submits(x) PROVE StrandInv'
  BY <1>4, PickStrands, AcceptedStrands, RefusedStrands DEF Submits
<1>5. CASE \/ StartThread \/ Type \/ AnswerNobody \/ EndTurn \/ Disconnect
           \/ \E x \in Pumper : Answer(x)
  <2>1. Serve
    BY <1>5 DEF StartThread, Type, AnswerNobody, EndTurn, Disconnect, Answer
  <2> QED BY <1>5, <2>1, ServedStrands
<1> QED BY <1>1, <1>2, <1>3, <1>4, <1>5, RebindStrands, ReadStrands DEF Next

LEMMA StrandInit == Init => StrandInv
<1> SUFFICES ASSUME Init PROVE StrandInv
  OBVIOUS
<1>1. notes = <<>> /\ notes \in Seq(Notification) /\ DOMAIN notes = {}
  BY EmptySeq DEF Init
<1>2. \A x \in Pumper : pump[x] = [at |-> "rest", action |-> None, reply |-> "none"]
  BY Positions DEF Init
<1>3. PumpFits
  BY <1>1, Positions DEF Init, PumpFits
<1>4. OneSubmits /\ ActiveEnds /\ BeginningsEnd /\ RefusalsEnd /\ NothingIsStranded
  BY <1>1, <1>2
     DEF Init, OneSubmits, ActiveEnds, BeginningsEnd, RefusalsEnd, NothingIsStranded, At
<1> QED BY <1>3, <1>4 DEF StrandInv

\* No order of completions, notifications, refusals and responses strands a
\* queued action: as long as the monitor is on, some goroutine is in pump, or a
\* notification that will start one is owed, or the App Server refused the last
\* submission while no turn ran.  Such an action waits for the next idle
\* transition or event, as codexMonitorBridge.pump leaves it.  What fairness is
\* left to do is the run's property QueuedIsTried.
THEOREM NothingStranded == Spec => []NothingIsStranded
<1>1. Init => QueueInv /\ StrandInv
  BY QueueInit, StrandInit
<1>2. (QueueInv /\ StrandInv) /\ [Next]_vars => (QueueInv /\ StrandInv)'
  BY QueueStep, StrandStep DEF QueueInv
<1>3. QueueInv /\ StrandInv => NothingIsStranded
  BY DEF StrandInv
<1> QED BY <1>1, <1>2, <1>3, PTL DEF Spec
============
