-------------------------- MODULE StopCheckProofs --------------------------
(***************************************************************************)
(* Proofs that a goal that goes on names somebody, that whoever is named   *)
(* can act, and that a session that was let go although it is named is     *)
(* woken, for every set of tasks, every bound and every set of deviations. *)
(***************************************************************************)
EXTENDS StopCheck, TLAPS

\* A row that is not under review leaves a submission: a reviewer sends back
\* only what can be answered.
MaySubmitAgain(h) ==
  h.phase \in {"submitted", "reviewing", "completed"} \/ h.gen < MaxGen

\* What the status of a task says of the row of its handoff.
TaskFits(t) ==
  LET phase == board.th[t].phase IN
  /\ status[t] = "absent" => phase = "none"
  /\ status[t] = "todo" => phase \in {"none", "requested", "recovered"}
  /\ status[t] = "review" => phase \in {"submitted", "reviewing", "recovered"}
  /\ status[t] = "done" => phase = "completed"
  /\ phase = "received" => status[t] = "doing"
  /\ phase \in {"submitted", "reviewing"} => status[t] = "review"
  /\ status[t] = "doing" =>
       phase \in {"received", "rejected", "acknowledged", "recovered"}
  /\ t \in past => phase # "none"
  /\ MaySubmitAgain(board.th[t])

\* Tasks come from an accepted plan, whose goal somebody received.
GoalFits ==
  /\ board.ph.phase \notin {"requested", "received", "recovered"}
  /\ \/ board.ph.phase = "completed"
     \/ /\ board.gh.phase \in {"none", "requested", "received", "recovered"}
        /\ board.tc = "none" /\ Created = {}
  /\ board.gh.phase = "none" => Created = {}
  /\ board.gh.phase = "completed" => Stopped(board)
  /\ MaySubmitAgain(board.gh) /\ MaySubmitAgain(board.ph)

\* The handoff that a review was requested for is still under review, unless
\* its reviewer, and then its holder, was replaced.
ReviewedPhase(phase, left) ==
  \/ phase \in {"reviewing", "completed"}
  \/ phase = "submitted" /\ left + 1 <= MaxOdd
  \/ phase \in {"requested", "received", "recovered"} /\ left + 2 <= MaxOdd

\* An open review is of the last submission, and a rejection can be answered.
ReviewFits ==
  /\ board.review.status = "open" \/ Approved(board) =>
       ReviewedPhase(board.gh.phase, odd)
  /\ board.review.status = "open" => board.gh.gen = board.review.gen
  /\ board.review.status = "answered" =>
       board.review.label = "reject" /\ board.review.gen < MaxGen

AdviceInv ==
  /\ AdviceTypeOK
  /\ \A t \in Task : TaskFits(t)
  /\ GoalFits
  /\ ReviewFits

\* A step deviates or does not.
OddMoves == odd' = odd \/ (odd > 0 /\ odd' = odd - 1)
-----------------------------------------------------------------------------
(* Writing one column of the board.                                        *)

LEMMA InitFits == AdviceInit => AdviceInv
<1> SUFFICES ASSUME AdviceInit PROVE AdviceInv
  OBVIOUS
<1>1. board \in Board
  <2>1. NoHandoff \in HandoffView
    BY MaxGenAssumption DEF NoHandoff, HandoffView, Phase
  <2>2. NoQuestion \in [status : {"none", "open", "answered", "applied", "withdrawn"},
                        role : {"subcommander", "executor"}, task : Task \cup {NoTask},
                        byDefault : BOOLEAN, old : BOOLEAN]
    BY DEF NoQuestion
  <2>3. NoReviewYet \in [status : {"none", "open", "answered", "applied", "withdrawn"},
                         label : {"", "approve", "reject"}, gen : 0..MaxGen]
    BY MaxGenAssumption DEF NoReviewYet
  <2> QED BY <2>1, <2>2, <2>3 DEF AdviceInit, NewBoard, Board
<1>2. AdviceTypeOK
  BY <1>1, MaxOddAssumption DEF AdviceInit, AdviceTypeOK, TaskStatuses
<1>3. (\A t \in Task : TaskFits(t)) /\ GoalFits
  <2>1. MaySubmitAgain(NoHandoff) /\ NoHandoff.phase = "none"
    BY SubmissionAssumption, MaxGenAssumption DEF NoHandoff, MaySubmitAgain
  <2>2. board.gh = NoHandoff /\ board.ph = NoHandoff /\ board.tc = "none"
    BY DEF AdviceInit, NewBoard
  <2>3. \A t \in Task : board.th[t] = NoHandoff /\ status[t] = "absent" /\ t \notin past
    BY DEF AdviceInit, NewBoard
  <2>4. \A t \in Task : TaskFits(t)
    BY <2>1, <2>3 DEF TaskFits
  <2>5. MaySubmitAgain(board.gh) /\ MaySubmitAgain(board.ph)
    BY <2>1, <2>2
  <2>6. GoalFits
    BY <2>1, <2>2, <2>3, <2>5 DEF GoalFits, Created
  <2> QED BY <2>4, <2>6
<1>4. ReviewFits
  BY DEF AdviceInit, NewBoard, NoReviewYet, ReviewFits, Approved
<1> QED BY <1>2, <1>3, <1>4 DEF AdviceInv

LEMMA OddTyped ==
  ASSUME odd \in 0..MaxOdd, OddMoves
  PROVE  odd' \in 0..MaxOdd /\ odd' <= odd
BY MaxOddAssumption DEF OddMoves

\* What is left of the deviations only falls.
LEMMA ReviewedLater ==
  ASSUME NEW phase, NEW a \in Nat, NEW b \in Nat, b <= a, ReviewedPhase(phase, a)
  PROVE  ReviewedPhase(phase, b)
BY MaxOddAssumption DEF ReviewedPhase

LEMMA ReviewedStays ==
  ASSUME odd \in 0..MaxOdd, OddMoves, NEW phase, ReviewedPhase(phase, odd)
  PROVE  ReviewedPhase(phase, odd')
<1>1. odd \in Nat /\ odd' \in Nat /\ odd' <= odd
  BY OddTyped, MaxOddAssumption
<1> QED BY <1>1, ReviewedLater

Question == [status : {"none", "open", "answered", "applied", "withdrawn"},
             role : {"subcommander", "executor"}, task : Task \cup {NoTask},
             byDefault : BOOLEAN, old : BOOLEAN]
Review == [status : {"none", "open", "answered", "applied", "withdrawn"},
           label : {"", "approve", "reject"}, gen : 0..MaxGen]

LEMMA GhColumn ==
  ASSUME NEW b \in Board, NEW h \in HandoffView, NEW c, c = [b EXCEPT !.gh = h]
  PROVE  /\ c \in Board /\ c.gh = h
         /\ c.ph = b.ph /\ c.th = b.th /\ c.tc = b.tc
         /\ c.goal = b.goal /\ c.ask = b.ask /\ c.review = b.review
BY DEF Board, Question, Review

LEMMA PhColumn ==
  ASSUME NEW b \in Board, NEW h \in HandoffView, NEW c, c = [b EXCEPT !.ph = h]
  PROVE  /\ c \in Board /\ c.ph = h
         /\ c.gh = b.gh /\ c.th = b.th /\ c.tc = b.tc
         /\ c.goal = b.goal /\ c.ask = b.ask /\ c.review = b.review
BY DEF Board, Question, Review

LEMMA TcColumn ==
  ASSUME NEW b \in Board, NEW x \in {"none", "requested", "received", "completed"}, NEW c, c = [b EXCEPT !.tc = x]
  PROVE  /\ c \in Board /\ c.tc = x
         /\ c.gh = b.gh /\ c.ph = b.ph /\ c.th = b.th
         /\ c.goal = b.goal /\ c.ask = b.ask /\ c.review = b.review
BY DEF Board, Question, Review

LEMMA GoalColumn ==
  ASSUME NEW b \in Board, NEW x \in {"active", "stopped"}, NEW c, c = [b EXCEPT !.goal = x]
  PROVE  /\ c \in Board /\ c.goal = x
         /\ c.gh = b.gh /\ c.ph = b.ph /\ c.th = b.th
         /\ c.tc = b.tc /\ c.ask = b.ask /\ c.review = b.review
BY DEF Board, Question, Review

LEMMA AskColumn ==
  ASSUME NEW b \in Board, NEW q \in Question, NEW c, c = [b EXCEPT !.ask = q]
  PROVE  /\ c \in Board /\ c.ask = q
         /\ c.gh = b.gh /\ c.ph = b.ph /\ c.th = b.th
         /\ c.tc = b.tc /\ c.goal = b.goal /\ c.review = b.review
BY DEF Board, Question, Review

LEMMA ReviewColumn ==
  ASSUME NEW b \in Board, NEW r \in Review, NEW c, c = [b EXCEPT !.review = r]
  PROVE  /\ c \in Board /\ c.review = r
         /\ c.gh = b.gh /\ c.ph = b.ph /\ c.th = b.th
         /\ c.tc = b.tc /\ c.goal = b.goal /\ c.ask = b.ask
BY DEF Board, Question, Review

LEMMA PhaseWritten ==
  ASSUME NEW h \in HandoffView, NEW phase \in Phase
  PROVE  /\ [h EXCEPT !.phase = phase] \in HandoffView
         /\ [h EXCEPT !.phase = phase].phase = phase
         /\ [h EXCEPT !.phase = phase].gen = h.gen
BY DEF HandoffView

LEMMA SubmissionWritten ==
  ASSUME NEW h \in HandoffView, h.gen < MaxGen
  PROVE  Submitted(h) \in HandoffView /\ Submitted(h).phase = "submitted"
<1>1. PICK k : k = [h EXCEPT !.phase = "submitted"]
  OBVIOUS
<1>2. k \in HandoffView /\ k.phase = "submitted" /\ k.gen = h.gen
  BY <1>1 DEF HandoffView, Phase
<1>3. h.gen + 1 \in 0..MaxGen
  BY MaxGenAssumption DEF HandoffView
<1>4. [k EXCEPT !.gen = h.gen + 1] \in HandoffView
  BY <1>2, <1>3 DEF HandoffView
<1>5. [k EXCEPT !.gen = h.gen + 1].phase = "submitted"
  BY <1>2 DEF HandoffView
<1>6. Submitted(h) = [k EXCEPT !.gen = h.gen + 1]
  BY <1>1 DEF Submitted
<1> QED BY <1>4, <1>5, <1>6

\* What one task's row and status become.
Fit(phase, s) ==
  /\ s # "absent"
  /\ s = "todo" => phase \in {"none", "requested", "recovered"}
  /\ s = "review" => phase \in {"submitted", "reviewing", "recovered"}
  /\ s = "done" => phase = "completed"
  /\ phase = "received" => s = "doing"
  /\ phase \in {"submitted", "reviewing"} => s = "review"
  /\ s = "doing" => phase \in {"received", "rejected", "acknowledged", "recovered"}

\* A step on one task, which exists and whose goal was received.
LEMMA TaskMoves ==
  ASSUME AdviceInv, NEW t \in Task, NEW STATE h, NEW STATE s,
         status[t] # "absent", board.gh.phase # "none",
         h \in HandoffView, s \in TaskStatuses, Fit(h.phase, s), MaySubmitAgain(h),
         board' = [board EXCEPT !.th[t] = h],
         status' = [status EXCEPT ![t] = s],
         past' = past \/ past' = past \cup {t}, t \in past' => h.phase # "none",
         OddMoves
  PROVE  AdviceInv'
<1>1. /\ board \in Board /\ status \in [Task -> TaskStatuses] /\ past \subseteq Task
      /\ odd \in 0..MaxOdd
      /\ \A u \in Task : TaskFits(u)
      /\ GoalFits /\ ReviewFits
  BY DEF AdviceInv, AdviceTypeOK
<1>2. /\ board' \in Board
      /\ board'.th[t] = h /\ \A u \in Task \ {t} : board'.th[u] = board.th[u]
      /\ board'.gh = board.gh /\ board'.ph = board.ph
      /\ board'.tc = board.tc /\ board'.goal = board.goal
      /\ board'.review = board.review
  <2>1. PICK f : f = [board.th EXCEPT ![t] = h]
    OBVIOUS
  <2>2. board.th \in [Task -> HandoffView]
    BY <1>1 DEF Board
  <2>3. f \in [Task -> HandoffView] /\ f[t] = h /\ \A u \in Task \ {t} : f[u] = board.th[u]
    BY <2>1, <2>2
  <2>4. board' = [board EXCEPT !.th = f]
    BY <2>1
  <2>5. /\ board'.th = f /\ board'.gh = board.gh /\ board'.ph = board.ph
        /\ board'.tc = board.tc /\ board'.goal = board.goal
        /\ board'.review = board.review
    BY <1>1, <2>4 DEF Board
  <2>6. board' \in Board
    BY <1>1, <2>3, <2>4 DEF Board
  <2> QED BY <2>3, <2>5, <2>6
<1>3. /\ status' \in [Task -> TaskStatuses] /\ status'[t] = s
      /\ \A u \in Task \ {t} : status'[u] = status[u]
  BY <1>1
<1>4. AdviceTypeOK'
  BY <1>1, <1>2, <1>3, OddTyped DEF AdviceTypeOK
<1>5. ASSUME NEW u \in Task PROVE TaskFits(u)'
  BY <1>1, <1>2, <1>3, <1>5 DEF TaskFits, Fit, MaySubmitAgain
<1>6. GoalFits'
  BY <1>1, <1>2, <1>3 DEF GoalFits, Created, Fit, Stopped, MaySubmitAgain
<1>7. ReviewFits'
  BY <1>1, <1>2, ReviewedStays DEF ReviewFits, Approved
<1> QED BY <1>4, <1>5, <1>6, <1>7 DEF AdviceInv

\* A step on the rows of the goal alone.
LEMMA GoalMoves ==
  ASSUME AdviceInv, board' \in Board, board'.th = board.th, UNCHANGED <<status, past>>,
         OddMoves, MaySubmitAgain(board'.gh), MaySubmitAgain(board'.ph), ReviewFits',
         board.ph.phase = "completed" => board'.ph.phase = "completed",
         board'.ph.phase \notin {"requested", "received", "recovered"},
         \/ board'.ph.phase = "completed"
         \/ /\ board'.gh.phase \in {"none", "requested", "received", "recovered"}
            /\ board'.tc = "none",
         board'.gh.phase = "none" => board.gh.phase = "none",
         board'.gh.phase = "completed" => Stopped(board)'
  PROVE  AdviceInv'
<1>1. AdviceTypeOK'
  BY OddTyped DEF AdviceInv, AdviceTypeOK
<1>2. \A t \in Task : TaskFits(t)'
  BY DEF AdviceInv, TaskFits, MaySubmitAgain
<1>3. GoalFits'
  BY DEF AdviceInv, GoalFits, Created, Stopped, MaySubmitAgain
<1> QED BY <1>1, <1>2, <1>3 DEF AdviceInv

\* What the review says stays true while the handoff it is of stays as it was.
LEMMA ReviewStays ==
  ASSUME AdviceInv, OddMoves, board'.review = board.review,
         board'.gh.phase = board.gh.phase, board'.gh.gen = board.gh.gen
  PROVE  ReviewFits'
<1>1. odd \in 0..MaxOdd /\ ReviewFits
  BY DEF AdviceInv, AdviceTypeOK
<1> QED BY <1>1, ReviewedStays DEF ReviewFits, Approved
-----------------------------------------------------------------------------
(* The steps on tasks.                                                     *)

LEMMA TaskStep ==
  ASSUME AdviceInv, NEW t \in Task,
         \/ RequestTaskHandoff(t) \/ ReceiveTaskReview(t) \/ RejectTask(t) \/ CompleteTask(t)
         \/ ReceiveTaskHandoff(t) \/ RequestTaskReview(t) \/ ReceiveTaskRejection(t)
         \/ RecoverTaskHandoff(t) \/ DropTask(t)
  PROVE  AdviceInv'
<1>1. PICK h : h = board.th[t]
  OBVIOUS
<1>2. /\ board \in Board /\ status \in [Task -> TaskStatuses] /\ h \in HandoffView
      /\ odd \in 0..MaxOdd /\ TaskFits(t) /\ GoalFits
  BY <1>1 DEF AdviceInv, AdviceTypeOK, Board
<1>3. /\ h.phase \in Phase
      /\ h.phase # "none" => status[t] # "absent"
      /\ status[t] # "absent" => board.gh.phase # "none"
      /\ h.phase \in {"submitted", "reviewing", "completed"} \/ h.gen < MaxGen
  BY <1>1, <1>2 DEF TaskFits, GoalFits, HandoffView, Created, MaySubmitAgain
<1>4. ASSUME NEW phase \in Phase, NEW s \in TaskStatuses, TaskCall(t, phase, s),
             Fit(phase, s), status[t] # "absent", board.gh.phase # "none", phase # "none",
             phase \in {"submitted", "reviewing", "completed"} \/ h.gen < MaxGen
      PROVE  AdviceInv'
  <2>1. PICK k : k = [h EXCEPT !.phase = phase]
    OBVIOUS
  <2>2. k \in HandoffView /\ k.phase = phase /\ MaySubmitAgain(k)
    BY <1>2, <1>4, <2>1, PhaseWritten DEF MaySubmitAgain
  <2>3. board' = [board EXCEPT !.th[t] = k]
    BY <1>1, <1>4, <2>1 DEF TaskCall
  <2> QED BY <1>2, <1>4, <2>2, <2>3, TaskMoves DEF TaskCall, OddMoves
<1>5. CASE RequestTaskHandoff(t)
  <2>1. /\ TaskCall(t, "requested", "todo")
        /\ board.gh.phase # "none" /\ status[t] \in {"todo", "doing", "review"}
        /\ ~Open(h)
    BY <1>1, <1>5 DEF RequestTaskHandoff, MayRequestTaskHandoff, HoldsGoalHandoff, Open
  <2>2. h.phase \notin {"submitted", "reviewing", "completed"}
    BY <1>1, <1>2, <2>1 DEF Open, TaskFits
  <2> QED BY <1>3, <1>4, <2>1, <2>2 DEF Phase, TaskStatuses, Fit
<1>6. CASE ReceiveTaskReview(t)
  <2>1. TaskCall(t, "reviewing", "review") /\ h.phase = "submitted"
    BY <1>1, <1>6 DEF ReceiveTaskReview, MayReceiveTaskReview
  <2> QED BY <1>3, <1>4, <2>1 DEF Phase, TaskStatuses, Fit
<1>7. CASE RejectTask(t)
  <2>1. TaskCall(t, "rejected", "doing") /\ h.phase = "reviewing" /\ h.gen < MaxGen
    BY <1>1, <1>7 DEF RejectTask, Again
  <2> QED BY <1>3, <1>4, <2>1 DEF Phase, TaskStatuses, Fit
<1>8. CASE CompleteTask(t)
  <2>1. TaskCall(t, "completed", "done") /\ h.phase = "reviewing"
    BY <1>1, <1>8 DEF CompleteTask, MayCompleteTask
  <2> QED BY <1>3, <1>4, <2>1 DEF Phase, TaskStatuses, Fit
<1>9. CASE ReceiveTaskHandoff(t)
  <2>1. TaskCall(t, "received", "doing") /\ h.phase = "requested"
    BY <1>1, <1>9 DEF ReceiveTaskHandoff
  <2> QED BY <1>3, <1>4, <2>1 DEF Phase, TaskStatuses, Fit
<1>10. CASE ReceiveTaskRejection(t)
  <2>1. TaskCall(t, "acknowledged", status[t]) /\ h.phase = "rejected"
    BY <1>1, <1>10 DEF ReceiveTaskRejection
  <2>2. status[t] \in TaskStatuses /\ Fit("acknowledged", status[t])
    BY <1>1, <1>2, <1>3, <2>1 DEF Fit, TaskFits
  <2> QED BY <1>3, <1>4, <2>1, <2>2 DEF Phase
<1>11. CASE RequestTaskReview(t)
  <2>1. PICK k : k = Submitted(h)
    OBVIOUS
  <2>2. /\ h.phase \in {"received", "acknowledged"} /\ h.gen < MaxGen
        /\ board' = [board EXCEPT !.th[t] = k]
        /\ status' = [status EXCEPT ![t] = "review"]
        /\ UNCHANGED <<past, odd>>
    BY <1>1, <1>11, <2>1 DEF RequestTaskReview, MayRequestTaskReview, Again
  <2>3. k \in HandoffView /\ k.phase = "submitted"
    BY <1>2, <2>1, <2>2, SubmissionWritten
  <2>4. Fit("submitted", "review") /\ "review" \in TaskStatuses
    BY DEF Fit, TaskStatuses
  <2> QED BY <1>2, <1>3, <2>2, <2>3, <2>4, TaskMoves DEF OddMoves, MaySubmitAgain
<1>12. CASE RecoverTaskHandoff(t)
  <2>1. PICK k : k = [h EXCEPT !.phase = "recovered"]
    OBVIOUS
  <2>2. /\ Open(h) /\ UNCHANGED status /\ h.gen < MaxGen
        /\ board' = [board EXCEPT !.th[t].phase = "recovered"]
        /\ past' = past \/ past' = past \cup {t}
        /\ OddMoves
    BY <1>1, <1>12 DEF RecoverTaskHandoff, Deviate, Again, OddMoves
  <2>3. k \in HandoffView /\ k.phase = "recovered" /\ MaySubmitAgain(k)
    BY <1>2, <2>1, <2>2, PhaseWritten DEF Phase, MaySubmitAgain
  <2>4. board' = [board EXCEPT !.th[t] = k]
    BY <1>1, <2>1, <2>2
  <2> PICK s : s = status[t]
    OBVIOUS
  <2>5. status' = [status EXCEPT ![t] = s] /\ s \in TaskStatuses
    BY <1>2, <2>2
  <2>6. Fit("recovered", s)
    BY <1>1, <1>2, <1>3, <2>2 DEF Fit, TaskFits, Open
  <2>8. status[t] # "absent" /\ board.gh.phase # "none"
    BY <1>3, <2>2 DEF Open
  <2>9. Fit(k.phase, s) /\ (t \in past' => k.phase # "none")
    BY <2>3, <2>6
  <2> QED BY <2>2, <2>3, <2>4, <2>5, <2>8, <2>9, TaskMoves, Zenon
<1>13. CASE DropTask(t)
  <2> DEFINE to == IF h.phase \in {"received", "rejected", "acknowledged"}
                     THEN "completed" ELSE h.phase
  <2>1. PICK k : k = [h EXCEPT !.phase = to]
    OBVIOUS
  <2>2. /\ status[t] \in {"todo", "doing"}
        /\ board' = [board EXCEPT !.th[t].phase = to]
        /\ status' = [status EXCEPT ![t] = "dropped"]
        /\ past' = past /\ OddMoves
    BY <1>1, <1>13 DEF DropTask, Deviate, OddMoves
  <2>3. /\ to \in Phase /\ (h.phase # "none" => to # "none") /\ to # "received"
        /\ to = h.phase \/ to = "completed"
    BY <1>3 DEF Phase
  <2>4. to \notin {"submitted", "reviewing"}
    BY <1>1, <1>2, <2>2 DEF TaskFits
  <2> HIDE DEF to
  <2>5. k \in HandoffView /\ k.phase = to /\ k.gen = h.gen
    BY <1>2, <2>1, <2>3, PhaseWritten
  <2>6. board' = [board EXCEPT !.th[t] = k]
    BY <1>1, <2>1, <2>2
  <2>7. Fit(to, "dropped") /\ "dropped" \in TaskStatuses
    BY <2>3, <2>4 DEF Fit, TaskStatuses
  <2>8. MaySubmitAgain(k)
    BY <1>3, <2>3, <2>5 DEF MaySubmitAgain
  <2>9. t \in past' => to # "none"
    BY <1>1, <1>2, <2>2, <2>3 DEF TaskFits
  <2> QED BY <1>3, <2>2, <2>5, <2>6, <2>7, <2>8, <2>9, TaskMoves
<1> QED BY <1>5, <1>6, <1>7, <1>8, <1>9, <1>10, <1>11, <1>12, <1>13
-----------------------------------------------------------------------------
(* The steps on the rows of the goal.                                      *)

TaskState == <<status, past>>

\* What every step on the rows of the goal starts from.
LEMMA GoalFacts ==
  ASSUME AdviceInv
  PROVE  /\ board \in Board /\ odd \in 0..MaxOdd
         /\ board.gh \in HandoffView /\ board.ph \in HandoffView
         /\ board.ask \in Question /\ board.review \in Review
         /\ board.gh.phase \in Phase /\ board.ph.phase \in Phase
         /\ GoalFits /\ ReviewFits
BY DEF AdviceInv, AdviceTypeOK, Board, HandoffView, Question, Review

\* A row of the goal moves, and nothing else.
LEMMA GoalHandoffMoves ==
  ASSUME AdviceInv, NEW phase \in Phase \ {"none", "completed"},
         board' = [board EXCEPT !.gh.phase = phase], UNCHANGED TaskState, OddMoves,
         phase \in {"submitted", "reviewing"} \/ board.gh.gen < MaxGen,
         ReviewedPhase(board.gh.phase, odd) => ReviewedPhase(phase, odd'),
         board.ph.phase = "completed" \/ phase \in {"requested", "received", "recovered"}
  PROVE  AdviceInv'
<1>1. PICK h : h = [board.gh EXCEPT !.phase = phase]
  OBVIOUS
<1>2. /\ h \in HandoffView /\ h.phase = phase /\ h.gen = board.gh.gen
      /\ board' = [board EXCEPT !.gh = h]
  BY <1>1, GoalFacts, PhaseWritten
<1>0. board \in Board
  BY GoalFacts
<1>3. /\ board' \in Board /\ board'.gh = h /\ board'.ph = board.ph
      /\ board'.th = board.th /\ board'.tc = board.tc /\ board'.review = board.review
  BY ONLY <1>0, <1>2, GhColumn
<1>4. ReviewFits'
  BY <1>2, <1>3, GoalFacts DEF ReviewFits, Approved
<1>5. MaySubmitAgain(board'.gh) /\ MaySubmitAgain(board'.ph)
  BY <1>2, <1>3, GoalFacts DEF GoalFits, MaySubmitAgain
<1> QED BY <1>2, <1>3, <1>4, <1>5, GoalFacts, GoalMoves DEF GoalFits, TaskState

LEMMA PlanHandoffMoves ==
  ASSUME AdviceInv, NEW phase \in {"reviewing", "rejected", "acknowledged"},
         board' = [board EXCEPT !.ph.phase = phase], UNCHANGED TaskState, OddMoves,
         phase = "reviewing" \/ board.ph.gen < MaxGen,
         board.ph.phase # "completed"
  PROVE  AdviceInv'
<1>1. PICK h : h = [board.ph EXCEPT !.phase = phase]
  OBVIOUS
<1>0. board \in Board /\ board.ph \in HandoffView /\ phase \in Phase
  BY GoalFacts DEF Phase
<1>2. h \in HandoffView /\ h.phase = phase /\ h.gen = board.ph.gen
  BY ONLY <1>0, <1>1, PhaseWritten
<1>4. board' = [board EXCEPT !.ph = h]
  BY <1>1
<1>3. /\ board' \in Board /\ board'.ph = h /\ board'.gh = board.gh
      /\ board'.th = board.th /\ board'.tc = board.tc /\ board'.review = board.review
  BY ONLY <1>0, <1>2, <1>4, PhColumn
<1>5. MaySubmitAgain(board'.gh) /\ MaySubmitAgain(board'.ph)
  BY <1>2, <1>3, GoalFacts DEF GoalFits, MaySubmitAgain
<1> QED BY <1>2, <1>3, <1>5, GoalFacts, GoalMoves, ReviewStays DEF GoalFits, TaskState

\* The talk with the human moves no row.
LEMMA TalkMoves ==
  ASSUME AdviceInv, board' \in Board, UNCHANGED TaskState, OddMoves, ReviewFits',
         board'.gh = board.gh, board'.ph = board.ph, board'.th = board.th,
         board'.tc = board.tc, Stopped(board) => Stopped(board)'
  PROVE  AdviceInv'
BY GoalFacts, GoalMoves DEF GoalFits, TaskState

LEMMA GoalHandoffStep ==
  ASSUME AdviceInv,
         \/ RequestGoalHandoff \/ ReceiveGoalReview \/ ReceiveGoalHandoff
         \/ ReceiveGoalRejection \/ RecoverGoalHandoff
  PROVE  AdviceInv'
<1>1. CASE RequestGoalHandoff
  <2>1. /\ board' = [board EXCEPT !.gh.phase = "requested"] /\ UNCHANGED <<status, past, odd>>
    BY <1>1 DEF RequestGoalHandoff, Call
  <2>2. Active /\ board.gh.phase \in {"none", "recovered"}
    BY <1>1, GoalFacts DEF RequestGoalHandoff, Call, Active, Open, GoalFits
  <2> QED BY <2>1, <2>2, GoalFacts, GoalHandoffMoves
          DEF Phase, TaskState, OddMoves, GoalFits, MaySubmitAgain, ReviewedPhase
<1>2. CASE ReceiveGoalReview
  <2>1. /\ board.gh.phase = "submitted"
        /\ board' = [board EXCEPT !.gh.phase = "reviewing"] /\ UNCHANGED <<status, past, odd>>
    BY <1>2 DEF ReceiveGoalReview, Call
  <2> QED BY <2>1, GoalFacts, GoalHandoffMoves
          DEF Phase, TaskState, OddMoves, GoalFits, ReviewedPhase
<1>3. CASE ReceiveGoalHandoff
  <2>1. /\ board.gh.phase = "requested"
        /\ board' = [board EXCEPT !.gh.phase = "received"] /\ UNCHANGED <<status, past, odd>>
    BY <1>3 DEF ReceiveGoalHandoff, Call
  <2> QED BY <2>1, GoalFacts, GoalHandoffMoves
          DEF Phase, TaskState, OddMoves, GoalFits, MaySubmitAgain, ReviewedPhase
<1>4. CASE ReceiveGoalRejection
  <2>1. /\ board.gh.phase = "rejected"
        /\ board' = [board EXCEPT !.gh.phase = "acknowledged"]
        /\ UNCHANGED <<status, past, odd>>
    BY <1>4 DEF ReceiveGoalRejection, Call
  <2> QED BY <2>1, GoalFacts, GoalHandoffMoves
          DEF Phase, TaskState, OddMoves, GoalFits, MaySubmitAgain, ReviewedPhase
<1>5. CASE RecoverGoalHandoff
  <2> DEFINE to == IF board.gh.phase = "reviewing" THEN "submitted" ELSE "recovered"
  <2>1. /\ board' = [board EXCEPT !.gh.phase = to] /\ UNCHANGED <<status, past>>
        /\ odd > 0 /\ odd' = odd - 1 /\ board.gh.gen < MaxGen
        /\ Open(board.gh)
    BY <1>5 DEF RecoverGoalHandoff, Deviate, Again
  <2>2. /\ to \in Phase \ {"none", "completed"}
        /\ board.ph.phase = "completed" \/ to = "recovered"
    BY GoalFacts DEF Phase, GoalFits
  <2>3. ReviewedPhase(board.gh.phase, odd) => ReviewedPhase(to, odd')
    BY <2>1, GoalFacts, MaxOddAssumption DEF ReviewedPhase, Open
  <2> HIDE DEF to
  <2> QED BY <2>1, <2>2, <2>3, GoalHandoffMoves DEF TaskState, OddMoves
<1> QED BY <1>1, <1>2, <1>3, <1>4, <1>5

LEMMA PlanHandoffStep ==
  ASSUME AdviceInv,
         \/ ReceivePlanReview \/ RejectPlan \/ ReceivePlanRejection
         \/ RequestPlanReview \/ CompletePlan
  PROVE  AdviceInv'
<1>1. CASE ReceivePlanReview
  <2>1. /\ board.ph.phase = "submitted"
        /\ board' = [board EXCEPT !.ph.phase = "reviewing"] /\ UNCHANGED <<status, past, odd>>
    BY <1>1 DEF ReceivePlanReview, Call
  <2> QED BY <2>1, GoalFacts, PlanHandoffMoves DEF TaskState, OddMoves
<1>2. CASE RejectPlan
  <2>1. /\ board.ph.phase = "reviewing" /\ board.ph.gen < MaxGen
        /\ board' = [board EXCEPT !.ph.phase = "rejected"] /\ UNCHANGED <<status, past, odd>>
    BY <1>2 DEF RejectPlan, MayRejectPlan, Again, Call
  <2> QED BY <2>1, GoalFacts, PlanHandoffMoves DEF TaskState, OddMoves
<1>3. CASE ReceivePlanRejection
  <2>1. /\ board.ph.phase = "rejected"
        /\ board' = [board EXCEPT !.ph.phase = "acknowledged"]
        /\ UNCHANGED <<status, past, odd>>
    BY <1>3 DEF ReceivePlanRejection, MayReceivePlanRejection, Call
  <2> QED BY <2>1, GoalFacts, PlanHandoffMoves DEF TaskState, OddMoves, GoalFits, MaySubmitAgain
<1>4. CASE RequestPlanReview
  <2>1. PICK h : h = Submitted(board.ph)
    OBVIOUS
  <2>2. /\ board.ph.phase \in {"none", "acknowledged"} /\ board.ph.gen < MaxGen
        /\ board' = [board EXCEPT !.ph = h] /\ UNCHANGED <<status, past, odd>>
    BY <1>4, <2>1 DEF RequestPlanReview, MayRequestPlanReview, Call, Again
  <2>3. h \in HandoffView /\ h.phase = "submitted"
    BY <2>1, <2>2, GoalFacts, SubmissionWritten
  <2>4. /\ board' \in Board /\ board'.ph = h /\ board'.gh = board.gh
        /\ board'.th = board.th /\ board'.tc = board.tc /\ board'.review = board.review
    BY <2>2, <2>3, GoalFacts, PhColumn
  <2>5. MaySubmitAgain(board'.gh) /\ MaySubmitAgain(board'.ph)
    BY <2>3, <2>4, GoalFacts DEF GoalFits, MaySubmitAgain
  <2>6. OddMoves
    BY <2>2 DEF OddMoves
  <2> QED BY <2>2, <2>3, <2>4, <2>5, <2>6, GoalFacts, GoalMoves, ReviewStays DEF GoalFits
<1>5. CASE CompletePlan
  <2>1. PICK h : h = [board.ph EXCEPT !.phase = "completed"]
    OBVIOUS
  <2>2. PICK b : b = [board EXCEPT !.ph = h]
    OBVIOUS
  <2>3. /\ board.ph.phase = "reviewing" /\ UNCHANGED <<status, past, odd>>
        /\ board' = [board EXCEPT !.ph.phase = "completed", !.tc = "requested"]
    BY <1>5 DEF CompletePlan, MayCompletePlan, Call
  <2>4. board' = [b EXCEPT !.tc = "requested"]
    BY <2>1, <2>2, <2>3
  <2>5. h \in HandoffView /\ h.phase = "completed"
    BY <2>1, GoalFacts, PhaseWritten DEF Phase
  <2>6. /\ b \in Board /\ b.ph = h /\ b.gh = board.gh /\ b.th = board.th
        /\ b.review = board.review
    BY <2>2, <2>5, GoalFacts, PhColumn
  <2>7. /\ board' \in Board /\ board'.ph = h /\ board'.gh = board.gh /\ board'.th = board.th
        /\ board'.review = board.review
    BY <2>4, <2>6, TcColumn
  <2>8. MaySubmitAgain(board'.gh) /\ MaySubmitAgain(board'.ph)
    BY <2>5, <2>7, GoalFacts DEF GoalFits, MaySubmitAgain
  <2>9. OddMoves
    BY <2>3 DEF OddMoves
  <2> QED BY <2>3, <2>5, <2>7, <2>8, <2>9, GoalFacts, GoalMoves, ReviewStays DEF GoalFits
<1> QED BY <1>1, <1>2, <1>3, <1>4, <1>5

\* The rest of the goal's handoffs: what closes the goal or files the tasks.
LEMMA ReworkStep ==
  ASSUME AdviceInv,
         RejectGoalHandoff \/ CompleteGoalReview \/ ReceiveTaskCreate \/ RequestHandoffReview
  PROVE  AdviceInv'
<1>0. /\ board \in Board /\ board.gh \in HandoffView /\ odd \in 0..MaxOdd
      /\ GoalFits /\ ReviewFits
  BY GoalFacts
<1>1. CASE RejectGoalHandoff
  <2> DEFINE to == IF board.tc = "received" THEN board.tc ELSE "requested"
  <2>1. PICK h : h = [board.gh EXCEPT !.phase = "rejected"]
    OBVIOUS
  <2>2. PICK b : b = [board EXCEPT !.gh = h]
    OBVIOUS
  <2>3. /\ board.gh.phase = "reviewing" /\ UNCHANGED <<status, past, odd>>
        /\ board.gh.gen < MaxGen /\ board.review.status # "open" /\ ~Approved(board)
        /\ board' = WithGoalHandoffRejected
    BY <1>1 DEF RejectGoalHandoff, MayRejectGoalHandoff, Call, Again
  <2>4. h \in HandoffView /\ h.phase = "rejected" /\ h.gen = board.gh.gen
    BY <1>0, <2>1, PhaseWritten DEF Phase
  <2>5. /\ b \in Board /\ b.gh = h /\ b.ph = board.ph /\ b.th = board.th
        /\ b.tc = board.tc /\ b.review = board.review
    BY ONLY <1>0, <2>2, <2>4, GhColumn
  <2>6. board' = [b EXCEPT !.tc = to]
    BY <2>1, <2>2, <2>3, <2>5 DEF WithGoalHandoffRejected
  <2>7. to \in {"none", "requested", "received", "completed"}
    OBVIOUS
  <2> HIDE DEF to
  <2>8. /\ board' \in Board /\ board'.gh = h /\ board'.ph = board.ph
        /\ board'.th = board.th /\ board'.review = board.review
    BY ONLY <2>5, <2>6, <2>7, TcColumn
  <2>9. ReviewFits'
    BY <1>0, <2>3, <2>8 DEF ReviewFits, Approved
  <2>10. MaySubmitAgain(board'.gh) /\ MaySubmitAgain(board'.ph)
    BY <1>0, <2>3, <2>4, <2>8 DEF GoalFits, MaySubmitAgain
  <2> QED BY <1>0, <2>3, <2>4, <2>8, <2>9, <2>10, GoalMoves DEF GoalFits, OddMoves
<1>2. CASE CompleteGoalReview
  <2>1. PICK h : h = [board.gh EXCEPT !.phase = "completed"]
    OBVIOUS
  <2>2. PICK b : b = [board EXCEPT !.gh = h]
    OBVIOUS
  <2>3. /\ board.gh.phase = "reviewing" /\ UNCHANGED <<status, past, odd>>
        /\ ~HasOpenDecision
        /\ board' = [board EXCEPT !.gh.phase = "completed", !.goal = "stopped"]
    BY <1>2 DEF CompleteGoalReview, MayCompleteGoalReview, Call
  <2>4. h \in HandoffView /\ h.phase = "completed"
    BY <1>0, <2>1, PhaseWritten DEF Phase
  <2>5. /\ b \in Board /\ b.gh = h /\ b.ph = board.ph /\ b.th = board.th
        /\ b.review = board.review
    BY ONLY <1>0, <2>2, <2>4, GhColumn
  <2>6. board' = [b EXCEPT !.goal = "stopped"]
    BY <2>1, <2>2, <2>3
  <2>7. /\ board' \in Board /\ board'.gh = h /\ board'.ph = board.ph
        /\ board'.th = board.th /\ board'.goal = "stopped" /\ board'.review = board.review
    BY ONLY <2>5, <2>6, GoalColumn
  <2>8. ReviewFits'
    BY <1>0, <2>3, <2>4, <2>7 DEF ReviewFits, Approved, HasOpenDecision, ReviewedPhase
  <2>9. MaySubmitAgain(board'.gh) /\ MaySubmitAgain(board'.ph)
    BY <1>0, <2>4, <2>7 DEF GoalFits, MaySubmitAgain
  <2> QED BY <1>0, <2>3, <2>4, <2>7, <2>8, <2>9, GoalMoves DEF GoalFits, Stopped, OddMoves
<1>3. CASE ReceiveTaskCreate
  <2>1. /\ board.tc = "requested" /\ UNCHANGED <<status, past, odd>>
        /\ board' = [board EXCEPT !.tc = "received"]
    BY <1>3 DEF ReceiveTaskCreate, Call
  <2>2. /\ board' \in Board /\ board'.gh = board.gh /\ board'.ph = board.ph
        /\ board'.th = board.th /\ board'.goal = board.goal /\ board'.review = board.review
    BY ONLY <1>0, <2>1, TcColumn
  <2>3. OddMoves
    BY <2>1 DEF OddMoves
  <2>4. ReviewFits'
    BY <2>2, <2>3, ReviewStays
  <2> QED BY <1>0, <2>1, <2>2, <2>3, <2>4, GoalMoves DEF GoalFits, Stopped, MaySubmitAgain
<1>4. CASE RequestHandoffReview
  <2> DEFINE to == IF board.tc = "requested" THEN "none" ELSE board.tc
  <2>1. PICK h : h = Submitted(board.gh)
    OBVIOUS
  <2>2. PICK b : b = [board EXCEPT !.gh = h]
    OBVIOUS
  <2>3. /\ board.ph.phase = "completed" /\ board.gh.gen < MaxGen
        /\ board.gh.phase \in {"received", "acknowledged"} /\ ~HasOpenDecision
        /\ board' = WithHandoffSubmitted /\ UNCHANGED <<status, past, odd>>
    BY <1>4 DEF RequestHandoffReview, MayRequestHandoffReview, PlanAccepted, Again, Call
  <2>4. h \in HandoffView /\ h.phase = "submitted"
    BY <1>0, <2>1, <2>3, SubmissionWritten
  <2>5. /\ b \in Board /\ b.gh = h /\ b.ph = board.ph /\ b.th = board.th
        /\ b.tc = board.tc /\ b.review = board.review
    BY ONLY <1>0, <2>2, <2>4, GhColumn
  <2>6. board' = [b EXCEPT !.tc = to]
    BY <2>1, <2>2, <2>3, <2>5 DEF WithHandoffSubmitted
  <2>7. to \in {"none", "requested", "received", "completed"}
    BY <1>0 DEF Board
  <2> HIDE DEF to
  <2>8. /\ board' \in Board /\ board'.gh = h /\ board'.ph = board.ph
        /\ board'.th = board.th /\ board'.review = board.review
    BY ONLY <2>5, <2>6, <2>7, TcColumn
  <2>9. ReviewFits'
    BY <1>0, <2>3, <2>4, <2>8, MaxOddAssumption
       DEF ReviewFits, Approved, HasOpenDecision, ReviewedPhase
  <2>10. MaySubmitAgain(board'.gh) /\ MaySubmitAgain(board'.ph)
    BY <1>0, <2>4, <2>8 DEF GoalFits, MaySubmitAgain
  <2> QED BY <1>0, <2>3, <2>4, <2>8, <2>9, <2>10, GoalMoves DEF GoalFits, OddMoves
<1> QED BY <1>1, <1>2, <1>3, <1>4

\* The rows of two boards are the same.
Same(b, c) == b.gh = c.gh /\ b.ph = c.ph /\ b.th = c.th /\ b.tc = c.tc

\* Questions, reviews and their answers, and the withdrawal.
LEMMA QuestionWritten ==
  ASSUME AdviceInv, NEW STATE q, q \in Question, board' = [board EXCEPT !.ask = q],
         UNCHANGED TaskState, OddMoves
  PROVE  AdviceInv'
<1>0. board \in Board
  BY GoalFacts
<1>1. /\ board' \in Board /\ board'.gh = board.gh /\ board'.ph = board.ph
      /\ board'.th = board.th /\ board'.tc = board.tc /\ board'.goal = board.goal
      /\ board'.review = board.review
  BY <1>0, AskColumn
<1> QED BY <1>1, TalkMoves, ReviewStays DEF Stopped

LEMMA ReviewWritten ==
  ASSUME AdviceInv, NEW STATE r, r \in Review, board' = [board EXCEPT !.review = r],
         UNCHANGED <<status, past, odd>>,
         ReviewedPhase(board.gh.phase, odd),
         r.status = "open" => r.gen = board.gh.gen,
         r.status = "answered" => r.label = "reject" /\ r.gen < MaxGen
  PROVE  AdviceInv'
<1>0. board \in Board /\ odd \in 0..MaxOdd
  BY GoalFacts
<1>1. /\ board' \in Board /\ board'.gh = board.gh /\ board'.ph = board.ph
      /\ board'.th = board.th /\ board'.tc = board.tc /\ board'.goal = board.goal
      /\ board'.review = r
  BY <1>0, ReviewColumn
<1>2. ReviewFits'
  BY <1>1 DEF ReviewFits
<1> QED BY <1>0, <1>1, <1>2, TalkMoves DEF Stopped, TaskState, OddMoves

LEMMA TalkStep ==
  ASSUME AdviceInv,
         \/ RequestGoalReview \/ AnswerReview \/ AnswerQuestion \/ PollAnswer
         \/ AnswerGrowsOld \/ (\E t \in Task : AskQuestion(t)) \/ Withdraw
  PROVE  AdviceInv'
<1>0. /\ board \in Board /\ board.gh \in HandoffView /\ odd \in 0..MaxOdd
      /\ board.ask \in Question /\ board.review \in Review /\ ReviewFits
  BY GoalFacts
<1>1. CASE RequestGoalReview
  <2>1. PICK r : r = [status |-> "open", label |-> "", gen |-> board.gh.gen]
    OBVIOUS
  <2>2. /\ r \in Review /\ board' = [board EXCEPT !.review = r]
        /\ board.gh.phase = "reviewing" /\ UNCHANGED <<status, past, odd>>
    BY <1>0, <1>1, <2>1 DEF RequestGoalReview, MayRequestGoalReview, Call, Review, HandoffView
  <2> QED BY <2>1, <2>2, ReviewWritten DEF ReviewedPhase
<1>2. CASE AnswerReview
  <2>1. /\ UNCHANGED <<status, past, odd>> /\ board.review.status = "open"
        /\ \/ board' = [board EXCEPT !.review.status = "applied", !.review.label = "approve"]
           \/ /\ board' = [board EXCEPT !.review.status = "answered", !.review.label = "reject"]
              /\ board.gh.gen < MaxGen
    <3>1. PICK b \in ReviewAnswers(board) :
            (b.review.label = "reject" => Again(board.gh)) /\ Call(b)
      BY <1>2 DEF AnswerReview
    <3>2. /\ UNCHANGED <<status, past, odd>> /\ board' = b /\ board.review.status = "open"
      BY <3>1 DEF Call, ReviewAnswers
    <3>3. CASE b = [board EXCEPT !.review.status = "applied", !.review.label = "approve"]
      BY <3>2, <3>3
    <3>4. CASE b = [board EXCEPT !.review.status = "answered", !.review.label = "reject"]
      <4>1. b.review.label = "reject"
        BY <1>0, <3>4 DEF Board
      <4> QED BY <3>1, <3>2, <3>4, <4>1 DEF Again
    <3> QED BY <3>1, <3>2, <3>3, <3>4 DEF ReviewAnswers
  <2>2. ASSUME NEW x \in {"applied", "answered"}, NEW y \in {"approve", "reject"},
               x = "answered" => y = "reject" /\ board.gh.gen < MaxGen,
               board' = [board EXCEPT !.review.status = x, !.review.label = y]
        PROVE  AdviceInv'
    <3>1. PICK q : q = [board.review EXCEPT !.status = x]
      OBVIOUS
    <3>2. PICK r : r = [q EXCEPT !.label = y]
      OBVIOUS
    <3>3. q \in Review /\ q.status = x /\ q.gen = board.review.gen
      BY <1>0, <3>1 DEF Review
    <3>4. r \in Review /\ r.status = x /\ r.label = y /\ r.gen = board.review.gen
      BY <3>2, <3>3 DEF Review
    <3>5. board' = [board EXCEPT !.review = r]
      BY <1>0, <2>2, <3>1, <3>2 DEF Board
    <3>6. board.gh.gen = board.review.gen /\ ReviewedPhase(board.gh.phase, odd)
      BY <1>0, <2>1 DEF ReviewFits
    <3> QED BY <2>1, <2>2, <3>4, <3>5, <3>6, ReviewWritten
  <2> QED BY <2>1, <2>2
<1>3. CASE AnswerQuestion
  <2>1. PICK d \in BOOLEAN :
          board' = [board EXCEPT !.ask.status = "answered", !.ask.byDefault = d]
    BY <1>3 DEF AnswerQuestion, Call
  <2>2. PICK p : p = [board.ask EXCEPT !.status = "answered"]
    OBVIOUS
  <2>3. PICK q : q = [p EXCEPT !.byDefault = d]
    OBVIOUS
  <2>4. p \in Question
    BY <1>0, <2>2 DEF Question
  <2>5. q \in Question
    BY <2>3, <2>4 DEF Question
  <2>6. board' = [board EXCEPT !.ask = q]
    BY <1>0, <2>1, <2>2, <2>3 DEF Board
  <2>7. UNCHANGED <<status, past, odd>>
    BY <1>3 DEF AnswerQuestion, Call
  <2> QED BY <1>0, <2>5, <2>6, <2>7, QuestionWritten DEF TaskState, OddMoves
<1>4. CASE PollAnswer
  <2>1. PICK q : q = [board.ask EXCEPT !.status = "applied"]
    OBVIOUS
  <2>2. q \in Question
    BY <1>0, <2>1 DEF Question
  <2>3. board' = [board EXCEPT !.ask = q] /\ UNCHANGED <<status, past, odd>>
    BY <1>4, <2>1 DEF PollAnswer, Call
  <2> QED BY <1>0, <2>2, <2>3, QuestionWritten DEF TaskState, OddMoves
<1>5. CASE AnswerGrowsOld
  <2>1. PICK q : q = [board.ask EXCEPT !.old = TRUE]
    OBVIOUS
  <2>2. q \in Question
    BY <1>0, <2>1 DEF Question
  <2>3. board' = [board EXCEPT !.ask = q] /\ UNCHANGED <<status, past, odd>>
    BY <1>5, <2>1 DEF AnswerGrowsOld
  <2> QED BY <1>0, <2>2, <2>3, QuestionWritten DEF TaskState, OddMoves
<1>6. ASSUME NEW t \in Task, AskQuestion(t) PROVE AdviceInv'
  <2>1. PICK p : p = [board.ask EXCEPT !.status = "open"]
    OBVIOUS
  <2>2. PICK q : q = [p EXCEPT !.task = t]
    OBVIOUS
  <2>3. p \in Question
    BY <1>0, <2>1 DEF Question
  <2>4. q \in Question
    BY <2>2, <2>3 DEF Question
  <2>5. /\ board' = [board EXCEPT !.ask.status = "open", !.ask.task = t]
        /\ UNCHANGED <<status, past>> /\ odd > 0 /\ odd' = odd - 1
    BY <1>6 DEF AskQuestion, Deviate
  <2>6. board' = [board EXCEPT !.ask = q]
    BY <1>0, <2>1, <2>2, <2>5 DEF Board
  <2> QED BY <2>4, <2>5, <2>6, QuestionWritten DEF TaskState, OddMoves
<1>7. CASE Withdraw
  <2> DEFINE closed(s) == IF s = "open" THEN "withdrawn" ELSE s
  <2>1. PICK q : q = [board.ask EXCEPT !.status = closed(@)]
    OBVIOUS
  <2>2. PICK r : r = [board.review EXCEPT !.status = closed(@)]
    OBVIOUS
  <2>3. /\ q \in Question /\ r \in Review
        /\ r.status = closed(board.review.status)
        /\ r.label = board.review.label /\ r.gen = board.review.gen
    BY <1>0, <2>1, <2>2 DEF Question, Review
  <2>4. PICK b : b = [board EXCEPT !.goal = "stopped"]
    OBVIOUS
  <2>5. PICK c : c = [b EXCEPT !.ask = q]
    OBVIOUS
  <2>6. /\ board' = WithdrawnGoal(board) /\ UNCHANGED <<status, past>>
        /\ odd > 0 /\ odd' = odd - 1
    BY <1>7 DEF Withdraw, Deviate
  <2>7. b \in Board /\ Same(b, board) /\ b.goal = "stopped"
    BY ONLY <1>0, <2>4, GoalColumn DEF Same
  <2>8. c \in Board /\ Same(c, board) /\ c.goal = "stopped"
    BY ONLY <2>3, <2>5, <2>7, AskColumn DEF Same
  <2>9. board' = [c EXCEPT !.review = r]
    BY <1>0, <2>1, <2>2, <2>4, <2>5, <2>6 DEF WithdrawnGoal, Board
  <2>10. /\ board' \in Board /\ Same(board', board) /\ board'.goal = "stopped"
         /\ board'.review = r
    BY ONLY <2>3, <2>8, <2>9, ReviewColumn DEF Same
  <2>11. OddMoves
    BY <2>6 DEF OddMoves
  <2>12. ReviewFits'
    BY <1>0, <2>3, <2>10, <2>11, ReviewedStays DEF ReviewFits, Approved, Same
  <2> QED BY <2>6, <2>10, <2>11, <2>12, TalkMoves DEF TaskState, Same, Stopped
<1> QED BY <1>1, <1>2, <1>3, <1>4, <1>5, <1>6, <1>7

\* New tasks have no row yet, and come when the plan was accepted.
LEMMA CreateTasksStep ==
  ASSUME AdviceInv, CreateTasks
  PROVE  AdviceInv'
<1>0. /\ board \in Board /\ odd \in 0..MaxOdd /\ GoalFits /\ ReviewFits
      /\ status \in [Task -> TaskStatuses] /\ past \subseteq Task
      /\ \A t \in Task : TaskFits(t)
  BY GoalFacts DEF AdviceInv, AdviceTypeOK
<1>1. /\ HoldsGoalHandoff /\ board.tc = "received"
      /\ board' = [board EXCEPT !.tc = "completed"] /\ UNCHANGED <<past, odd>>
  BY DEF CreateTasks
<1>2. PICK new \in SUBSET {t \in Task : status[t] = "absent"} :
        status' = [t \in Task |-> IF t \in new THEN "todo" ELSE status[t]]
  BY DEF CreateTasks
<1>3. /\ board' \in Board /\ board'.gh = board.gh /\ board'.ph = board.ph
      /\ board'.th = board.th /\ board'.goal = board.goal /\ board'.review = board.review
  BY ONLY <1>0, <1>1, TcColumn
<1>4. status' \in [Task -> TaskStatuses]
  BY <1>0, <1>2 DEF TaskStatuses
<1>5. \A t \in Task : status'[t] = IF t \in new THEN "todo" ELSE status[t]
  BY <1>2
<1>6. \A t \in new : status[t] = "absent"
  OBVIOUS
<1>7. ASSUME NEW t \in Task PROVE TaskFits(t)'
  BY <1>0, <1>1, <1>3, <1>5, <1>6 DEF TaskFits, MaySubmitAgain
<1>8. GoalFits'
  BY <1>0, <1>1, <1>3 DEF GoalFits, Stopped, HoldsGoalHandoff, Open, MaySubmitAgain
<1>9. ReviewFits'
  BY <1>0, <1>1, <1>3 DEF ReviewFits, Approved
<1> QED BY <1>0, <1>1, <1>3, <1>4, <1>7, <1>8, <1>9 DEF AdviceInv, AdviceTypeOK

LEMMA AdviceStep ==
  ASSUME AdviceInv, [AdviceNext]_adviceVars
  PROVE  AdviceInv'
<1>1. CASE CommanderCalls
  BY <1>1, GoalHandoffStep, PlanHandoffStep, ReworkStep, TalkStep DEF CommanderCalls
<1>2. CASE SubcommanderCalls
  BY <1>2, GoalHandoffStep, PlanHandoffStep, ReworkStep, CreateTasksStep, TaskStep
     DEF SubcommanderCalls
<1>3. CASE ExecutorCalls \/ Reassign
  BY <1>3, TaskStep DEF ExecutorCalls, Reassign
<1>4. CASE HumanCalls \/ PollAnswer \/ AnswerGrowsOld
  BY <1>4, TalkStep DEF HumanCalls
<1>5. CASE Deviations
  BY <1>5, GoalHandoffStep, TalkStep, TaskStep DEF Deviations
<1>6. CASE UNCHANGED adviceVars
  <2>1. UNCHANGED <<board, status, past, odd>>
    BY <1>6 DEF adviceVars
  <2>2. AdviceTypeOK' /\ GoalFits' /\ \A t \in Task : TaskFits(t)'
    BY <2>1 DEF AdviceInv, AdviceTypeOK, TaskFits, GoalFits, Created, Stopped, MaySubmitAgain
  <2>3. ReviewFits'
    BY <2>1, GoalFacts DEF ReviewFits, Approved
  <2> QED BY <2>2, <2>3 DEF AdviceInv
<1> QED BY <1>1, <1>2, <1>3, <1>4, <1>5, <1>6 DEF AdviceNext
-----------------------------------------------------------------------------
(* Somebody is named.                                                      *)

LEMMA Actors ==
  /\ NextActionSpecs["human_review"].actor = "human"
  /\ NextActionSpecs["human_decision"].actor = "human"
  /\ NextActionSpecs["commander_complete"].actor = "commander"
  /\ NextActionSpecs["commander_reject_handoff"].actor = "commander"
  /\ NextActionSpecs["commander_request_handoff"].actor = "commander"
  /\ NextActionSpecs["subcommander_receive_handoff"].actor = "subcommander"
  /\ NextActionSpecs["subcommander_receive_rejection"].actor = "subcommander"
  /\ NextActionSpecs["commander_receive_goal_review"].actor = "commander"
  /\ NextActionSpecs["commander_review_goal"].actor = "commander"
  /\ NextActionSpecs["subcommander_plan"].actor = "subcommander"
  /\ NextActionSpecs["subcommander_receive_plan_rejection"].actor = "subcommander"
  /\ NextActionSpecs["commander_receive_plan_review"].actor = "commander"
  /\ NextActionSpecs["commander_review_plan"].actor = "commander"
  /\ NextActionSpecs["subcommander_review_task"].actor = "subcommander"
  /\ NextActionSpecs["subcommander_delegate_task"].actor = "subcommander"
  /\ NextActionSpecs["executor_receive_task"].actor = "executor"
  /\ NextActionSpecs["executor_implement"].actor = "executor"
  /\ NextActionSpecs["subcommander_request_goal_review"].actor = "subcommander"
  /\ NextActionSpecs["executor_work"].actor = "subcommander"
BY DEF NextActionSpecs

\* Of a plan somebody always has the turn, and of tasks too: a task to do that
\* was handed over waits for its executor.
LEMMA PlanTurn ==
  ASSUME AdviceInv
  PROVE  \/ /\ derivePlanNextAction \in {"executor_work", "subcommander_plan"}
            /\ board.ph.phase \in {"completed", "none", "acknowledged"}
         \/ /\ derivePlanNextAction = "subcommander_receive_plan_rejection"
            /\ board.ph.phase = "rejected"
         \/ /\ derivePlanNextAction = "commander_receive_plan_review"
            /\ board.ph.phase = "submitted"
         \/ derivePlanNextAction = "commander_review_plan" /\ board.ph.phase = "reviewing"
BY GoalFacts DEF derivePlanNextAction, GoalFits, Phase

LEMMA TaskTurn ==
  ASSUME AdviceInv
  PROVE  \/ /\ deriveTaskNextAction = "subcommander_review_task"
            /\ \E t \in ActiveTasks : status[t] = "review"
         \/ /\ deriveTaskNextAction = "subcommander_delegate_task"
            /\ \E t \in ActiveTasks : status[t] = "todo" /\ ~Open(board.th[t])
         \/ /\ deriveTaskNextAction \in {"executor_receive_task", "executor_implement"}
            /\ \E t \in ActiveTasks : board.th[t].phase = "requested" \/ status[t] = "doing"
         \/ /\ deriveTaskNextAction = "subcommander_request_goal_review"
            /\ \A t \in ActiveTasks : status[t] = "done"
<1>1. ASSUME NEW t \in ActiveTasks, status[t] \notin {"review", "doing", "done"}
      PROVE  status[t] = "todo" /\ (Open(board.th[t]) => board.th[t].phase = "requested")
  <2>1. t \in Task /\ status[t] = "todo"
    BY <1>1 DEF AdviceInv, AdviceTypeOK, ActiveTasks, Created, TaskStatuses
  <2> QED BY <2>1 DEF AdviceInv, TaskFits, Open
<1> QED BY <1>1 DEF deriveTaskNextAction

\* Whose turn it is on a goal that goes on, and what that says of its rows.
LEMMA Turn ==
  ASSUME AdviceInv, Active
  PROVE  \/ NextAction.actor \in {"human", "executor"}
         \/ /\ NextAction.actor = "commander" /\ ~HasOpenDecision
            /\ \/ Approved(board) \/ RejectedPendingHandoffReject
               \/ ~Open(board.gh)
               \/ board.gh.phase \in {"submitted", "reviewing"}
               \/ board.ph.phase \in {"submitted", "reviewing"}
         \/ /\ NextAction.actor = "subcommander"
            /\ board.gh.phase \notin {"submitted", "reviewing"}
            /\ \/ board.gh.phase \in {"requested", "rejected"}
               \/ ActiveTasks = {} /\ board.ph.phase \in {"completed", "none", "acknowledged"}
               \/ board.ph.phase = "rejected"
               \/ \E t \in ActiveTasks : status[t] = "review"
               \/ \E t \in ActiveTasks : status[t] = "todo" /\ ~Open(board.th[t])
               \/ ActiveTasks # {} /\ \A t \in ActiveTasks : status[t] = "done"
<1>1. ASSUME NEW code, deriveNextAction = code, code # ""
      PROVE  NextAction.actor = NextActionSpecs[code].actor
  BY <1>1 DEF NextAction
<1>2. ~Stopped(board)
  BY DEF Active
<1>3. CASE board.review.status = "open"
  BY <1>1, <1>2, <1>3, Actors DEF deriveNextAction
<1>4. CASE board.review.status # "open" /\ board.ask.status = "open"
  BY <1>1, <1>2, <1>4, Actors DEF deriveNextAction
<1>5. CASE ~HasOpenDecision /\ Approved(board)
  BY <1>1, <1>2, <1>5, Actors DEF deriveNextAction, HasOpenDecision
<1>6. CASE ~HasOpenDecision /\ ~Approved(board) /\ RejectedPendingHandoffReject
  BY <1>1, <1>2, <1>6, Actors DEF deriveNextAction, HasOpenDecision
<1> DEFINE Handoff == ~HasOpenDecision /\ ~Approved(board) /\ ~RejectedPendingHandoffReject
<1>7. CASE Handoff /\ ~Open(board.gh)
  BY <1>1, <1>2, <1>7, Actors DEF deriveNextAction, HasOpenDecision
<1>8. CASE Handoff /\ Open(board.gh) /\ board.gh.phase \in {"requested", "rejected"}
  BY <1>1, <1>2, <1>8, Actors DEF deriveNextAction, HasOpenDecision
<1>9. CASE Handoff /\ Open(board.gh) /\ board.gh.phase \in {"submitted", "reviewing"}
  BY <1>1, <1>2, <1>9, Actors DEF deriveNextAction, HasOpenDecision
<1> DEFINE Work == /\ Handoff /\ Open(board.gh)
                   /\ board.gh.phase \notin {"requested", "rejected", "submitted", "reviewing"}
<1>10. CASE Work /\ ActiveTasks = {}
  <2>1. deriveNextAction = derivePlanNextAction
    BY <1>2, <1>10 DEF deriveNextAction, HasOpenDecision
  <2> QED BY <1>1, <1>10, <2>1, PlanTurn, Actors
<1>11. CASE Work /\ ActiveTasks # {}
  <2>1. deriveNextAction = deriveTaskNextAction
    BY <1>2, <1>11 DEF deriveNextAction, HasOpenDecision
  <2> QED BY <1>1, <1>11, <2>1, TaskTurn, Actors
<1> QED BY <1>3, <1>4, <1>5, <1>6, <1>7, <1>8, <1>9, <1>10, <1>11 DEF HasOpenDecision

\* A goal that goes on names somebody: whatever the calls, recoveries, drops
\* and questions left in the rows, the derivation of goal_next_action.go has a
\* branch that ends with an actor.
THEOREM SomebodyHasTheTurn == AdviceSpec => []SomebodyIsNamed
<1>1. AdviceInv => SomebodyIsNamed
  BY Turn DEF SomebodyIsNamed
<1> QED BY <1>1, InitFits, AdviceStep, PTL DEF AdviceSpec

-----------------------------------------------------------------------------
(* Who is named can act.                                                   *)

\* A goal whose holder received it and whose plan or tasks are asked about.
LEMMA WorkMay ==
  ASSUME AdviceInv, Active, ~HasOpenDecision, Open(board.gh),
         board.gh.phase \notin {"requested", "rejected", "submitted", "reviewing"}
  PROVE  /\ HoldsGoalHandoff
         /\ board.ph.phase = "completed" => SubcommanderMay
         /\ \A t \in Task : board.th[t].phase \in {"none", "recovered"}
                           /\ status[t] \in {"todo", "doing", "review"}
                             => SubcommanderMay \/ MayReassign
<1>1. GoalFits /\ board.gh.phase \in Phase
  BY GoalFacts
<1>2. board.gh.phase \in {"received", "acknowledged"} /\ board.gh.gen < MaxGen
  BY <1>1 DEF Phase, Open, GoalFits, MaySubmitAgain
<1>3. HoldsGoalHandoff
  BY <1>2 DEF HoldsGoalHandoff
<1>4. board.ph.phase = "completed" => SubcommanderMay
  BY <1>2 DEF SubcommanderMay, MayRequestHandoffReview, PlanAccepted, Again
<1>5. ASSUME NEW t \in Task, board.th[t].phase \in {"none", "recovered"},
             status[t] \in {"todo", "doing", "review"}
      PROVE  SubcommanderMay \/ MayReassign
  <2>1. MayRequestTaskHandoff(t)
    BY <1>3, <1>5 DEF MayRequestTaskHandoff, Open
  <2> QED BY <1>5, <2>1 DEF SubcommanderMay, MayReassign
<1> QED BY <1>3, <1>4, <1>5

LEMMA PlanMay ==
  ASSUME AdviceInv, Active, ~HasOpenDecision, Open(board.gh), ActiveTasks = {},
         board.gh.phase \notin {"requested", "rejected", "submitted", "reviewing"}
  PROVE  MayAct(NextActionSpecs[derivePlanNextAction].actor)
<1>1. GoalFits /\ HoldsGoalHandoff /\ (board.ph.phase = "completed" => SubcommanderMay)
  BY GoalFacts, WorkMay
<1>2. CASE board.ph.phase = "completed"
  BY <1>1, <1>2, Actors DEF derivePlanNextAction, MayAct
<1>3. CASE board.ph.phase \in {"none", "acknowledged"}
  <2>1. MayRequestPlanReview
    BY <1>1, <1>3 DEF MayRequestPlanReview, GoalFits, MaySubmitAgain, Again
  <2> QED BY <1>3, <2>1, Actors DEF derivePlanNextAction, MayAct, SubcommanderMay
<1>4. CASE board.ph.phase = "rejected"
  BY <1>1, <1>4, Actors
     DEF derivePlanNextAction, MayAct, SubcommanderMay, MayReceivePlanRejection
<1>5. CASE board.ph.phase = "submitted"
  BY <1>5, Actors DEF derivePlanNextAction, MayAct, CommanderMay
<1>6. CASE board.ph.phase = "reviewing"
  <2>1. MayCompletePlan
    BY <1>1, <1>6 DEF MayCompletePlan, GoalFits
  <2> QED BY <1>6, <2>1, Actors DEF derivePlanNextAction, MayAct, CommanderMay
<1> QED BY <1>2, <1>3, <1>4, <1>5, <1>6, PlanTurn

LEMMA TaskMay ==
  ASSUME AdviceInv, Active, ~HasOpenDecision, Open(board.gh), ActiveTasks # {},
         board.gh.phase \notin {"requested", "rejected", "submitted", "reviewing"}
  PROVE  MayAct(NextActionSpecs[deriveTaskNextAction].actor) \/ MayReassign
<1>0. /\ HoldsGoalHandoff /\ GoalFits
      /\ \A t \in Task : TaskFits(t) /\ board.th[t].phase \in Phase
      /\ board.ph.phase = "completed" => SubcommanderMay
      /\ \A t \in Task : board.th[t].phase \in {"none", "recovered"}
                        /\ status[t] \in {"todo", "doing", "review"}
                          => SubcommanderMay \/ MayReassign
  BY WorkMay, GoalFacts DEF AdviceInv, AdviceTypeOK, Board, HandoffView
<1>1. ActiveTasks \subseteq Task
  BY DEF ActiveTasks, Created
<1>2. CASE /\ deriveTaskNextAction = "subcommander_review_task"
           /\ \E t \in ActiveTasks : status[t] = "review"
  <2>1. PICK t \in Task : status[t] = "review"
    BY <1>1, <1>2
  <2>2. board.th[t].phase \in {"submitted", "reviewing", "recovered"}
    BY <1>0, <2>1 DEF TaskFits
  <2>3. MayReceiveTaskReview(t) \/ MayCompleteTask(t) \/ SubcommanderMay \/ MayReassign
    BY <1>0, <2>1, <2>2 DEF MayReceiveTaskReview, MayCompleteTask, HasOpenDecision
  <2> QED BY <1>2, <2>3, Actors DEF SubcommanderMay, MayAct
<1>3. CASE /\ deriveTaskNextAction = "subcommander_delegate_task"
           /\ \E t \in ActiveTasks : status[t] = "todo" /\ ~Open(board.th[t])
  <2>1. PICK t \in Task : status[t] = "todo" /\ ~Open(board.th[t])
    BY <1>1, <1>3
  <2>2. SubcommanderMay \/ MayReassign
    BY <1>0, <2>1 DEF TaskFits, Open
  <2> QED BY <1>3, <2>2, Actors DEF MayAct
<1>4. CASE /\ deriveTaskNextAction \in {"executor_receive_task", "executor_implement"}
           /\ \E t \in ActiveTasks : board.th[t].phase = "requested" \/ status[t] = "doing"
  <2>1. PICK t \in Task : board.th[t].phase = "requested" \/ status[t] = "doing"
    BY <1>1, <1>4
  <2>2. CASE board.th[t].phase = "recovered"
    BY <1>0, <2>1, <2>2 DEF MayReassign, MayRequestTaskHandoff, Open
  <2>3. CASE board.th[t].phase # "recovered"
    <3>1. board.th[t].phase \in {"requested", "rejected"} \/ MayRequestTaskReview(t)
      BY <1>0, <2>1, <2>3 DEF TaskFits, MaySubmitAgain, MayRequestTaskReview, Again
    <3> QED BY <1>4, <3>1, Actors DEF ExecutorMay, MayAct
  <2> QED BY <2>2, <2>3
<1>5. CASE deriveTaskNextAction = "subcommander_request_goal_review"
  <2>1. board.ph.phase = "completed"
    BY <1>0 DEF GoalFits, ActiveTasks
  <2> QED BY <1>0, <1>5, <2>1, Actors DEF MayAct
<1> QED BY <1>2, <1>3, <1>4, <1>5, TaskTurn

\* The branches of the derivation, in its order.
LEMMA NamedMay ==
  ASSUME AdviceInv, Active
  PROVE  \/ MayAct(NextAction.actor) \/ MayReassign
         \/ ApprovalOutlivesHolder /\ odd + 2 <= MaxOdd
<1>0. ~Stopped(board) /\ GoalFits /\ ReviewFits /\ board.gh.phase \in Phase
  BY GoalFacts DEF Active
<1>gen. board.gh.gen \in Nat /\ board.review.gen \in Nat
  <2>1. board.gh \in HandoffView /\ board.review \in Review
    BY GoalFacts
  <2>2. board.gh.gen \in 0..MaxGen /\ board.review.gen \in 0..MaxGen
    BY <2>1 DEF HandoffView, Review
  <2> QED BY <2>2, MaxGenAssumption
<1>1. ASSUME NEW code, deriveNextAction = code, code # ""
      PROVE  NextAction.actor = NextActionSpecs[code].actor
  BY <1>1 DEF NextAction
<1>2. CASE HasOpenDecision
  <2>1. NextAction.actor = "human"
    BY <1>0, <1>1, <1>2, Actors DEF deriveNextAction, HasOpenDecision
  <2> QED BY <1>2, <2>1 DEF MayAct, HumanMay
<1>3. CASE ~HasOpenDecision /\ Approved(board)
  <2>1. NextAction.actor = "commander"
    BY <1>0, <1>1, <1>3, Actors DEF deriveNextAction, HasOpenDecision
  <2>2. ReviewedPhase(board.gh.phase, odd) /\ board.gh.phase # "completed"
    BY <1>0, <1>3 DEF ReviewFits, GoalFits
  <2>3. CASE board.gh.phase \in {"requested", "received"}
    BY <1>3, <2>2, <2>3 DEF ApprovalOutlivesHolder, ReviewedPhase
  <2>4. CASE board.gh.phase \in {"reviewing", "submitted", "recovered"}
    BY <1>3, <2>1, <2>4 DEF MayAct, CommanderMay, MayCompleteGoalReview, Open
  <2> QED BY <2>2, <2>3, <2>4 DEF ReviewedPhase
<1>4. CASE ~HasOpenDecision /\ ~Approved(board) /\ RejectedPendingHandoffReject
  <2>1. NextAction.actor = "commander"
    BY <1>0, <1>1, <1>4, Actors DEF deriveNextAction, HasOpenDecision
  <2>2. MayRejectGoalHandoff
    <3>1. /\ board.gh.phase = "reviewing" /\ board.review.status = "answered"
          /\ board.gh.gen <= board.review.gen /\ board.review.gen < MaxGen
      BY <1>0, <1>4 DEF RejectedPendingHandoffReject, ReviewFits
    <3>3. board.gh.gen < MaxGen
      BY <1>gen, <3>1, MaxGenAssumption
    <3> QED BY <1>4, <3>1, <3>3 DEF MayRejectGoalHandoff, Again
  <2> QED BY <2>1, <2>2 DEF MayAct, CommanderMay
<1> DEFINE Handoff == ~HasOpenDecision /\ ~Approved(board) /\ ~RejectedPendingHandoffReject
<1>5. CASE Handoff /\ ~Open(board.gh)
  <2>1. NextAction.actor = "commander"
    BY <1>0, <1>1, <1>5, Actors DEF deriveNextAction, HasOpenDecision
  <2> QED BY <1>5, <2>1 DEF MayAct, CommanderMay
<1>6. CASE Handoff /\ board.gh.phase \in {"requested", "rejected"}
  <2>1. NextAction.actor = "subcommander"
    BY <1>0, <1>1, <1>6, Actors DEF deriveNextAction, HasOpenDecision, Open
  <2> QED BY <1>6, <2>1 DEF MayAct, SubcommanderMay
<1>7. CASE Handoff /\ board.gh.phase \in {"submitted", "reviewing"}
  <2>1. NextAction.actor = "commander"
    BY <1>0, <1>1, <1>7, Actors DEF deriveNextAction, HasOpenDecision, Open
  <2>2. CASE board.gh.phase = "submitted"
    BY <2>1, <2>2 DEF MayAct, CommanderMay
  <2>3. CASE board.gh.phase = "reviewing"
    <3>1. board.review.status = "answered" => ~(board.gh.gen <= board.review.gen)
      BY <1>0, <1>7, <2>3 DEF RejectedPendingHandoffReject, ReviewFits
    <3>3. MayRequestGoalReview
      BY <1>7, <1>gen, <2>3, <3>1 DEF MayRequestGoalReview
    <3> QED BY <2>1, <3>3 DEF MayAct, CommanderMay
  <2> QED BY <1>7, <2>2, <2>3
<1> DEFINE Work == /\ Handoff /\ Open(board.gh)
                   /\ board.gh.phase \notin {"requested", "rejected", "submitted", "reviewing"}
<1>8. CASE Work /\ ActiveTasks = {}
  <2>1. deriveNextAction = derivePlanNextAction
    BY <1>0, <1>8 DEF deriveNextAction, HasOpenDecision
  <2>2. derivePlanNextAction # ""
    BY PlanTurn
  <2> QED BY <1>1, <1>8, <2>1, <2>2, PlanMay
<1>9. CASE Work /\ ActiveTasks # {}
  <2>1. deriveNextAction = deriveTaskNextAction
    BY <1>0, <1>9 DEF deriveNextAction, HasOpenDecision
  <2>2. deriveTaskNextAction # ""
    BY TaskTurn
  <2> QED BY <1>1, <1>9, <2>1, <2>2, TaskMay
<1> QED BY <1>2, <1>3, <1>4, <1>5, <1>6, <1>7, <1>8, <1>9

LEMMA NamedCanActNow ==
  ASSUME AdviceInv
  PROVE  AdvisedActorCanAct \/ (ApprovalOutlivesHolder /\ odd + 2 <= MaxOdd)
<1>1. CASE Active
  BY <1>1, NamedMay DEF AdvisedActorCanAct
<1>2. CASE ~Active
  BY <1>2 DEF Active, AdvisedActorCanAct, NextAction, deriveNextAction, NobodyActs
<1> QED BY <1>1, <1>2

\* Whoever deriveNextAction names has a call whose guard holds, whatever the
\* calls, recoveries, drops and answers left in the rows, with one exception: an
\* approval whose handoff lost its reviewer and then its holder still names the
\* commander for goal.review.complete, and it is the new holder's turn.
THEOREM NamedCanAct ==
  AdviceSpec =>
    [](AdvisedActorCanAct \/ (ApprovalOutlivesHolder /\ odd + 2 <= MaxOdd))
<1>1. AdviceInv =>
        AdvisedActorCanAct \/ (ApprovalOutlivesHolder /\ odd + 2 <= MaxOdd)
  BY NamedCanActNow
<1> QED BY <1>1, InitFits, AdviceStep, PTL DEF AdviceSpec

\* With one deviation from the ordinary flow of goal_next_action.go there is no
\* exception.
THEOREM NamedCanActAfterOne ==
  ASSUME MaxOdd <= 1
  PROVE  AdviceSpec => []AdvisedActorCanAct
<1>1. ASSUME AdviceInv PROVE AdvisedActorCanAct
  <2>1. odd \in 0..MaxOdd
    BY <1>1 DEF AdviceInv, AdviceTypeOK
  <2>2. ~(odd + 2 <= MaxOdd)
    BY <2>1, MaxOddAssumption
  <2> QED BY <1>1, <2>2, NamedCanActNow
<1> QED BY <1>1, InitFits, AdviceStep, PTL DEF AdviceSpec

-----------------------------------------------------------------------------
(* A session that was let go is woken.                                     *)

\* The commander is let go with its own turn only while it reviews the goal,
\* of which the prompt reminds it.
LEMMA CommanderHears ==
  ASSUME AdviceInv, Active, NextAction.actor = "commander",
         stopCheckCommander = "", board.ph.phase # "reviewing", ~Recovering
  PROVE  Hears(Commander)
<1>0. GoalFits /\ ~Stopped(board) /\ ~HasOpenDecision /\ ~Approved(board)
  BY Turn, GoalFacts DEF stopCheckCommander, Active
<1>1. ~RejectedPendingHandoffReject /\ board.gh.phase # "submitted" /\ board.ph.phase # "submitted"
  BY <1>0 DEF stopCheckCommander, RejectedPendingHandoffReject, UnreceivedReview, Approved
<1>2. Open(board.gh)
  <2>1. SUFFICES ASSUME ~Open(board.gh) PROVE FALSE
    OBVIOUS
  <2>2. board.gh.phase = "none"
    BY <1>0, <2>1 DEF Recovering, GoalFits, Open
  <2>3. \A t \in Task : status[t] = "absent"
    BY <1>0, <2>2 DEF GoalFits, Created
  <2>4. \A t \in Task : ~Open(board.th[t])
    BY <2>3 DEF AdviceInv, TaskFits, Open
  <2> QED BY <1>0, <2>1, <2>4 DEF stopCheckCommander
<1>3. board.gh.phase = "reviewing"
  BY <1>0, <1>1, <1>2, Turn
<1>4. CommanderTarget(board) # "none"
  BY <1>0, <1>1, <1>3 DEF CommanderTarget, HasOpenDecision
<1>5. CommanderTargets(board) # {}
  BY <1>4 DEF CommanderTargets
<1> QED BY <1>5 DEF Hears, Actionable, Commander

\* The rejection of a goal or of a plan is told to the holder.
LEMMA RejectionIsTold ==
  ASSUME Active, board.gh.phase = "rejected" \/ board.ph.phase = "rejected"
  PROVE  Hears(Holder)
<1>1. PICK kind, h : /\ <<kind, NoTask, h>> \in Rows(board)
                     /\ kind \in {"goal", "plan"} /\ h.phase = "rejected"
  BY DEF Rows
<1>2. Shown(h) = "review.reject"
  BY <1>1 DEF Shown
<1>3. ProjectionRole(kind, "review.reject") = "subcommander"
  BY <1>1 DEF ProjectionRole, ReviewSteps
<1>4. PICK i : i = Item(kind, "review.reject", NoTask, h.gen)
  OBVIOUS
<1>5. i \in HandoffItems(Holder, board)
  <2>1. PICK r \in Rows(board) : r = <<kind, NoTask, h>>
    BY <1>1
  <2>2. r[1] = kind /\ r[2] = NoTask /\ r[3] = h
    BY <2>1
  <2>3. InScope(Holder, r[2]) /\ Holder.role = "subcommander"
    BY DEF InScope, Holder
  <2>4. /\ Shown(r[3]) # "" /\ ProjectionRole(r[1], Shown(r[3])) = Holder.role
        /\ i = Item(r[1], Shown(r[3]), r[2], r[3].gen)
    BY <1>2, <1>3, <1>4, <2>2, <2>3
  <2> QED BY <2>3, <2>4 DEF HandoffItems
<1>6. i \in Projected(Holder, board)
  BY <1>5 DEF Projected, Active
<1>7. ReachesAgent(i)
  BY <1>1, <1>4 DEF ReachesAgent, IsAgentAction, ControlOnly, Item
<1> QED BY <1>6, <1>7 DEF Hears

\* Work that waits for nobody: what is left to wait for is a row that outlived
\* its dropped task, of which the prompt reminds the holder.
LEMMA LeftRowHears ==
  ASSUME AdviceInv, Active,
         ActiveTasks = {} \/ \A t \in ActiveTasks : status[t] = "done",
         \E t \in Task : Open(board.th[t]) /\ ~ReviewOutstanding(board.th[t])
  PROVE  Hears(Holder)
<1>1. PICK t \in Task : Open(board.th[t]) /\ ~ReviewOutstanding(board.th[t])
  OBVIOUS
<1>2. board.th[t].phase \in Phase /\ TaskFits(t)
  BY DEF AdviceInv, AdviceTypeOK, Board, HandoffView
<1>3. t \in ActiveTasks => status[t] = "done"
  OBVIOUS
<1>4. status[t] \in {"absent", "dropped", "done"}
  BY <1>3 DEF ActiveTasks, Created
<1>5. board.th[t].phase \in {"requested", "rejected", "acknowledged"}
  BY <1>1, <1>2, <1>4 DEF TaskFits, Open, ReviewOutstanding, Phase
<1>6. SubcommanderActionable(board)
  BY <1>5 DEF SubcommanderActionable, IsRejected
<1> QED BY <1>6 DEF Hears, Actionable, Holder, Active

LEMMA HolderHears ==
  ASSUME AdviceInv, Active, NextAction.actor = "subcommander", HoldsGoalHandoff,
         subcommanderStopDetail(TRUE) = "", ~Recovering
  PROVE  Hears(Holder) \/ ActionableWakeup
<1>0. GoalFits /\ \A t \in Task : TaskFits(t) /\ board.th[t].phase # "recovered"
  BY DEF AdviceInv, Recovering
<1>1. /\ board.ph.phase # "acknowledged" /\ subcommanderWaiting(TRUE)
      /\ \A t \in Task : ~ReviewOutstanding(board.th[t])
  BY DEF subcommanderStopDetail
<1>2. CASE board.gh.phase \in {"requested", "rejected"} \/ board.ph.phase = "rejected"
  BY <1>2, RejectionIsTold DEF HoldsGoalHandoff
<1>3. CASE \E t \in ActiveTasks : status[t] = "review"
  BY <1>0, <1>1, <1>3 DEF TaskFits, ReviewOutstanding, ActiveTasks, Created
<1>4. CASE \E t \in ActiveTasks : status[t] = "todo" /\ ~Open(board.th[t])
  <2>1. PICK t \in ActiveTasks : status[t] = "todo" /\ ~Open(board.th[t])
    BY <1>4
  <2>2. t \in Created /\ t \in Task
    BY DEF ActiveTasks, Created
  <2>3. board.th[t].phase = "none"
    BY <1>0, <2>1, <2>2 DEF TaskFits, Open
  <2>4. ~Claimed(t)
    BY <1>0, <2>2, <2>3 DEF TaskFits, Claimed
  <2> QED BY <2>1, <2>2, <2>4 DEF Unstarted, ActionableWakeup
<1>5. CASE \/ ActiveTasks = {} /\ board.ph.phase \in {"completed", "none", "acknowledged"}
           \/ ActiveTasks # {} /\ \A t \in ActiveTasks : status[t] = "done"
  <2>1. board.gh.phase \notin {"submitted", "reviewing"}
    BY Turn
  <2>2. board.ph.phase \notin {"submitted", "reviewing"}
    BY <1>0, <1>5 DEF GoalFits, ActiveTasks
  <2>3. \E t \in Task : Open(board.th[t]) /\ ~ReviewOutstanding(board.th[t])
    BY <1>1, <2>1, <2>2 DEF subcommanderWaiting, ReviewOutstanding
  <2> QED BY <1>5, <2>3, LeftRowHears
<1> QED BY <1>2, <1>3, <1>4, <1>5, Turn

\* A task that is being done keeps its executor.
LEMMA ExecutorStays ==
  ASSUME AdviceInv, NEW t \in Task, status[t] = "doing", Open(board.th[t]),
         board.th[t].phase # "requested"
  PROVE  stopCheckExecutor(t, TRUE) # ""
BY DEF AdviceInv, TaskFits, stopCheckExecutor, ReviewOutstanding

\* A session the stop check of stop_check.go lets go, with its watch live and
\* the next action on it, is woken by what the watch or the maintenance tick
\* sends, whatever order the calls, recoveries, drops and answers came in.
THEOREM StoppedIsWoken == AdviceSpec => []StopIsSafe
<1>1. ASSUME AdviceInv PROVE StopIsSafe
  <2>1. SUFFICES ASSUME NEW scope \in Sessions, MayStop(scope, "live"),
                        NamedNext(scope), ~ReviewsPlan(scope), ~Recovering
                 PROVE  Hears(scope) \/ ActionableWakeup
    BY DEF StopIsSafe
  <2>2. NextAction.actor = scope.role /\ stopCheckWork(scope, TRUE) = ""
    BY <2>1 DEF NamedNext, MayStop
  <2>3. Active \/ NextAction.actor = ""
    BY DEF Active, NextAction, deriveNextAction, NobodyActs
  <2>4. CASE scope = Commander
    <3>1. scope.role = "commander" /\ board.ph.phase # "reviewing"
      BY <2>1, <2>4 DEF Commander, ReviewsPlan
    <3>2. stopCheckCommander = ""
      BY <2>2, <3>1 DEF stopCheckWork
    <3> QED BY <1>1, <2>1, <2>2, <2>3, <2>4, <3>1, <3>2, CommanderHears
  <2>5. CASE HoldsGoalHandoff /\ scope = Holder
    <3>1. scope.role = "subcommander"
      BY <2>5 DEF Holder
    <3>2. subcommanderStopDetail(TRUE) = ""
      BY <2>2, <3>1 DEF stopCheckWork
    <3> QED BY <1>1, <2>1, <2>2, <2>3, <2>5, <3>1, <3>2, HolderHears
  <2>6. ASSUME NEW t \in Task, scope = Executor(t), Open(board.th[t]),
               board.th[t].phase # "requested"
        PROVE  FALSE
    <3>1. scope.role = "executor" /\ scope.task = t
      BY <2>6 DEF Executor
    <3>2. stopCheckExecutor(t, TRUE) = ""
      BY <2>2, <3>1 DEF stopCheckWork
    <3> QED BY <1>1, <2>1, <2>6, <3>1, <3>2, ExecutorStays DEF NamedNext
  <2> QED BY <2>4, <2>5, <2>6 DEF Sessions
<1> QED BY <1>1, InitFits, AdviceStep, PTL DEF AdviceSpec
=============================================================================
