------------------------------ MODULE MCWatch --------------------------------
EXTENDS Watch, TLC

CONSTANTS t1, t2

At(phase, gen) == [phase |-> phase, gen |-> gen, lost |-> FALSE]

NoReview == [status |-> "none", label |-> "", gen |-> 0]
Question(status, role, task) ==
  [status |-> status, role |-> role, task |-> task, byDefault |-> FALSE, old |-> FALSE]

\* A goal being worked on, a goal whose review the commander received, and a
\* goal whose plan was rejected.
Working ==
  [goal |-> "active", gh |-> At("received", 0), ph |-> At("completed", 1),
   th |-> (t1 :> At("received", 0) @@ t2 :> At("submitted", 1)), tc |-> "requested",
   ask |-> Question("none", "executor", t1), review |-> NoReview, others |-> {}]

Reviewing ==
  [goal |-> "active", gh |-> At("reviewing", 1), ph |-> At("completed", 1),
   th |-> (t1 :> At("completed", 1) @@ t2 :> [At("received", 0) EXCEPT !.lost = TRUE]),
   tc |-> "completed", ask |-> Question("open", "subcommander", NoTask),
   review |-> NoReview, others |-> {}]

Replanning ==
  [goal |-> "active", gh |-> At("received", 0), ph |-> At("rejected", 1),
   th |-> (t1 :> At("rejected", 1) @@ t2 :> At("none", 0)),
   tc |-> "none", ask |-> Question("none", "subcommander", NoTask),
   review |-> NoReview, others |-> {}]

Boards == {Working, Reviewing, Replanning}
OneTask == {[role |-> "commander", task |-> NoTask],
            [role |-> "subcommander", task |-> NoTask],
            [role |-> "executor", task |-> t1]}
=============================================================================
