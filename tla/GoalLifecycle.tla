---------------------------- MODULE GoalLifecycle ----------------------------
(***************************************************************************)
(* What the human is promised about one goal: it is finished only when one *)
(* of its reviews was approved and nothing is left to decide, it may be    *)
(* dropped at any time before that, and a finished or dropped goal stays   *)
(* so.  An approval is given to an active goal and is never taken back.    *)
(***************************************************************************)
VARIABLES goal,      \* "active", "done" or "dropped"
          pending,   \* some decision waits for the human
          approved   \* the human approved a review of the goal

lifecycleVars == <<goal, pending, approved>>

LifecycleInit == goal = "active" /\ pending = FALSE /\ approved = FALSE

Ask == pending' = TRUE /\ UNCHANGED <<goal, approved>>

Answer == pending /\ pending' \in BOOLEAN /\ UNCHANGED <<goal, approved>>

Approve ==
  /\ goal = "active"
  /\ pending
  /\ pending' \in BOOLEAN
  /\ approved' = TRUE
  /\ UNCHANGED goal

Finish ==
  /\ goal = "active"
  /\ approved
  /\ ~pending
  /\ goal' = "done"
  /\ UNCHANGED <<pending, approved>>

Drop ==
  /\ goal = "active"
  /\ goal' = "dropped"
  /\ pending' = FALSE
  /\ UNCHANGED approved

LifecycleNext == Ask \/ Answer \/ Approve \/ Finish \/ Drop

LifecycleSpec == LifecycleInit /\ [][LifecycleNext]_lifecycleVars
=============================================================================
