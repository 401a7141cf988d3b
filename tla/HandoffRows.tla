----------------------------- MODULE HandoffRows -----------------------------
(***************************************************************************)
(* The shape that the rows of goal_handoffs and task_handoffs share: who   *)
(* requested and who received the work, the review exchange between the    *)
(* two, and how the row was closed.                                        *)
(***************************************************************************)
EXTENDS Sessions

CONSTANTS Handoff,     \* handoff ids a client may use
          Developers   \* sessions in development mode

ASSUME HandoffAssumption == None \notin Handoff
ASSUME DevelopersAssumption == Developers \subseteq Session

Report == {"none", "completed", "released", "reclaimed"}

HandoffRow ==
  [requestedBy       : Maybe(Session),  \* None: the row does not exist
   receivedBy        : Maybe(Session),
   reviewRequestedBy : Maybe(Session),
   reviewReceivedBy  : Maybe(Session),
   reviewRejected    : BOOLEAN,
   rejectionReceived : BOOLEAN,
   report            : Report,          \* "none": completed_report_at is NULL
   recovered         : BOOLEAN]

NoRow ==
  [requestedBy       |-> None,
   receivedBy        |-> None,
   reviewRequestedBy |-> None,
   reviewReceivedBy  |-> None,
   reviewRejected    |-> FALSE,
   rejectionReceived |-> FALSE,
   report            |-> "none",
   recovered         |-> FALSE]

\* No column of the row contradicts another.
ColumnsAgree(r) ==
  /\ r.receivedBy # None => r.requestedBy # None
  /\ r.reviewRequestedBy # None => r.receivedBy # None
  /\ r.reviewReceivedBy # None => r.reviewRequestedBy # None
  /\ r.reviewReceivedBy # None => ~r.reviewRejected
  /\ r.reviewRejected => r.reviewRequestedBy # None
  /\ r.rejectionReceived => r.reviewRejected

\* Where the exchange about a row stands.
PhaseOf(r) ==
  IF r.requestedBy = None THEN "none"
  ELSE IF r.recovered THEN "recovered"
  ELSE IF r.report # "none" THEN "closed"
  ELSE IF r.receivedBy = None THEN "requested"
  ELSE IF r.reviewRequestedBy = None THEN "received"
  ELSE IF r.reviewReceivedBy # None THEN "reviewing"
  ELSE IF ~r.reviewRejected THEN "submitted"
  ELSE IF r.rejectionReceived THEN "acknowledged" ELSE "rejected"
=============================================================================
