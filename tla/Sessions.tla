------------------------------ MODULE Sessions ------------------------------
(***************************************************************************)
(* The agent sessions the daemon knows, the heartbeat lease of each, the   *)
(* human-approved discard of a session, and the claim a commander holds on *)
(* the project.                                                            *)
(*                                                                         *)
(* The store is one SQLite connection, so a transaction is one step.  An   *)
(* RPC that checks something before it opens its transaction is two steps: *)
(* a Read that records in call[s] what the handler remembers, and a Commit *)
(* that re-checks only what the transaction itself re-checks.  Between the *)
(* two every other session may move.  Abort(s) stands for every way a call *)
(* ends without a commit: an error, a closed connection, a daemon crash.   *)
(***************************************************************************)
EXTENDS Naturals, FiniteSets

CONSTANTS Session,      \* rows of agent_sessions
          None,         \* a NULL column
          MaxInFlight,  \* bound: RPCs between their Read and their Commit
          MaxDiscards   \* bound: sessions the human lets be discarded

ASSUME SessionAssumption == None \notin Session
ASSUME BoundsAssumption == MaxInFlight \in Nat \ {0} /\ MaxDiscards \in Nat

VARIABLES held,       \* sessions whose last heartbeat is inside the lease
          discarded,  \* sessions with a complete discard record
          claim,      \* projects.claimed_by
          call        \* per session, the RPC it has in flight

sessionVars == <<held, discarded, claim, call>>

Maybe(S) == S \cup {None}

Idle == [op |-> "idle", h |-> None, old |-> None]

InFlight == {s \in Session : call[s] # Idle}

\* A handler has run its checks and is about to begin its transaction.
Begin(s, op, h, old) ==
  /\ call[s] = Idle
  /\ Cardinality(InFlight) < MaxInFlight
  /\ call' = [call EXCEPT ![s] = [op |-> op, h |-> h, old |-> old]]

\* The transaction of the call commits and the response is sent.
Return(s) == call' = [call EXCEPT ![s] = Idle]

Doing(s, op) == call[s].op = op

\* requireProjectClaimForGoal, claimIsRunning: the caller holds the claim on
\* the goal's project and its own lease is held.
HoldsLiveClaim(s) == claim = s /\ s \in held

\* canRecoverSessionInTx: the session is discarded, or its lease is not held.
CanRecover(s) == s \in discarded \/ s \notin held

SessionInit ==
  /\ held \in SUBSET Session
  /\ discarded = {}
  /\ claim = None
  /\ call = [s \in Session |-> Idle]
-----------------------------------------------------------------------------
\* A monitor poll or a registration renews the lease.
RenewLease(s) ==
  /\ s \notin held
  /\ held' = held \cup {s}
  /\ UNCHANGED <<discarded, claim, call>>

\* Thirty seconds pass without a heartbeat.
LapseLease(s) ==
  /\ s \in held
  /\ held' = held \ {s}
  /\ UNCHANGED <<discarded, claim, call>>

\* project.claim without force: refused while another live session holds it.
ClaimProjectRead(s) ==
  /\ claim \in {None, s} \/ claim \notin held
  /\ Begin(s, "claimProject", None, claim)
  /\ UNCHANGED <<held, discarded, claim>>

\* The transaction refuses a claim that changed hands since the read; it does
\* not look at the holder's lease again.
ClaimProjectCommit(s) ==
  /\ Doing(s, "claimProject")
  /\ claim \in {None, call[s].old}
  /\ claim' = s
  /\ Return(s)
  /\ UNCHANGED <<held, discarded>>

ForceClaimProject(s) ==
  /\ call[s] = Idle
  /\ claim' = s
  /\ UNCHANGED <<held, discarded, call>>

\* project.release is open to the holder and to every session bound to the
\* project, which all sessions of the model are.
ReleaseProject(s) ==
  /\ call[s] = Idle
  /\ claim # None
  /\ claim' = None
  /\ UNCHANGED <<held, discarded, call>>

\* session.discard: the approved revocation of session t by commander c, all
\* of it re-checked inside the transaction.
DiscardSession(c, t) ==
  /\ call[c] = Idle
  /\ HoldsLiveClaim(c)
  /\ c \notin discarded
  /\ t \notin discarded
  /\ Cardinality(discarded) < MaxDiscards
  /\ discarded' = discarded \cup {t}
  /\ UNCHANGED <<held, claim, call>>

Abort(s) ==
  /\ call[s] # Idle
  /\ Return(s)
  /\ UNCHANGED <<held, discarded, claim>>

SessionStep(s) ==
  \/ RenewLease(s)
  \/ LapseLease(s)
  \/ ClaimProjectRead(s)
  \/ ClaimProjectCommit(s)
  \/ ForceClaimProject(s)
  \/ ReleaseProject(s)
  \/ \E t \in Session : DiscardSession(s, t)
  \/ Abort(s)
=============================================================================
