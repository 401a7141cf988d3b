------------------------------ MODULE Identity ------------------------------
(***************************************************************************)
(* Who an agent session is.  Every transport an agent opens registers a    *)
(* row of agent_sessions; session.identify attaches the transport to the   *)
(* row that has the agent's key, and binds the agent's monitor to it.      *)
(* Rows go in three ways: the idle reclaim discards or deletes the ones    *)
(* without a key, the retention deletes what was registered long ago, and  *)
(* a commander revokes one with the human's approval.  The id of a deleted *)
(* row is given again: agent_sessions.id has no AUTOINCREMENT.             *)
(***************************************************************************)
EXTENDS Integers, FiniteSets

CONSTANTS Agent,   \* agents; each has a key and a monitor token of its own
          None,    \* no key
          MaxId,   \* bound: ids in use at once
          Budget   \* reclaimRowBudget

ASSUME AgentAssumption == None \notin Agent
ASSUME LimitAssumption == MaxId \in Nat \ {0} /\ Budget \in Nat \ {0}

VARIABLES rows,       \* agent_sessions: its domain is the ids that exist
          transport,  \* the id the MCP server of each agent sends, or 0
          identify,   \* how far a session.identify of each agent is
          toolUse,    \* agents with a tool call their hook has bound
          binding,    \* the session the monitor token of each agent is bound to
          parties,    \* ids that handoffs name
          asked,      \* ids that decisions name
          approved,   \* discards the human approved, as <<commander, target>>
          claim       \* projects.claimed_by, or 0

refs == <<parties, asked, approved, claim>>
vars == <<rows, transport, identify, toolUse, binding, refs>>

Id == 1..MaxId
MaybeId == 0..MaxId

Row == [key : Agent \cup {None},             \* session_key
        lease : {"held", "lapsed", "idle"},  \* inside the lease, out of it, for a day
        old : BOOLEAN,                       \* registered before the retention
        out : {"no", "reclaimed", "revoked"},
        by : MaybeId,                        \* discarded_by
        project : BOOLEAN]                   \* project_id is set

Exists(i) == i \in DOMAIN rows
Discarded(i) == rows[i].out # "no"
Keyed(a) == {i \in DOMAIN rows : rows[i].key = a}

NoCall == [at |-> "none", id |-> 0]

Init ==
  /\ rows = [i \in {} |-> 0]
  /\ transport = [a \in Agent |-> 0]
  /\ identify = [a \in Agent |-> NoCall]
  /\ toolUse = {}
  /\ binding = [a \in Agent |-> 0]
  /\ parties = {}
  /\ asked = {}
  /\ approved = {}
  /\ claim = 0
-----------------------------------------------------------------------------
(* Registration and its retention                                          *)

\* Mutant: the handoffs of an old row are not looked at.
ExpiredInHandoffs(except) ==
  {i \in DOMAIN rows \ {except} :
     rows[i].old /\ \A j \in DOMAIN rows : rows[j].by # i}

\* DeleteExpiredAgentSessionsExcept: handoffs and the discards of others keep
\* an old row, and nothing else does.
Expired(except) ==
  {i \in DOMAIN rows \ {except} :
     /\ rows[i].old
     /\ i \notin parties
     /\ \A j \in DOMAIN rows : rows[j].by # i}

Without(r, gone) == [i \in DOMAIN r \ gone |-> r[i]]

\* monitor_bindings.agent_session_id is ON DELETE CASCADE.
Unbound(gone) == [a \in Agent |-> IF binding[a] \in gone THEN 0 ELSE binding[a]]

\* The id SQLite gives to a new row: one more than the largest there is.
NextId == CHOOSE n \in 1..(MaxId + 1) :
            /\ n - 1 = 0 \/ n - 1 \in DOMAIN rows
            /\ \A i \in DOMAIN rows : i < n

\* run.register of a new transport, for the cwd of a project or for none.
Connect(a, inProject) ==
  LET n == NextId
      gone == Expired(n)
      new == [key |-> None, lease |-> "held", old |-> FALSE, out |-> "no",
              by |-> 0, project |-> inProject]
  IN
  /\ n \in Id
  /\ rows' = [i \in (DOMAIN rows \ gone) \cup {n} |-> IF i = n THEN new ELSE rows[i]]
  /\ binding' = Unbound(gone)
  /\ transport' = [transport EXCEPT ![a] = n]
  /\ identify' = [identify EXCEPT ![a] = NoCall]
  /\ UNCHANGED <<toolUse, refs>>

\* The transport closes, with whatever call it had.
Leave(a) ==
  /\ transport[a] # 0
  /\ transport' = [transport EXCEPT ![a] = 0]
  /\ identify' = [identify EXCEPT ![a] = NoCall]
  /\ UNCHANGED <<rows, toolUse, binding, refs>>
-----------------------------------------------------------------------------
(* Identification                                                          *)

\* Mutant: a key that is known is attached to whatever became of its row.
AttachDiscarded(a, i) ==
  LET c == IF Keyed(a) = {} THEN i ELSE CHOOSE k \in Keyed(a) : TRUE IN
  /\ Exists(i) /\ ~Discarded(i)
  /\ rows' = [rows EXCEPT ![c].key = a, ![c].old = FALSE]
  /\ identify' = [identify EXCEPT ![a] = [at |-> "bind", id |-> c]]

\* IdentifyAgentSession: the row that has the key, or else the row of the
\* transport, which takes the key.
Attach(a, i) ==
  LET c == IF Keyed(a) = {} THEN i ELSE CHOOSE k \in Keyed(a) : TRUE IN
  /\ Exists(i) /\ ~Discarded(i)
  /\ ~Discarded(c)
  /\ rows' = [rows EXCEPT ![c].key = a, ![c].old = FALSE]
  /\ identify' = [identify EXCEPT ![a] = [at |-> "bind", id |-> c]]

Identify(a) ==
  /\ transport[a] # 0
  /\ identify[a] = NoCall
  /\ Attach(a, transport[a])
  /\ UNCHANGED <<transport, toolUse, binding, refs>>

\* The response makes the shim use the canonical id.
Reply(a) ==
  /\ transport' = [transport EXCEPT ![a] = identify[a].id]
  /\ identify' = [identify EXCEPT ![a] = NoCall]

\* BindMonitorToken, a statement of its own.  A call without a cwd ends here.
Bind(a, withCwd) ==
  LET c == identify[a].id IN
  /\ identify[a].at = "bind"
  /\ Exists(c)
  /\ binding' = [binding EXCEPT ![a] = c]
  /\ IF withCwd
     THEN identify' = [identify EXCEPT ![a].at = "associate"] /\ UNCHANGED transport
     ELSE Reply(a)
  /\ UNCHANGED <<rows, toolUse, refs>>

\* ensureAgentSessionProject: a row without a project gets that of the cwd.
Associate(a) ==
  LET c == identify[a].id
      gone == IF rows[c].project THEN {} ELSE Expired(c)
  IN
  /\ identify[a].at = "associate"
  /\ Exists(c)
  /\ rows' = Without([rows EXCEPT ![c].project = TRUE], gone)
  /\ binding' = Unbound(gone)
  /\ Reply(a)
  /\ UNCHANGED <<toolUse, refs>>

\* An error of one of the later statements, or the response is lost.
IdentifyFails(a) ==
  /\ identify[a] # NoCall
  /\ identify' = [identify EXCEPT ![a] = NoCall]
  /\ UNCHANGED <<rows, transport, toolUse, binding, refs>>

\* session.tool_use.bind of the PreToolUse hook, for a key that is known.
BindToolUse(a) ==
  /\ a \notin toolUse
  /\ Keyed(a) # {}
  /\ toolUse' = toolUse \cup {a}
  /\ UNCHANGED <<rows, transport, identify, binding, refs>>

\* The tool call of a transport takes its binding and attaches the transport.
ResolveToolUse(a) ==
  /\ a \in toolUse
  /\ transport[a] # 0
  /\ identify[a] = NoCall
  /\ toolUse' = toolUse \ {a}
  /\ \/ /\ Keyed(a) # {} /\ transport[a] \notin Keyed(a)
        /\ \E c \in Keyed(a) :
             /\ Exists(transport[a]) /\ ~Discarded(transport[a]) /\ ~Discarded(c)
             /\ rows' = [rows EXCEPT ![c].old = FALSE]
             /\ transport' = [transport EXCEPT ![a] = c]
     \/ UNCHANGED <<rows, transport>>
  /\ UNCHANGED <<identify, binding, refs>>

\* The daemon restarts and forgets the bindings of tool calls.
ForgetToolUse ==
  /\ toolUse # {}
  /\ toolUse' = {}
  /\ UNCHANGED <<rows, transport, identify, binding, refs>>
-----------------------------------------------------------------------------
(* Leases and time                                                         *)

\* handleMonitorBinding: the poll of the monitor renews the lease of the
\* session its token is bound to.
Poll(a) ==
  /\ binding[a] # 0
  /\ rows[binding[a]].lease # "held"
  /\ rows' = [rows EXCEPT ![binding[a]].lease = "held"]
  /\ UNCHANGED <<transport, identify, toolUse, binding, refs>>

Lapse(i) ==
  /\ Exists(i)
  /\ rows[i].lease = "held"
  /\ rows' = [rows EXCEPT ![i].lease = "lapsed"]
  /\ UNCHANGED <<transport, identify, toolUse, binding, refs>>

\* Time passes; only a monitor that polls keeps a session from idling.
Pass(old) ==
  /\ \E polled \in SUBSET {binding[a] : a \in Agent} :
       rows' = [i \in DOMAIN rows |->
                  [rows[i] EXCEPT !.lease = IF i \in polled THEN "held" ELSE "idle",
                                  !.old = @ \/ old]]
  /\ identify' = [a \in Agent |-> NoCall]
  /\ UNCHANGED <<transport, toolUse, binding, refs>>

\* Every transport has identified itself or is closed when a day has passed.
Punctual == \A a \in Agent : transport[a] \in Keyed(a) \cup {0}

\* Nobody works for a month, and nothing a session without handoffs stands for
\* is left: no claim and no revoke.
Quiet ==
  /\ \A a \in Agent : transport[a] = 0
  /\ claim = 0
  /\ \A i \in DOMAIN rows : rows[i].out # "revoked"
-----------------------------------------------------------------------------
(* What names a session                                                    *)

\* A call under the id of the transport that requests or receives a handoff.
JoinHandoff(a) ==
  /\ Exists(transport[a]) /\ ~Discarded(transport[a])
  /\ parties' = parties \cup {transport[a]}
  /\ UNCHANGED <<rows, transport, identify, toolUse, binding, asked, approved, claim>>

\* decision.ask
Ask(a) ==
  /\ Exists(transport[a])
  /\ asked' = asked \cup {transport[a]}
  /\ UNCHANGED <<rows, transport, identify, toolUse, binding, parties, approved, claim>>

Held(i) == Exists(i) /\ rows[i].lease = "held"

\* project.claim, which the module Sessions models in its two steps.
ClaimProject(a, force) ==
  LET i == transport[a]
      gone == IF rows[i].project THEN {} ELSE Expired(i)
  IN
  /\ Exists(i) /\ claim # i
  /\ force \/ ~Held(claim)
  /\ rows' = Without([rows EXCEPT ![i].project = TRUE], gone)
  /\ binding' = Unbound(gone)
  /\ claim' = i
  /\ UNCHANGED <<transport, identify, toolUse, parties, asked, approved>>

ReleaseProject ==
  /\ claim # 0
  /\ claim' = 0
  /\ UNCHANGED <<rows, transport, identify, toolUse, binding, parties, asked, approved>>

\* requireProjectCommander
Commands(i) == claim = i /\ Held(i) /\ ~Discarded(i) /\ rows[i].project

\* RequestSessionDiscard of another session, and the human approves it.
ApproveDiscard(a, t) ==
  LET i == transport[a] IN
  /\ i # 0 /\ i # t
  /\ Commands(i)
  /\ Exists(t) /\ rows[t].project /\ ~Discarded(t)
  /\ approved' = approved \cup {<<i, t>>}
  /\ asked' = asked \cup {i}
  /\ UNCHANGED <<rows, transport, identify, toolUse, binding, parties, claim>>

DiscardSession(a, t) ==
  LET i == transport[a] IN
  /\ <<i, t>> \in approved
  /\ Commands(i)
  /\ Exists(t) /\ rows[t].project /\ ~Discarded(t)
  /\ rows' = [rows EXCEPT ![t].out = "revoked", ![t].by = i]
  /\ UNCHANGED <<transport, identify, toolUse, binding, refs>>
-----------------------------------------------------------------------------
(* ReclaimAgentSessions                                                    *)

\* protectedSessionRefs and heldSessionRefs.
Protected(i) == i \in parties \cup {claim}
Named(i) == \/ i \in asked
            \/ \E a \in Agent : binding[a] = i
            \/ \E j \in DOMAIN rows : rows[j].by = i

Idle(i) == rows[i].lease = "idle" /\ ~Protected(i)

Discardable(i) == Idle(i) /\ rows[i].key = None /\ ~Discarded(i) /\ Named(i)

\* Mutant: a session that has a key is deleted like any other.
DeletableKeyed(i) == Idle(i) /\ rows[i].out # "revoked" /\ ~Named(i)

Deletable(i) == Idle(i) /\ rows[i].key = None /\ rows[i].out # "revoked" /\ ~Named(i)

Some(S, n) == {T \in SUBSET S : Cardinality(T) <= n /\ (T = S \/ Cardinality(T) = n)}

\* One transaction: it discards, deletes, and forgets bindings of a week to
\* sessions that are discarded, up to the budget.
Reclaim ==
  \E out \in Some({i \in DOMAIN rows : Discardable(i)}, Budget) :
  \E gone \in Some({i \in DOMAIN rows : Deletable(i)}, Budget - Cardinality(out)) :
  \E dead \in SUBSET {a \in Agent : binding[a] # 0 /\ Discarded(binding[a])} :
    /\ Cardinality(out) + Cardinality(gone) + Cardinality(dead) \in 1..Budget
    /\ rows' = Without([i \in DOMAIN rows |->
                          IF i \in out THEN [rows[i] EXCEPT !.out = "reclaimed"]
                          ELSE rows[i]], gone)
    /\ binding' = [a \in Agent |-> IF a \in dead THEN 0 ELSE Unbound(gone)[a]]
    /\ UNCHANGED <<transport, identify, toolUse, refs>>
-----------------------------------------------------------------------------
AgentStep(a) ==
  \/ \E inProject \in BOOLEAN : Connect(a, inProject)
  \/ Leave(a)
  \/ Identify(a)
  \/ \E withCwd \in BOOLEAN : Bind(a, withCwd)
  \/ Associate(a)
  \/ IdentifyFails(a)
  \/ BindToolUse(a)
  \/ ResolveToolUse(a)
  \/ Poll(a)
  \/ JoinHandoff(a)
  \/ Ask(a)
  \/ \E force \in BOOLEAN : ClaimProject(a, force)
  \/ \E t \in Id : ApproveDiscard(a, t) \/ DiscardSession(a, t)

PunctualNext ==
  \/ \E a \in Agent : AgentStep(a)
  \/ ForgetToolUse
  \/ \E i \in Id : Lapse(i)
  \/ Punctual /\ Pass(FALSE)
  \/ Quiet /\ Pass(TRUE)
  \/ ReleaseProject
  \/ Reclaim

\* Agents identify themselves within a day, and what the retention removes
\* nobody uses.
PunctualSpec == Init /\ [][PunctualNext]_vars

\* A transport may stay unidentified, and a month may pass at any time.
Next == PunctualNext \/ \E old \in BOOLEAN : Pass(old)

Spec == Init /\ [][Next]_vars
-----------------------------------------------------------------------------
Call == {NoCall} \cup [at : {"bind", "associate"}, id : Id]

IdentityTypeOK ==
  /\ DOMAIN rows \subseteq Id
  /\ \A i \in DOMAIN rows : rows[i] \in Row
  /\ transport \in [Agent -> MaybeId]
  /\ identify \in [Agent -> Call]
  /\ toolUse \subseteq Agent
  /\ binding \in [Agent -> MaybeId]
  /\ parties \subseteq Id
  /\ asked \subseteq Id
  /\ approved \subseteq Id \X Id
  /\ claim \in MaybeId

\* No session serves two agents, whatever rows were deleted and whatever ids
\* were given again: nobody acts as another agent, nor under its claims
\* (IdentifyAgentSession, the reclaim and the retention).
SessionServesOneAgent ==
  \A a, b \in Agent :
    a # b => /\ transport[a] # 0 => transport[a] # transport[b]
             /\ transport[a] # 0 => transport[a] \notin Keyed(b)
             /\ binding[a] # 0 => binding[a] # binding[b]

\* agent_session_reclaim.go: "A session behind one of these is neither
\* discarded nor deleted".  The sessions that handoffs, the project claim,
\* the discards of others and the monitors name are there.
ReferencedSessionsExist ==
  /\ parties \subseteq DOMAIN rows
  /\ claim \in DOMAIN rows \cup {0}
  /\ \A i \in DOMAIN rows : rows[i].by \in DOMAIN rows \cup {0}
  /\ \A a \in Agent : binding[a] \in DOMAIN rows \cup {0}

RevokedKey(a) == \E i \in Keyed(a) : rows[i].out = "revoked"

\* A revoke is final: the agent stays revoked, and no transport it opens is
\* attached again, however long it waits (IdentifyAgentSession; "a keyed one
\* could register again under its key, which would lift a revoke",
\* agent_session_reclaim.sql).
RevocationSticks ==
  [][\A a \in Agent : RevokedKey(a) =>
       /\ RevokedKey(a)'
       /\ identify'[a] # NoCall => identify[a] # NoCall
       /\ transport'[a] \in Keyed(a) => transport'[a] = transport[a] \/ identify[a] # NoCall]_vars
=============================================================================
