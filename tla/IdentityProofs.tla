--------------------------- MODULE IdentityProofs ---------------------------
(***************************************************************************)
(* Proofs about the sessions of agents, for every set of agents, of ids    *)
(* and every budget of the reclaim.                                        *)
(***************************************************************************)
EXTENDS Identity, TLAPS, WellFoundedInduction

\* A set of numbers that is not empty has a least one.
LEMMA LeastNumber ==
  ASSUME NEW T, T \subseteq Nat, T # {}
  PROVE  \E n \in T : \A m \in T : n <= m
<1> DEFINE Less == {p \in Nat \X Nat : p[1] < p[2]}
<1>1. IsWellFoundedOn(Less, Nat)
  BY NatLessThanWellFounded DEF OpToRel
<1>2. \A x, y \in Nat : x < y => <<x, y>> \in Less
  OBVIOUS
<1> HIDE DEF Less
<1>3. PICK n \in T : \A m \in T : <<m, n>> \notin Less
  BY <1>1, WFMin
<1>4. ASSUME NEW m \in T PROVE n <= m
  <2>1. m \in Nat /\ n \in Nat
    OBVIOUS
  <2>2. ~(m < n)
    BY <1>2, <1>3, <2>1
  <2> QED BY <2>1, <2>2
<1> QED BY <1>4

\* The id of a new row is one more than any there is.
LEMMA NextIdIsNew ==
  ASSUME DOMAIN rows \subseteq Id
  PROVE  /\ NextId \in Nat \ {0}
         /\ NextId \notin DOMAIN rows
<1>1. DOMAIN rows \subseteq Nat \ {0} /\ MaxId \in Nat \ {0}
  BY LimitAssumption DEF Id
<1> DEFINE Above == {n \in Nat \ {0} : \A i \in DOMAIN rows : i < n}
<1>2. MaxId + 1 \in Above
  BY <1>1, LimitAssumption DEF Id
<1>3. PICK n \in Above : \A m \in Above : n <= m
  BY <1>2, LeastNumber
<1>4. n \in 1..(MaxId + 1)
  BY <1>1, <1>2, <1>3
<1>5. n - 1 = 0 \/ n - 1 \in DOMAIN rows
  <2> SUFFICES ASSUME n - 1 # 0, n - 1 \notin DOMAIN rows PROVE FALSE
    OBVIOUS
  <2>1. n - 1 \in Nat \ {0}
    BY <1>4
  <2>2. ASSUME NEW i \in DOMAIN rows PROVE i < n - 1
    <3>1. i < n /\ i # n - 1 /\ i \in Nat
      BY <1>1, <1>3
    <3> QED BY <2>1, <3>1, <1>4
  <2>3. n - 1 \in Above
    BY <2>1, <2>2
  <2>4. n <= n - 1
    BY <1>3, <2>3
  <2> QED BY <1>4, <2>4
<1>6. \E k \in 1..(MaxId + 1) : /\ k - 1 = 0 \/ k - 1 \in DOMAIN rows
                               /\ \A i \in DOMAIN rows : i < k
  BY <1>3, <1>4, <1>5
<1>7. NextId \in 1..(MaxId + 1) /\ \A i \in DOMAIN rows : i < NextId
  BY <1>6 DEF NextId
<1> QED BY <1>1, <1>7
-----------------------------------------------------------------------------
(* Types                                                                   *)

\* The rows are a function on the ids that exist.
IdTypes == IdentityTypeOK /\ rows \in [DOMAIN rows -> Row]

LEMMA IdTypesInit == Init => IdTypes
<1> SUFFICES ASSUME Init PROVE IdTypes
  OBVIOUS
<1>1. DOMAIN rows = {} /\ rows \in [DOMAIN rows -> Row]
  BY DEF Init
<1>2. 0 \in MaybeId
  BY LimitAssumption DEF MaybeId
<1>3. /\ transport \in [Agent -> MaybeId]
      /\ identify \in [Agent -> Call]
      /\ binding \in [Agent -> MaybeId]
  BY <1>2 DEF Init, Call
<1> QED BY <1>1, <1>2, <1>3 DEF Init, IdTypes, IdentityTypeOK

\* A row that is registered.
LEMMA NewRow ==
  ASSUME NEW inProject \in BOOLEAN
  PROVE  [key |-> None, lease |-> "held", old |-> FALSE, out |-> "no",
          by |-> 0, project |-> inProject] \in Row
BY LimitAssumption DEF Row, MaybeId

\* Some of the columns of a row are written.
LEMMA RowWritten ==
  ASSUME NEW r \in Row
  PROVE  /\ \A a \in Agent : [r EXCEPT !.key = a] \in Row
         /\ \A l \in {"held", "lapsed", "idle"} : [r EXCEPT !.lease = l] \in Row
         /\ \A o \in BOOLEAN : [r EXCEPT !.old = o] \in Row
         /\ \A o \in {"no", "reclaimed", "revoked"} : [r EXCEPT !.out = o] \in Row
         /\ \A i \in MaybeId : [r EXCEPT !.by = i] \in Row
         /\ [r EXCEPT !.project = TRUE] \in Row
BY DEF Row

\* What a write to one row leaves of the others.
OneRow(c) ==
  /\ DOMAIN rows' = DOMAIN rows
  /\ rows' \in [DOMAIN rows' -> Row]
  /\ \A i \in DOMAIN rows : i # c => rows'[i] = rows[i]

\* IdentifyAgentSession.
LEMMA AttachWrites ==
  ASSUME IdTypes, NEW c \in DOMAIN rows, NEW a \in Agent,
         rows' = [rows EXCEPT ![c].key = a, ![c].old = FALSE]
  PROVE  /\ OneRow(c)
         /\ rows'[c].key = a
         /\ rows'[c].old = FALSE
         /\ rows'[c].out = rows[c].out
         /\ rows'[c].by = rows[c].by
         /\ rows'[c].lease = rows[c].lease
<1>1. PICK r \in Row : r = [rows[c] EXCEPT !.key = a]
  BY RowWritten DEF IdTypes
<1>2. PICK s \in Row : s = [r EXCEPT !.old = FALSE]
  BY RowWritten
<1>3. rows' = [rows EXCEPT ![c] = s]
  <2>1. rows' = [i \in DOMAIN rows |-> IF i = c
                   THEN [rows[i] EXCEPT !.key = a, !.old = FALSE] ELSE rows[i]]
    OBVIOUS
  <2>2. [rows[c] EXCEPT !.key = a, !.old = FALSE] = s
    BY <1>1, <1>2
  <2> QED BY <2>1, <2>2
<1>4. /\ r.key = a
      /\ r.out = rows[c].out /\ r.by = rows[c].by /\ r.lease = rows[c].lease
  BY <1>1 DEF IdTypes, Row
<1>5. /\ s.key = a
      /\ s.old = FALSE
      /\ s.out = rows[c].out /\ s.by = rows[c].by /\ s.lease = rows[c].lease
  BY <1>2, <1>4 DEF Row
<1>6. OneRow(c) /\ rows'[c] = s
  BY <1>3 DEF OneRow, IdTypes
<1> QED BY <1>5, <1>6

\* DiscardAgentSession.
LEMMA RevokeWrites ==
  ASSUME IdTypes, NEW c \in DOMAIN rows, NEW by \in MaybeId,
         rows' = [rows EXCEPT ![c].out = "revoked", ![c].by = by]
  PROVE  /\ OneRow(c)
         /\ rows'[c].out = "revoked"
         /\ rows'[c].by = by
         /\ rows'[c].key = rows[c].key
         /\ rows'[c].old = rows[c].old
         /\ rows'[c].lease = rows[c].lease
<1>1. PICK r \in Row : r = [rows[c] EXCEPT !.out = "revoked"]
  BY RowWritten DEF IdTypes
<1>2. PICK s \in Row : s = [r EXCEPT !.by = by]
  BY RowWritten
<1>3. rows' = [rows EXCEPT ![c] = s]
  <2>1. rows' = [i \in DOMAIN rows |-> IF i = c
                   THEN [rows[i] EXCEPT !.out = "revoked", !.by = by] ELSE rows[i]]
    OBVIOUS
  <2>2. [rows[c] EXCEPT !.out = "revoked", !.by = by] = s
    BY <1>1, <1>2
  <2> QED BY <2>1, <2>2
<1>4. /\ r.out = "revoked"
      /\ r.key = rows[c].key /\ r.old = rows[c].old /\ r.lease = rows[c].lease
  BY <1>1 DEF IdTypes, Row
<1>5. /\ s.out = "revoked"
      /\ s.by = by
      /\ s.key = rows[c].key /\ s.old = rows[c].old /\ s.lease = rows[c].lease
  BY <1>2, <1>4 DEF Row
<1>6. OneRow(c) /\ rows'[c] = s
  BY <1>3 DEF OneRow, IdTypes
<1> QED BY <1>5, <1>6

\* What the other statements leave of a row: the key, who discarded it, a
\* revoke; none makes it old or idle.
KeptRow(i) ==
  /\ i \in DOMAIN rows
  /\ rows'[i].key = rows[i].key
  /\ rows'[i].by = rows[i].by
  /\ rows'[i].out = "revoked" <=> rows[i].out = "revoked"
  /\ rows'[i].old => rows[i].old
  /\ rows'[i].lease = "idle" => rows[i].lease = "idle"

LEMMA OneColumn ==
  ASSUME IdTypes, NEW c \in DOMAIN rows,
         \/ rows' = [rows EXCEPT ![c].lease = "held"]
         \/ rows' = [rows EXCEPT ![c].lease = "lapsed"]
         \/ rows' = [rows EXCEPT ![c].old = FALSE]
         \/ rows' = [rows EXCEPT ![c].project = TRUE]
  PROVE  /\ OneRow(c)
         /\ \A i \in DOMAIN rows : KeptRow(i)
<1>1. PICK s \in Row : /\ rows' = [rows EXCEPT ![c] = s]
                       /\ s.key = rows[c].key
                       /\ s.by = rows[c].by
                       /\ s.out = rows[c].out
                       /\ s.old => rows[c].old
                       /\ s.lease = "idle" => rows[c].lease = "idle"
  <2>1. rows[c] \in Row
    BY DEF IdTypes
  <2>2. CASE rows' = [rows EXCEPT ![c].lease = "held"]
    <3>1. PICK s \in Row : s = [rows[c] EXCEPT !.lease = "held"]
      BY <2>1, RowWritten
    <3> QED BY <2>1, <2>2, <3>1 DEF Row
  <2>3. CASE rows' = [rows EXCEPT ![c].lease = "lapsed"]
    <3>1. PICK s \in Row : s = [rows[c] EXCEPT !.lease = "lapsed"]
      BY <2>1, RowWritten
    <3> QED BY <2>1, <2>3, <3>1 DEF Row
  <2>4. CASE rows' = [rows EXCEPT ![c].old = FALSE]
    <3>1. PICK s \in Row : s = [rows[c] EXCEPT !.old = FALSE]
      BY <2>1, RowWritten
    <3> QED BY <2>1, <2>4, <3>1 DEF Row
  <2>5. CASE rows' = [rows EXCEPT ![c].project = TRUE]
    <3>1. PICK s \in Row : s = [rows[c] EXCEPT !.project = TRUE]
      BY <2>1, RowWritten
    <3> QED BY <2>1, <2>5, <3>1 DEF Row
  <2> QED BY <2>2, <2>3, <2>4, <2>5
<1>2. OneRow(c) /\ rows'[c] = s
  BY <1>1 DEF OneRow, IdTypes
<1>3. \A i \in DOMAIN rows : KeptRow(i)
  BY <1>1, <1>2 DEF OneRow, KeptRow
<1> QED BY <1>2, <1>3

\* With the old flag cleared the row stays for another month.
LEMMA TouchedRow ==
  ASSUME IdTypes, NEW c \in DOMAIN rows, rows' = [rows EXCEPT ![c].old = FALSE]
  PROVE  rows'[c].old = FALSE
BY DEF IdTypes, Row

\* Nothing is written.
LEMMA NoRow ==
  ASSUME IdTypes, UNCHANGED rows
  PROVE  DOMAIN rows' = DOMAIN rows /\ rows' \in [DOMAIN rows' -> Row]
         /\ \A i \in DOMAIN rows : KeptRow(i)
BY DEF IdTypes, KeptRow

\* The rows of every step; the ids that go are those of rows.
LEMMA RowsTyped ==
  ASSUME IdTypes, [Next]_vars
  PROVE  /\ DOMAIN rows' \subseteq Id
         /\ rows' \in [DOMAIN rows' -> Row]
<1>1. /\ DOMAIN rows \subseteq Id
      /\ rows \in [DOMAIN rows -> Row]
      /\ transport \in [Agent -> MaybeId]
      /\ identify \in [Agent -> Call]
      /\ binding \in [Agent -> MaybeId]
  BY DEF IdTypes, IdentityTypeOK
<1>2. CASE UNCHANGED rows
  BY <1>1, <1>2
<1>3. ASSUME NEW c \in DOMAIN rows, OneRow(c)
      PROVE  DOMAIN rows' \subseteq Id /\ rows' \in [DOMAIN rows' -> Row]
  BY <1>1, <1>3 DEF OneRow
<1>4. ASSUME NEW c, c \in DOMAIN rows, NEW gone,
             rows' = Without([rows EXCEPT ![c].project = TRUE], gone)
      PROVE  DOMAIN rows' \subseteq Id /\ rows' \in [DOMAIN rows' -> Row]
  <2>1. [rows[c] EXCEPT !.project = TRUE] \in Row
    BY <1>1, <1>4, RowWritten
  <2>2. PICK r : r = [rows EXCEPT ![c].project = TRUE]
    OBVIOUS
  <2>3. r \in [DOMAIN rows -> Row]
    BY <1>1, <2>1, <2>2
  <2>4. rows' = [i \in DOMAIN rows \ gone |-> r[i]]
    BY <1>4, <2>2, <2>3 DEF Without
  <2> QED BY <1>1, <2>3, <2>4
<1>5. ASSUME NEW a \in Agent, AgentStep(a)
      PROVE  DOMAIN rows' \subseteq Id /\ rows' \in [DOMAIN rows' -> Row]
  <2>1. ASSUME NEW inProject \in BOOLEAN, Connect(a, inProject)
        PROVE  DOMAIN rows' \subseteq Id /\ rows' \in [DOMAIN rows' -> Row]
    <3>1. PICK new \in Row, n \in Id, gone \in {Expired(NextId)} :
            rows' = [i \in (DOMAIN rows \ gone) \cup {n} |->
                       IF i = n THEN new ELSE rows[i]]
      BY <2>1, NewRow DEF Connect
    <3> QED BY <1>1, <3>1
  <2>2. CASE Identify(a)
    <3>1. PICK c \in DOMAIN rows : rows' = [rows EXCEPT ![c].key = a, ![c].old = FALSE]
      BY <2>2 DEF Identify, Attach, Exists, Keyed
    <3> QED BY <1>3, <3>1, AttachWrites
  <2>3. CASE Associate(a)
    BY <1>4, <2>3 DEF Associate, Exists
  <2>4. CASE ResolveToolUse(a)
    <3>1. UNCHANGED rows \/ \E c \in DOMAIN rows : rows' = [rows EXCEPT ![c].old = FALSE]
      BY <2>4 DEF ResolveToolUse, Keyed
    <3> QED BY <1>2, <1>3, <3>1, OneColumn
  <2>5. CASE Poll(a)
    <3>1. CASE binding[a] \in DOMAIN rows
      BY <1>3, <2>5, <3>1, OneColumn DEF Poll
    <3>2. CASE binding[a] \notin DOMAIN rows
      <4>1. rows' = rows
        BY <1>1, <2>5, <3>2 DEF Poll
      <4> QED BY <1>2, <4>1
    <3> QED BY <3>1, <3>2
  <2>6. ASSUME NEW force \in BOOLEAN, ClaimProject(a, force)
        PROVE  DOMAIN rows' \subseteq Id /\ rows' \in [DOMAIN rows' -> Row]
    BY <1>4, <2>6 DEF ClaimProject, Exists
  <2>7. ASSUME NEW t \in Id, DiscardSession(a, t)
        PROVE  DOMAIN rows' \subseteq Id /\ rows' \in [DOMAIN rows' -> Row]
    <3>1. t \in DOMAIN rows /\ transport[a] \in MaybeId
      BY <1>1, <2>7 DEF DiscardSession, Exists
    <3>2. rows' = [rows EXCEPT ![t].out = "revoked", ![t].by = transport[a]]
      BY <2>7 DEF DiscardSession
    <3> QED BY <1>3, <3>1, <3>2, RevokeWrites
  <2>8. CASE \/ Leave(a) \/ IdentifyFails(a) \/ BindToolUse(a) \/ JoinHandoff(a)
             \/ Ask(a) \/ (\E withCwd \in BOOLEAN : Bind(a, withCwd))
             \/ \E t \in Id : ApproveDiscard(a, t)
    <3>1. UNCHANGED rows
      BY <2>8 DEF Leave, IdentifyFails, BindToolUse, JoinHandoff, Ask, Bind,
         ApproveDiscard
    <3> QED BY <1>2, <3>1
  <2> QED
    BY <1>5, <2>1, <2>2, <2>3, <2>4, <2>5, <2>6, <2>7, <2>8 DEF AgentStep
<1>6. ASSUME NEW i \in Id, Lapse(i)
      PROVE  DOMAIN rows' \subseteq Id /\ rows' \in [DOMAIN rows' -> Row]
  BY <1>3, <1>6, OneColumn DEF Lapse, Exists
<1>7. ASSUME NEW old \in BOOLEAN, Pass(old)
      PROVE  DOMAIN rows' \subseteq Id /\ rows' \in [DOMAIN rows' -> Row]
  <2>1. PICK polled :
          rows' = [i \in DOMAIN rows |->
                     [rows[i] EXCEPT !.lease = IF i \in polled THEN "held" ELSE "idle",
                                     !.old = @ \/ old]]
    BY <1>7 DEF Pass
  <2>2. ASSUME NEW i \in DOMAIN rows
        PROVE  [rows[i] EXCEPT !.lease = IF i \in polled THEN "held" ELSE "idle",
                               !.old = @ \/ old] \in Row
    <3>1. rows[i] \in Row
      BY <1>1
    <3> QED BY <3>1 DEF Row
  <2> QED BY <1>1, <2>1, <2>2
<1>8. CASE Reclaim
  <2>1. PICK out, gone :
          rows' = Without([i \in DOMAIN rows |->
                             IF i \in out THEN [rows[i] EXCEPT !.out = "reclaimed"]
                             ELSE rows[i]], gone)
    BY <1>8 DEF Reclaim
  <2>2. ASSUME NEW i \in DOMAIN rows
        PROVE  (IF i \in out THEN [rows[i] EXCEPT !.out = "reclaimed"]
                ELSE rows[i]) \in Row
    BY <1>1, RowWritten
  <2>3. rows' = [i \in DOMAIN rows \ gone |->
                   IF i \in out THEN [rows[i] EXCEPT !.out = "reclaimed"]
                   ELSE rows[i]]
    BY <2>1 DEF Without
  <2> QED BY <1>1, <2>2, <2>3
<1>9. CASE ForgetToolUse \/ ReleaseProject \/ UNCHANGED vars
  BY <1>2, <1>9 DEF ForgetToolUse, ReleaseProject, vars
<1> QED
  BY <1>5, <1>6, <1>7, <1>8, <1>9 DEF Next, PunctualNext

LEMMA IdTypesStep == IdTypes /\ [Next]_vars => IdTypes'
<1> SUFFICES ASSUME IdTypes, [Next]_vars PROVE IdTypes'
  OBVIOUS
<1>1. /\ DOMAIN rows \subseteq Id
      /\ transport \in [Agent -> MaybeId]
      /\ identify \in [Agent -> Call]
      /\ toolUse \subseteq Agent
      /\ binding \in [Agent -> MaybeId]
      /\ parties \subseteq Id /\ asked \subseteq Id
      /\ approved \subseteq Id \X Id
      /\ claim \in MaybeId
  BY DEF IdTypes, IdentityTypeOK
<1>2. Id \subseteq MaybeId /\ 0 \in MaybeId /\ NoCall \in Call
  BY LimitAssumption DEF Id, MaybeId, Call
<1>3. \A a \in Agent : identify[a] # NoCall => identify[a].id \in Id
  BY <1>1 DEF Call
<1>4. transport' \in [Agent -> MaybeId]
  <2>1. ASSUME NEW a \in Agent, AgentStep(a)
        PROVE  UNCHANGED transport
               \/ \E i \in MaybeId : transport' = [transport EXCEPT ![a] = i]
    <3>1. CASE Associate(a) \/ \E withCwd \in BOOLEAN : Bind(a, withCwd)
      <4>1. identify[a] # NoCall
        BY <3>1 DEF Associate, Bind, NoCall
      <4> QED BY <1>2, <1>3, <3>1, <4>1 DEF Associate, Bind, Reply
    <3>2. CASE ResolveToolUse(a)
      BY <1>1, <1>2, <3>2 DEF ResolveToolUse, Keyed
    <3>3. CASE Leave(a) \/ \E inProject \in BOOLEAN : Connect(a, inProject)
      BY <1>2, <3>3 DEF Leave, Connect
    <3> QED
      BY <2>1, <3>1, <3>2, <3>3
      DEF AgentStep, Identify, IdentifyFails, BindToolUse, Poll, JoinHandoff,
          Ask, ClaimProject, ApproveDiscard, DiscardSession, refs
  <2>2. CASE UNCHANGED transport
    BY <1>1, <2>2
  <2>3. CASE \E a \in Agent : AgentStep(a)
    BY <1>1, <2>1, <2>2, <2>3
  <2> QED
    BY <2>2, <2>3
    DEF Next, PunctualNext, ForgetToolUse, Lapse, Pass, ReleaseProject, Reclaim,
        vars, refs
<1>5. binding' \in [Agent -> MaybeId]
  <2>1. \A gone : Unbound(gone) \in [Agent -> MaybeId]
    BY <1>1, <1>2 DEF Unbound
  <2>2. CASE UNCHANGED binding \/ \E gone : binding' = Unbound(gone)
    BY <1>1, <2>1, <2>2
  <2>3. ASSUME NEW a \in Agent, AgentStep(a) PROVE binding' \in [Agent -> MaybeId]
    <3>1. CASE \E withCwd \in BOOLEAN : Bind(a, withCwd)
      <4>1. identify[a] # NoCall
        BY <3>1 DEF Bind, NoCall
      <4> QED BY <1>1, <1>2, <1>3, <3>1, <4>1 DEF Bind
    <3> QED
      BY <2>2, <2>3, <3>1
      DEF AgentStep, Connect, Leave, Identify, Associate, IdentifyFails,
          BindToolUse, ResolveToolUse, Poll, JoinHandoff, Ask, ClaimProject,
          ApproveDiscard, DiscardSession, refs
  <2>4. CASE Reclaim
    <3>1. PICK dead, gone :
            binding' = [a \in Agent |-> IF a \in dead THEN 0 ELSE Unbound(gone)[a]]
      BY <2>4 DEF Reclaim
    <3> QED BY <1>2, <2>1, <3>1
  <2> QED
    BY <2>2, <2>3, <2>4
    DEF Next, PunctualNext, ForgetToolUse, Lapse, Pass, ReleaseProject, vars, refs
<1>6. identify' \in [Agent -> Call]
  <2>1. ASSUME NEW a \in Agent, NEW call \in Call,
               identify' = [identify EXCEPT ![a] = call]
        PROVE  identify' \in [Agent -> Call]
    BY <1>1, <2>1
  <2>2. CASE UNCHANGED identify
    BY <1>1, <2>2
  <2>3. ASSUME NEW a \in Agent, AgentStep(a) PROVE identify' \in [Agent -> Call]
    <3>1. CASE Identify(a)
      <4>1. PICK c \in DOMAIN rows :
              identify' = [identify EXCEPT ![a] = [at |-> "bind", id |-> c]]
        BY <3>1 DEF Identify, Attach, Exists, Keyed
      <4>2. [at |-> "bind", id |-> c] \in Call
        BY <1>1 DEF Call
      <4> QED BY <2>1, <4>1, <4>2
    <3>2. ASSUME NEW withCwd \in BOOLEAN, Bind(a, withCwd)
          PROVE  identify' \in [Agent -> Call]
      <4>1. CASE withCwd
        <5>1. identify[a] \in [at : {"bind", "associate"}, id : Id]
          BY <1>1, <3>2 DEF Bind, NoCall, Call
        <5>2. PICK call : call = [identify[a] EXCEPT !.at = "associate"]
          OBVIOUS
        <5>3. call \in Call
          BY <5>1, <5>2 DEF Call
        <5>4. identify' = [identify EXCEPT ![a] = call]
          BY <1>1, <3>2, <4>1, <5>2 DEF Bind
        <5> QED BY <2>1, <5>3, <5>4
      <4>2. CASE ~withCwd
        BY <1>2, <2>1, <3>2, <4>2 DEF Bind, Reply
      <4> QED BY <4>1, <4>2
    <3>3. CASE \/ \E inProject \in BOOLEAN : Connect(a, inProject)
               \/ Leave(a) \/ Associate(a) \/ IdentifyFails(a)
      <4>1. identify' = [identify EXCEPT ![a] = NoCall]
        BY <3>3 DEF Connect, Leave, Associate, IdentifyFails, Reply
      <4> QED BY <1>2, <2>1, <4>1
    <3> QED
      BY <2>2, <2>3, <3>1, <3>2, <3>3
      DEF AgentStep, BindToolUse, ResolveToolUse, Poll, JoinHandoff, Ask,
          ClaimProject, ApproveDiscard, DiscardSession
  <2>4. ASSUME NEW old, Pass(old) PROVE identify' \in [Agent -> Call]
    BY <1>2, <2>4 DEF Pass
  <2> QED
    BY <2>2, <2>3, <2>4
    DEF Next, PunctualNext, ForgetToolUse, Lapse, ReleaseProject, Reclaim, vars
<1>7. ASSUME NEW a \in Agent, Exists(transport[a]) PROVE transport[a] \in Id
  BY <1>1, <1>7 DEF Exists
<1>8. toolUse' \subseteq Agent
  <2>1. ASSUME NEW a \in Agent, AgentStep(a) PROVE toolUse' \subseteq toolUse \cup {a}
    BY <2>1
    DEF AgentStep, Connect, Leave, Identify, Bind, Associate, IdentifyFails,
        BindToolUse, ResolveToolUse, Poll, JoinHandoff, Ask, ClaimProject,
        ApproveDiscard, DiscardSession
  <2>2. toolUse' \subseteq toolUse \/ \E a \in Agent : AgentStep(a)
    BY DEF Next, PunctualNext, ForgetToolUse, Lapse, Pass, ReleaseProject,
       Reclaim, vars
  <2> QED BY <1>1, <2>1, <2>2
<1>9. /\ parties' \subseteq Id /\ asked' \subseteq Id
      /\ approved' \subseteq Id \X Id /\ claim' \in MaybeId
  <2>1. CASE UNCHANGED refs
    BY <1>1, <2>1 DEF refs
  <2>2. ASSUME NEW a \in Agent, AgentStep(a), ~UNCHANGED refs
        PROVE  /\ parties' \subseteq Id /\ asked' \subseteq Id
               /\ approved' \subseteq Id \X Id /\ claim' \in MaybeId
    <3>1. CASE JoinHandoff(a) \/ Ask(a)
      BY <1>1, <1>7, <3>1 DEF JoinHandoff, Ask
    <3>2. CASE \E force \in BOOLEAN : ClaimProject(a, force)
      BY <1>1, <1>2, <1>7, <3>2 DEF ClaimProject
    <3>3. ASSUME NEW t \in Id, ApproveDiscard(a, t)
          PROVE  /\ parties' \subseteq Id /\ asked' \subseteq Id
                 /\ approved' \subseteq Id \X Id /\ claim' \in MaybeId
      <4>1. transport[a] \in Id
        BY <1>7, <3>3 DEF ApproveDiscard, Commands, Held
      <4> QED BY <1>1, <3>3, <4>1 DEF ApproveDiscard
    <3> QED
      BY <2>2, <3>1, <3>2, <3>3
      DEF AgentStep, Connect, Leave, Identify, Bind, Associate, IdentifyFails,
          BindToolUse, ResolveToolUse, Poll, DiscardSession
  <2>3. CASE ReleaseProject
    BY <1>1, <1>2, <2>3 DEF ReleaseProject
  <2> QED
    BY <2>1, <2>2, <2>3
    DEF Next, PunctualNext, ForgetToolUse, Lapse, Pass, Reclaim, vars
<1>10. /\ DOMAIN rows' \subseteq Id
       /\ rows' \in [DOMAIN rows' -> Row]
  BY RowsTyped
<1> QED
  BY <1>4, <1>5, <1>6, <1>8, <1>9, <1>10 DEF IdTypes, IdentityTypeOK
-----------------------------------------------------------------------------
(* What makes a session one agent's                                        *)

\* The session of a transport is there, is the agent's or nobody's, and
\* neither the reclaim nor the retention takes it; while there is a transport,
\* an old row is one that handoffs name.
TransportsFit ==
  \A a \in Agent : transport[a] # 0 =>
    /\ Exists(transport[a])
    /\ ~rows[transport[a]].old
    /\ rows[transport[a]].key \in {None, a}
    /\ rows[transport[a]].key = None => rows[transport[a]].lease # "idle"
    /\ \A b \in Agent : a # b => transport[a] # transport[b]
    /\ \A i \in DOMAIN rows : rows[i].old => i \in parties

\* A session.identify goes on with a row that has the key of its agent.
CallsFit ==
  \A a \in Agent : identify[a] # NoCall =>
    /\ transport[a] # 0
    /\ identify[a].id \in Keyed(a)
    /\ ~rows[identify[a].id].old

\* One row has the key, and the monitor is bound to that one.
KeysFit ==
  \A a \in Agent :
    /\ \A i, j \in Keyed(a) : i = j
    /\ binding[a] \in Keyed(a) \cup {0}

\* What names a session.
RefsFit ==
  /\ parties \subseteq DOMAIN rows
  /\ claim # 0 => Exists(claim) /\ ~rows[claim].old
  /\ \A i \in DOMAIN rows :
       /\ rows[i].by # 0 => /\ rows[i].out = "revoked"
                            /\ Exists(rows[i].by) /\ ~rows[rows[i].by].old
       /\ rows[i].out = "revoked" /\ rows[i].old => i \in parties

IdInv == IdTypes /\ TransportsFit /\ CallsFit /\ KeysFit /\ RefsFit

LEMMA IdInvInit == Init => IdInv
<1> SUFFICES ASSUME Init PROVE IdInv
  OBVIOUS
<1>1. IdTypes /\ DOMAIN rows = {} /\ \A a \in Agent : Keyed(a) = {}
  BY IdTypesInit DEF Init, Keyed
<1>2. TransportsFit /\ CallsFit
  BY DEF Init, TransportsFit, CallsFit
<1>3. KeysFit /\ RefsFit
  BY <1>1 DEF Init, KeysFit, RefsFit
<1> QED BY <1>1, <1>2, <1>3 DEF IdInv

\* Zero is no id, and a key is not None.
LEMMA NoId == 0 \notin Id /\ None \notin Agent
BY AgentAssumption DEF Id

\* Most steps register nobody, give no key and revoke nobody.  Rows go that
\* nothing names, and the others are kept, ...
RowsKeptBut(gone) ==
  /\ DOMAIN rows' = DOMAIN rows \ gone
  /\ \A i \in DOMAIN rows' : KeptRow(i)
  /\ \A i \in gone \cap DOMAIN rows :
       /\ i \notin parties' /\ claim' # i
       /\ \A j \in DOMAIN rows : rows[j].by # i
       /\ \A a \in Agent : /\ transport'[a] # i
                           /\ binding'[a] # i
                           /\ identify'[a] # NoCall => identify'[a].id # i

\* ... transports close or move to the row of their agent, calls end, monitors
\* are bound to the row of their agent ...
CallsKept ==
  \A a \in Agent :
    /\ transport'[a] # 0 => transport[a] # 0
    /\ transport'[a] \in {0, transport[a]} \cup Keyed(a)
    /\ transport'[a] \in {0, transport[a]} \/ ~rows'[transport'[a]].old
    /\ identify'[a] # NoCall => /\ identify[a] # NoCall
                                /\ identify'[a].id = identify[a].id
                                /\ transport'[a] # 0
    /\ binding'[a] \in {0, binding[a]} \cup Keyed(a)

\* ... and what is named is the session of a transport.
NamesKept ==
  /\ claim' \in {0, claim} \cup {transport[a] : a \in Agent}
  /\ parties \subseteq parties'
  /\ parties' \subseteq parties \cup {transport[a] : a \in Agent}

LEMMA KeptFits ==
  ASSUME IdInv, IdTypes', NEW STATE gone,
         RowsKeptBut(gone), CallsKept, NamesKept
  PROVE  IdInv'
<1> USE DEF RowsKeptBut, CallsKept, NamesKept
<1> 0 \notin parties'
  BY NoId DEF IdTypes, IdentityTypeOK
<1>1. TransportsFit'
  <2> SUFFICES ASSUME NEW a \in Agent, transport'[a] # 0
               PROVE  /\ Exists(transport[a])'
                      /\ ~rows'[transport'[a]].old
                      /\ rows'[transport'[a]].key \in {None, a}
                      /\ rows'[transport'[a]].key = None => rows'[transport'[a]].lease # "idle"
                      /\ \A b \in Agent : a # b => transport'[a] # transport'[b]
                      /\ \A i \in DOMAIN rows' : rows'[i].old => i \in parties'
    BY DEF TransportsFit
  <2>1. transport[a] # 0
    OBVIOUS
  <2>2. \A b \in Agent : transport'[b] # 0 =>
          /\ transport'[b] \in DOMAIN rows'
          /\ transport'[b] = transport[b] \/ rows[transport'[b]].key = b
    BY DEF IdInv, TransportsFit, Exists, Keyed
  <2>3. ~rows'[transport'[a]].old
    BY <2>1, <2>2 DEF IdInv, TransportsFit, KeptRow
  <2>4. /\ rows'[transport'[a]].key \in {None, a}
        /\ rows'[transport'[a]].key = None => rows'[transport'[a]].lease # "idle"
    BY <2>1, <2>2, NoId DEF IdInv, TransportsFit, KeptRow
  <2>5. ASSUME NEW b \in Agent, a # b PROVE transport'[a] # transport'[b]
    <3> SUFFICES ASSUME transport'[a] = transport'[b] PROVE FALSE
      OBVIOUS
    <3>1. transport[b] # 0
      OBVIOUS
    <3>2. rows[transport[a]].key \in {None, a} /\ rows[transport[b]].key \in {None, b}
      BY <2>1, <3>1 DEF IdInv, TransportsFit
    <3>3. transport[a] # transport[b]
      BY <2>1, <2>5 DEF IdInv, TransportsFit
    <3> QED BY <2>2, <2>5, <3>2, <3>3, NoId
  <2>6. \A i \in DOMAIN rows' : rows'[i].old => i \in parties'
    BY <2>1 DEF IdInv, TransportsFit, KeptRow
  <2> QED BY <2>2, <2>3, <2>4, <2>5, <2>6 DEF Exists
<1>2. CallsFit'
  BY DEF IdInv, CallsFit, KeptRow, Keyed
<1>3. KeysFit'
  BY DEF IdInv, KeysFit, KeptRow, Keyed
<1>4. parties' \subseteq DOMAIN rows'
  BY DEF IdInv, RefsFit, TransportsFit, Exists
<1>5. claim' # 0 => Exists(claim)' /\ ~rows'[claim'].old
  <2> SUFFICES ASSUME claim' # 0 PROVE claim' \in DOMAIN rows' /\ ~rows'[claim'].old
    BY DEF Exists
  <2>1. claim' \in DOMAIN rows /\ ~rows[claim'].old
    BY DEF IdInv, RefsFit, TransportsFit, Exists
  <2> QED BY <2>1 DEF KeptRow
<1>6. ASSUME NEW i \in DOMAIN rows'
      PROVE  /\ rows'[i].by # 0 => /\ rows'[i].out = "revoked"
                                   /\ Exists(rows[i].by)'
                                   /\ ~rows'[rows'[i].by].old
             /\ rows'[i].out = "revoked" /\ rows'[i].old => i \in parties'
  BY DEF IdInv, RefsFit, KeptRow, Exists
<1>7. RefsFit'
  BY <1>4, <1>5, <1>6 DEF RefsFit
<1> QED BY <1>1, <1>2, <1>3, <1>7 DEF IdInv

\* The steps that delete no row, and those that write none.
LEMMA AllKeptFits ==
  ASSUME IdInv, IdTypes', DOMAIN rows' = DOMAIN rows,
         \A i \in DOMAIN rows : KeptRow(i), CallsKept, NamesKept
  PROVE  IdInv'
<1>1. RowsKeptBut({})
  BY DEF RowsKeptBut
<1> QED BY <1>1, KeptFits

LEMMA QuietFits ==
  ASSUME IdInv, IdTypes', UNCHANGED rows, CallsKept, NamesKept
  PROVE  IdInv'
<1>1. IdTypes
  BY DEF IdInv
<1> QED BY <1>1, NoRow, AllKeptFits

\* A call that ends, or a transport that closes.
LEMMA CallEnds ==
  ASSUME IdInv, IdTypes', NEW a \in Agent,
         Leave(a) \/ IdentifyFails(a) \/ BindToolUse(a) \/ JoinHandoff(a) \/ Ask(a)
         \/ \E t \in Id : ApproveDiscard(a, t)
  PROVE  IdInv'
<1>1. /\ transport \in [Agent -> MaybeId]
      /\ identify \in [Agent -> Call]
      /\ parties \subseteq Id
      /\ parties' \subseteq Id
  BY DEF IdInv, IdTypes, IdentityTypeOK
<1>2. /\ UNCHANGED <<rows, binding, claim>>
      /\ parties \subseteq parties' /\ parties' \subseteq parties \cup {transport[a]}
  BY DEF Leave, IdentifyFails, BindToolUse, JoinHandoff, Ask, ApproveDiscard, refs
<1>3. /\ \A b \in Agent : /\ transport'[b] \in {0, transport[b]}
                          /\ identify'[b] \in {NoCall, identify[b]}
      /\ \/ transport' = transport
         \/ identify'[a] = NoCall /\ transport' = [transport EXCEPT ![a] = 0]
  BY <1>1 DEF Leave, IdentifyFails, BindToolUse, JoinHandoff, Ask, ApproveDiscard
<1>4. \A b \in Agent : identify'[b] # NoCall => transport'[b] # 0
  BY <1>1, <1>3 DEF IdInv, CallsFit
<1>5. CallsKept /\ NamesKept
  BY <1>2, <1>3, <1>4 DEF CallsKept, NamesKept
<1> QED BY <1>2, <1>5, QuietFits

\* BindMonitorToken.
LEMMA BindFits ==
  ASSUME IdInv, IdTypes', NEW a \in Agent, NEW withCwd \in BOOLEAN, Bind(a, withCwd)
  PROVE  IdInv'
<1> DEFINE c == identify[a].id
<1>1. /\ transport \in [Agent -> MaybeId]
      /\ identify \in [Agent -> Call]
      /\ binding \in [Agent -> MaybeId]
      /\ parties \subseteq Id
  BY DEF IdInv, IdTypes, IdentityTypeOK
<1>2. /\ c \in Keyed(a) /\ transport[a] # 0
      /\ ~rows[c].old
      /\ c \in Id
  BY DEF Bind, IdInv, CallsFit, NoCall, Keyed, IdTypes, IdentityTypeOK
<1>3. /\ \A b \in Agent : binding'[b] \in {binding[b]} \cup Keyed(b)
      /\ UNCHANGED <<rows, claim, parties>>
  BY <1>1, <1>2 DEF Bind, refs
<1>4. \A b \in Agent : /\ transport'[b] = transport[b] \/ (b = a /\ transport'[b] = c)
                       /\ identify'[b] # NoCall => /\ identify[b] # NoCall
                                                   /\ identify'[b].id = identify[b].id
  <2>1. CASE ~withCwd
    BY <1>1, <2>1 DEF Bind, Reply
  <2>2. CASE withCwd
    <3>1. identify[a] # NoCall /\ identify[a] \in [at : {"bind", "associate"}, id : Id]
      BY <1>1 DEF Bind, NoCall, Call
    <3>2. identify'[a] = [identify[a] EXCEPT !.at = "associate"]
      BY <1>1, <2>2 DEF Bind
    <3>3. identify'[a].id = identify[a].id
      BY <3>1, <3>2
    <3>4. transport' = transport /\ \A b \in Agent : b # a => identify'[b] = identify[b]
      BY <1>1, <2>2 DEF Bind
    <3> QED BY <3>1, <3>3, <3>4
  <2> QED BY <2>1, <2>2
<1>5. CallsKept /\ NamesKept
  BY <1>2, <1>3, <1>4, NoId DEF IdInv, CallsFit, CallsKept, NamesKept
<1> QED BY <1>3, <1>5, QuietFits

\* With a transport there is nothing for the retention to delete.
LEMMA NothingExpires ==
  ASSUME IdInv, NEW a \in Agent, transport[a] # 0, NEW except
  PROVE  Expired(except) = {}
BY DEF IdInv, TransportsFit, Expired

\* ensureAgentSessionProject.
LEMMA ProjectSet ==
  ASSUME IdInv, NEW c \in DOMAIN rows, NEW gone, gone = {},
         rows' = Without([rows EXCEPT ![c].project = TRUE], gone),
         binding' = Unbound(gone)
  PROVE  /\ DOMAIN rows' = DOMAIN rows
         /\ \A i \in DOMAIN rows : KeptRow(i)
         /\ UNCHANGED binding
<1>1. rows \in [DOMAIN rows -> Row] /\ binding \in [Agent -> MaybeId]
  BY DEF IdInv, IdTypes, IdentityTypeOK
<1>2. PICK r : r = [rows EXCEPT ![c].project = TRUE]
  OBVIOUS
<1>3. DOMAIN r = DOMAIN rows /\ r = [i \in DOMAIN r |-> r[i]]
  BY <1>1, <1>2
<1>4. rows' = r
  BY <1>2, <1>3 DEF Without
<1>5. UNCHANGED binding
  BY <1>1 DEF Unbound
<1>6. OneRow(c) /\ \A i \in DOMAIN rows : KeptRow(i)
  BY <1>2, <1>4, OneColumn DEF IdInv
<1> QED BY <1>5, <1>6 DEF OneRow

LEMMA AssociateFits ==
  ASSUME IdInv, IdTypes', NEW a \in Agent,
         Associate(a) \/ \E force \in BOOLEAN : ClaimProject(a, force)
  PROVE  IdInv'
<1>1. /\ transport \in [Agent -> MaybeId]
      /\ identify \in [Agent -> Call]
      /\ parties \subseteq Id
      /\ \A i \in DOMAIN rows : i # 0
  BY NoId DEF IdInv, IdTypes, IdentityTypeOK
<1>2. CASE Associate(a)
  <2> DEFINE c == identify[a].id
  <2>1. /\ c \in Keyed(a) /\ transport[a] # 0
        /\ ~rows[c].old
        /\ c \in Id /\ c \in DOMAIN rows
    BY <1>2 DEF Associate, IdInv, CallsFit, NoCall, Keyed, IdTypes, IdentityTypeOK
  <2>2. /\ DOMAIN rows' = DOMAIN rows
        /\ \A i \in DOMAIN rows : KeptRow(i)
        /\ UNCHANGED binding
    <3>1. \A e : Expired(e) = {}
      BY <2>1, NothingExpires
    <3> QED BY <1>2, <2>1, <3>1, ProjectSet DEF Associate
  <2>3. \A b \in Agent : /\ transport'[b] = transport[b] \/ (b = a /\ transport'[b] = c)
                         /\ identify'[b] # NoCall => b # a /\ identify'[b] = identify[b]
    BY <1>1, <1>2 DEF Associate, Reply
  <2>4. CallsKept
    BY <2>1, <2>2, <2>3, NoId DEF IdInv, CallsFit, KeptRow, CallsKept
  <2>5. NamesKept
    BY <1>2 DEF Associate, refs, NamesKept
  <2> QED BY <2>2, <2>4, <2>5, AllKeptFits
<1>3. ASSUME NEW force \in BOOLEAN, ClaimProject(a, force) PROVE IdInv'
  <2>1. transport[a] \in DOMAIN rows /\ transport[a] # 0
    BY <1>1, <1>3 DEF ClaimProject, Exists
  <2>2. /\ DOMAIN rows' = DOMAIN rows
        /\ \A i \in DOMAIN rows : KeptRow(i)
        /\ UNCHANGED binding
    <3>1. \A e : Expired(e) = {}
      BY <2>1, NothingExpires
    <3> QED BY <1>3, <2>1, <3>1, ProjectSet DEF ClaimProject
  <2>3. UNCHANGED <<transport, identify, parties>> /\ claim' = transport[a]
    BY <1>3 DEF ClaimProject
  <2>4. CallsKept /\ NamesKept
    BY <2>2, <2>3 DEF IdInv, CallsFit, CallsKept, NamesKept
  <2> QED BY <2>2, <2>4, AllKeptFits
<1> QED BY <1>2, <1>3

\* Leases, the tool calls and the project claim.
LEMMA SmallStepFits ==
  ASSUME IdInv, IdTypes',
         \/ \E a \in Agent : Poll(a)
         \/ \E i \in Id : Lapse(i)
         \/ ForgetToolUse
         \/ ReleaseProject
         \/ UNCHANGED vars
  PROVE  IdInv'
<1>1. CallsKept /\ NamesKept
  BY DEF Poll, Lapse, ForgetToolUse, ReleaseProject, vars, refs, IdInv, CallsFit,
     CallsKept, NamesKept
<1>2. CASE UNCHANGED rows
  BY <1>1, <1>2, QuietFits
<1>3. ASSUME NEW c \in DOMAIN rows,
             \/ rows' = [rows EXCEPT ![c].lease = "held"]
             \/ rows' = [rows EXCEPT ![c].lease = "lapsed"]
      PROVE  IdInv'
  <2>1. OneRow(c) /\ \A i \in DOMAIN rows : KeptRow(i)
    BY <1>3, OneColumn DEF IdInv
  <2> QED BY <1>1, <2>1, AllKeptFits DEF OneRow
<1>4. ASSUME NEW a \in Agent, Poll(a) PROVE IdInv'
  <2>1. binding[a] \in DOMAIN rows
    BY <1>4 DEF Poll, IdInv, KeysFit, Keyed
  <2> QED BY <1>3, <1>4, <2>1 DEF Poll
<1>5. ASSUME NEW i \in Id, Lapse(i) PROVE IdInv'
  BY <1>3, <1>5 DEF Lapse, Exists
<1>6. ForgetToolUse \/ ReleaseProject \/ UNCHANGED vars => UNCHANGED rows
  BY DEF ForgetToolUse, ReleaseProject, vars
<1> QED BY <1>2, <1>4, <1>5, <1>6

LEMMA ResolveFits ==
  ASSUME IdInv, IdTypes', NEW a \in Agent, ResolveToolUse(a)
  PROVE  IdInv'
<1>1. /\ transport \in [Agent -> MaybeId]
      /\ UNCHANGED <<identify, binding, claim, parties>>
      /\ transport[a] # 0 /\ identify[a] = NoCall
  BY DEF ResolveToolUse, refs, IdInv, IdTypes, IdentityTypeOK
<1>2. CASE UNCHANGED <<rows, transport>>
  <2>1. CallsKept /\ NamesKept
    BY <1>1, <1>2 DEF CallsKept, NamesKept, IdInv, CallsFit
  <2> QED BY <1>2, <2>1, QuietFits
<1>3. CASE ~UNCHANGED <<rows, transport>>
  <2>1. PICK c \in Keyed(a) : /\ rows' = [rows EXCEPT ![c].old = FALSE]
                              /\ transport' = [transport EXCEPT ![a] = c]
    BY <1>3 DEF ResolveToolUse
  <2>2. c \in DOMAIN rows
    BY DEF Keyed
  <2>3. /\ DOMAIN rows' = DOMAIN rows
        /\ \A i \in DOMAIN rows : KeptRow(i)
        /\ rows'[c].old = FALSE
    BY <2>1, <2>2, OneColumn, TouchedRow DEF IdInv, OneRow
  <2>4. CallsKept
    BY <1>1, <2>1, <2>3 DEF CallsKept, IdInv, CallsFit
  <2>5. NamesKept
    BY <1>1 DEF NamesKept
  <2> QED BY <2>3, <2>4, <2>5, AllKeptFits
<1> QED BY <1>2, <1>3

\* session.identify: the key goes to the row that has it, or to a row nobody's
\* key is on, which is the one of the transport.
LEMMA IdentifyFits ==
  ASSUME IdInv, IdTypes', NEW a \in Agent, Identify(a)
  PROVE  IdInv'
<1>1. /\ transport \in [Agent -> MaybeId]
      /\ identify \in [Agent -> Call]
      /\ DOMAIN rows \subseteq Id
  BY DEF IdInv, IdTypes, IdentityTypeOK
<1>2. PICK c \in DOMAIN rows :
        /\ IF Keyed(a) = {} THEN c = transport[a] ELSE c \in Keyed(a)
        /\ rows' = [rows EXCEPT ![c].key = a, ![c].old = FALSE]
        /\ identify' = [identify EXCEPT ![a] = [at |-> "bind", id |-> c]]
  <2>1. CASE Keyed(a) = {}
    BY <2>1 DEF Identify, Attach, Exists
  <2>2. CASE Keyed(a) # {}
    <3>1. (CHOOSE k \in Keyed(a) : TRUE) \in Keyed(a)
      BY <2>2
    <3>2. Keyed(a) \subseteq DOMAIN rows
      BY DEF Keyed
    <3> QED BY <2>2, <3>1, <3>2 DEF Identify, Attach
  <2> QED BY <2>1, <2>2
<1>3. /\ OneRow(c)
      /\ rows'[c].key = a
      /\ rows'[c].old = FALSE
      /\ rows'[c].out = rows[c].out
      /\ rows'[c].by = rows[c].by
      /\ rows'[c].lease = rows[c].lease
  BY <1>2, AttachWrites DEF IdInv
<1>4. /\ UNCHANGED <<transport, binding, parties, claim>>
      /\ transport[a] # 0
  BY DEF Identify, refs
<1>5. rows[c].key \in {None, a}
  BY <1>2, <1>4 DEF IdInv, TransportsFit, Keyed
<1>6. \A b \in Agent : b # a => transport[b] # c \/ transport[b] = 0
  BY <1>2, <1>4, NoId DEF IdInv, TransportsFit, Keyed
<1>7. \A b \in Agent : Keyed(b)' = IF b = a THEN {c} ELSE Keyed(b)
  <2>1. Keyed(a)' = {c}
    BY <1>2, <1>3 DEF OneRow, Keyed, IdInv, KeysFit
  <2>2. ASSUME NEW b \in Agent, b # a PROVE Keyed(b)' = Keyed(b)
    BY <1>3, <1>5, <2>2, NoId DEF OneRow, Keyed
  <2> QED BY <2>1, <2>2
<1>8. TransportsFit'
  BY <1>3, <1>4, <1>5, <1>6, NoId DEF IdInv, TransportsFit, OneRow, Exists
<1>9. CallsFit'
  <2> SUFFICES ASSUME NEW b \in Agent, identify'[b] # NoCall
               PROVE  /\ transport'[b] # 0
                      /\ identify'[b].id \in Keyed(b)'
                      /\ ~rows'[identify'[b].id].old
    BY DEF CallsFit
  <2>1. CASE b = a
    <3>1. identify'[a].id = c
      BY <1>1, <1>2
    <3> QED BY <1>3, <1>4, <1>7, <2>1, <3>1
  <2>2. CASE b # a
    <3>1. identify'[b] = identify[b]
      BY <1>1, <1>2, <2>2
    <3>2. identify[b].id \in Keyed(b) /\ ~rows[identify[b].id].old /\ transport[b] # 0
      BY <3>1 DEF IdInv, CallsFit
    <3>3. identify[b].id # c
      BY <1>5, <2>2, <3>2, NoId DEF Keyed
    <3>4. rows'[identify[b].id] = rows[identify[b].id]
      BY <1>3, <3>2, <3>3 DEF OneRow, Keyed
    <3> QED BY <1>4, <1>7, <2>2, <3>1, <3>2, <3>4
  <2> QED BY <2>1, <2>2
<1>10. KeysFit'
  BY <1>2, <1>4, <1>7 DEF IdInv, KeysFit
<1>11. RefsFit'
  <2>1. \A i \in DOMAIN rows : /\ rows'[i].by = rows[i].by
                               /\ rows'[i].out = rows[i].out
                               /\ rows'[i].old => rows[i].old
    BY <1>3 DEF OneRow
  <2> QED BY <1>3, <1>4, <2>1 DEF IdInv, RefsFit, OneRow, Exists
<1> QED BY <1>8, <1>9, <1>10, <1>11 DEF IdInv

\* run.register: a new id for the transport, and the retention.
LEMMA ConnectFits ==
  ASSUME IdInv, IdTypes', NEW a \in Agent, NEW inProject \in BOOLEAN,
         Connect(a, inProject)
  PROVE  IdInv'
<1> DEFINE n == NextId
           gone == Expired(n)
<1>1. /\ transport \in [Agent -> MaybeId]
      /\ identify \in [Agent -> Call]
      /\ binding \in [Agent -> MaybeId]
      /\ DOMAIN rows \subseteq Id
  BY DEF IdInv, IdTypes, IdentityTypeOK
<1>2. n \notin DOMAIN rows /\ n \in Id /\ n # 0
  BY <1>1, NextIdIsNew, NoId DEF Connect
<1>3. PICK new \in Row :
        /\ new.key = None /\ new.lease = "held" /\ new.old = FALSE
        /\ new.out = "no" /\ new.by = 0
        /\ rows' = [i \in (DOMAIN rows \ gone) \cup {n} |-> IF i = n THEN new ELSE rows[i]]
  BY NewRow DEF Connect
<1>4. /\ transport' = [transport EXCEPT ![a] = n]
      /\ identify' = [identify EXCEPT ![a] = NoCall]
      /\ binding' = Unbound(gone)
      /\ UNCHANGED <<parties, claim>>
  BY DEF Connect, refs
<1>5. \A i \in gone : /\ i \in DOMAIN rows /\ rows[i].old
                      /\ i \notin parties
                      /\ \A j \in DOMAIN rows : rows[j].by # i
  BY DEF Expired
<1>6. ASSUME NEW i \in DOMAIN rows, rows[i].old PROVE i \in gone \cup parties
  <2>1. i # 0 /\ i # n
    BY <1>1, <1>2, NoId
  <2>2. \A j \in DOMAIN rows : rows[j].by # i
    BY <1>6, <2>1 DEF IdInv, RefsFit
  <2> QED BY <1>6, <2>1, <2>2 DEF Expired
<1> HIDE DEF n, gone
<1>7. /\ DOMAIN rows' = (DOMAIN rows \ gone) \cup {n}
      /\ rows'[n] = new
      /\ \A i \in DOMAIN rows' : i # n => i \in DOMAIN rows /\ rows'[i] = rows[i]
  BY <1>2, <1>3
<1>8. \A b \in Agent : Keyed(b)' = Keyed(b) \ gone
  BY <1>2, <1>3, <1>7, NoId DEF Keyed
<1>9. TransportsFit'
  <2> SUFFICES ASSUME NEW b \in Agent, transport'[b] # 0
               PROVE  /\ transport'[b] \in DOMAIN rows'
                      /\ ~rows'[transport'[b]].old
                      /\ rows'[transport'[b]].key \in {None, b}
                      /\ rows'[transport'[b]].key = None => rows'[transport'[b]].lease # "idle"
                      /\ \A d \in Agent : b # d => transport'[b] # transport'[d]
                      /\ \A i \in DOMAIN rows' : rows'[i].old => i \in parties'
    BY DEF TransportsFit, Exists
  <2>1. \A d \in Agent : transport'[d] = IF d = a THEN n ELSE transport[d]
    BY <1>1, <1>4
  <2>2. \A d \in Agent : transport[d] # 0 =>
          /\ transport[d] \in DOMAIN rows' /\ transport[d] # n
          /\ rows'[transport[d]] = rows[transport[d]]
    BY <1>2, <1>5, <1>7 DEF IdInv, TransportsFit, Exists
  <2>3. \A i \in DOMAIN rows' : rows'[i].old => i \in parties'
    BY <1>3, <1>4, <1>6, <1>7
  <2>4. \A d \in Agent : b # d => transport'[b] # transport'[d]
    BY <1>2, <2>1, <2>2 DEF IdInv, TransportsFit
  <2>5. CASE b = a
    BY <1>3, <1>7, <2>1, <2>3, <2>4, <2>5
  <2>6. CASE b # a
    BY <2>1, <2>2, <2>3, <2>4, <2>6 DEF IdInv, TransportsFit
  <2> QED BY <2>5, <2>6
<1>10. CallsFit'
  <2> SUFFICES ASSUME NEW b \in Agent, identify'[b] # NoCall
               PROVE  /\ transport'[b] # 0
                      /\ identify'[b].id \in Keyed(b)'
                      /\ ~rows'[identify'[b].id].old
    BY DEF CallsFit
  <2>1. b # a /\ identify'[b] = identify[b] /\ transport'[b] = transport[b]
    BY <1>1, <1>4
  <2>2. identify[b].id \in Keyed(b) /\ ~rows[identify[b].id].old /\ transport[b] # 0
    BY <2>1 DEF IdInv, CallsFit
  <2>3. identify[b].id \notin gone /\ identify[b].id \in DOMAIN rows
    BY <1>5, <2>2 DEF Keyed
  <2> QED BY <1>2, <1>7, <1>8, <2>1, <2>2, <2>3
<1>11. KeysFit'
  <2>1. \A b \in Agent : binding'[b] \in Keyed(b)' \cup {0}
    BY <1>4, <1>8 DEF Unbound, IdInv, KeysFit
  <2> QED BY <1>8, <2>1 DEF IdInv, KeysFit
<1>12. RefsFit'
  <2>1. parties' \subseteq DOMAIN rows'
    BY <1>4, <1>5, <1>7 DEF IdInv, RefsFit
  <2>2. claim' # 0 => Exists(claim)' /\ ~rows'[claim'].old
    BY <1>2, <1>4, <1>5, <1>7 DEF IdInv, RefsFit, Exists
  <2>3. ASSUME NEW i \in DOMAIN rows'
        PROVE  /\ rows'[i].by # 0 => /\ rows'[i].out = "revoked"
                                     /\ Exists(rows[i].by)'
                                     /\ ~rows'[rows'[i].by].old
               /\ rows'[i].out = "revoked" /\ rows'[i].old => i \in parties'
    <3>1. CASE i = n
      BY <1>3, <1>7, <3>1
    <3>2. CASE i # n
      BY <1>2, <1>4, <1>5, <1>7, <3>2 DEF IdInv, RefsFit, Exists
    <3> QED BY <3>1, <3>2
  <2> QED BY <2>1, <2>2, <2>3 DEF RefsFit
<1> QED BY <1>9, <1>10, <1>11, <1>12 DEF IdInv

\* A day, or a month with nobody there.
LEMMA PassFits ==
  ASSUME IdInv, IdTypes', NEW old \in BOOLEAN, Pass(old),
         old => Quiet, ~old => Punctual
  PROVE  IdInv'
<1>1. PICK polled :
        rows' = [i \in DOMAIN rows |->
                   [rows[i] EXCEPT !.lease = IF i \in polled THEN "held" ELSE "idle",
                                   !.old = @ \/ old]]
  BY DEF Pass
<1>2. ASSUME NEW i \in DOMAIN rows
      PROVE  /\ rows'[i].key = rows[i].key
             /\ rows'[i].out = rows[i].out
             /\ rows'[i].by = rows[i].by
             /\ rows'[i].old = (rows[i].old \/ old)
  <2>1. rows[i] \in Row
    BY DEF IdInv, IdTypes
  <2>2. rows'[i] = [rows[i] EXCEPT !.lease = IF i \in polled THEN "held" ELSE "idle",
                                   !.old = @ \/ old]
    BY <1>1
  <2> QED BY <2>1, <2>2 DEF Row
<1>3. /\ DOMAIN rows' = DOMAIN rows
      /\ UNCHANGED <<transport, binding, parties, claim>>
      /\ \A a \in Agent : identify'[a] = NoCall
  BY <1>1 DEF Pass, refs
<1>4. \A a \in Agent : Keyed(a)' = Keyed(a)
  BY <1>2, <1>3 DEF Keyed
<1>5. CallsFit' /\ KeysFit'
  BY <1>3, <1>4 DEF IdInv, CallsFit, KeysFit
<1>6. TransportsFit'
  <2>1. CASE old
    BY <1>3, <2>1 DEF Quiet, TransportsFit
  <2>2. CASE ~old
    <3>1. \A a \in Agent : transport[a] # 0 => rows[transport[a]].key = a
      BY <2>2 DEF Punctual, Keyed
    <3>2. \A i \in DOMAIN rows : rows'[i].key = rows[i].key /\ rows'[i].old = rows[i].old
      BY <1>2, <2>2 DEF IdInv, IdTypes, Row
    <3> QED
      BY <1>3, <3>1, <3>2, NoId DEF IdInv, TransportsFit, Exists
  <2> QED BY <2>1, <2>2
<1>7. RefsFit'
  <2>1. CASE old
    <3>1. claim = 0 /\ \A i \in DOMAIN rows : rows[i].out # "revoked" /\ rows[i].by = 0
      BY <2>1 DEF Quiet, IdInv, RefsFit
    <3> QED BY <1>2, <1>3, <3>1 DEF IdInv, RefsFit
  <2>2. CASE ~old
    <3>1. \A i \in DOMAIN rows : /\ rows'[i].by = rows[i].by
                                 /\ rows'[i].out = rows[i].out
                                 /\ rows'[i].old = rows[i].old
      BY <1>2, <2>2 DEF IdInv, IdTypes, Row
    <3> QED BY <1>3, <3>1 DEF IdInv, RefsFit, Exists
  <2> QED BY <2>1, <2>2
<1> QED BY <1>5, <1>6, <1>7 DEF IdInv

\* A commander revokes a session.
LEMMA DiscardFits ==
  ASSUME IdInv, IdTypes', NEW a \in Agent, NEW t \in Id, DiscardSession(a, t)
  PROVE  IdInv'
<1>1. /\ transport \in [Agent -> MaybeId]
      /\ t \in DOMAIN rows
      /\ transport[a] \in DOMAIN rows
      /\ DOMAIN rows \subseteq Id
      /\ UNCHANGED <<transport, identify, binding, parties, claim>>
  BY DEF DiscardSession, Exists, Commands, Held, refs, IdInv, IdTypes, IdentityTypeOK
<1>2. /\ OneRow(t)
      /\ rows'[t].out = "revoked"
      /\ rows'[t].by = transport[a]
      /\ rows'[t].key = rows[t].key
      /\ rows'[t].old = rows[t].old
      /\ rows'[t].lease = rows[t].lease
  BY <1>1, RevokeWrites DEF DiscardSession, IdInv
<1>3. \A i \in DOMAIN rows : /\ rows'[i].key = rows[i].key
                             /\ rows'[i].old = rows[i].old
                             /\ rows'[i].lease = rows[i].lease
  BY <1>2 DEF OneRow
<1>4. \A b \in Agent : Keyed(b)' = Keyed(b)
  BY <1>2, <1>3 DEF Keyed, OneRow
<1>5. CallsFit' /\ KeysFit'
  BY <1>1, <1>3, <1>4 DEF IdInv, CallsFit, KeysFit, Keyed
<1>6. TransportsFit'
  BY <1>1, <1>2, <1>3 DEF IdInv, TransportsFit, OneRow, Exists
<1>7. transport[a] # 0 /\ ~rows[transport[a]].old
      /\ \A i \in DOMAIN rows : rows[i].old => i \in parties
  BY <1>1, NoId DEF IdInv, TransportsFit
<1>8. RefsFit'
  <2>1. ASSUME NEW i \in DOMAIN rows'
        PROVE  /\ rows'[i].by # 0 => /\ rows'[i].out = "revoked"
                                     /\ Exists(rows[i].by)'
                                     /\ ~rows'[rows'[i].by].old
               /\ rows'[i].out = "revoked" /\ rows'[i].old => i \in parties'
    <3>1. CASE i = t
      BY <1>1, <1>2, <1>3, <1>7, <3>1 DEF OneRow, Exists
    <3>2. CASE i # t
      BY <1>1, <1>2, <1>3, <1>7, <3>2 DEF OneRow, Exists, IdInv, RefsFit
    <3> QED BY <3>1, <3>2
  <2> QED BY <1>1, <1>2, <1>3, <2>1 DEF IdInv, RefsFit, OneRow, Exists
<1> QED BY <1>5, <1>6, <1>8 DEF IdInv

\* The reclaim takes what nothing names.
LEMMA ReclaimFits ==
  ASSUME IdInv, IdTypes', Reclaim
  PROVE  IdInv'
<1>1. PICK out \in Some({i \in DOMAIN rows : Discardable(i)}, Budget) :
      \E gone \in Some({i \in DOMAIN rows : Deletable(i)}, Budget - Cardinality(out)) :
      \E dead \in SUBSET {a \in Agent : binding[a] # 0 /\ Discarded(binding[a])} :
        /\ rows' = Without([i \in DOMAIN rows |->
                              IF i \in out THEN [rows[i] EXCEPT !.out = "reclaimed"]
                              ELSE rows[i]], gone)
        /\ binding' = [a \in Agent |-> IF a \in dead THEN 0 ELSE Unbound(gone)[a]]
  BY DEF Reclaim
<1>2. PICK gone \in Some({i \in DOMAIN rows : Deletable(i)}, Budget - Cardinality(out)),
           dead \in SUBSET {a \in Agent : binding[a] # 0 /\ Discarded(binding[a])} :
        /\ rows' = Without([i \in DOMAIN rows |->
                              IF i \in out THEN [rows[i] EXCEPT !.out = "reclaimed"]
                              ELSE rows[i]], gone)
        /\ binding' = [a \in Agent |-> IF a \in dead THEN 0 ELSE Unbound(gone)[a]]
  BY <1>1
<1>3. /\ gone \subseteq {i \in DOMAIN rows : Deletable(i)}
      /\ out \subseteq {i \in DOMAIN rows : Discardable(i)}
  BY DEF Some
<1>4. /\ \A i \in DOMAIN rows : rows[i] \in Row
      /\ \A i \in DOMAIN rows : i # 0
      /\ UNCHANGED <<transport, identify, parties, claim>>
  BY NoId DEF IdInv, IdTypes, IdentityTypeOK, Reclaim, refs
<1>5. rows' = [i \in DOMAIN rows \ gone |->
                 IF i \in out THEN [rows[i] EXCEPT !.out = "reclaimed"] ELSE rows[i]]
  BY <1>2 DEF Without
<1>6. ASSUME NEW i \in DOMAIN rows' PROVE KeptRow(i)
  <2>1. i \in DOMAIN rows /\ rows[i] \in Row
    BY <1>4, <1>5
  <2>2. CASE i \notin out
    BY <1>5, <2>1, <2>2 DEF KeptRow
  <2>3. CASE i \in out
    <3>1. rows[i].out = "no"
      BY <1>3, <2>1, <2>3 DEF Discardable, Discarded
    <3>2. rows'[i] = [rows[i] EXCEPT !.out = "reclaimed"]
      BY <1>5, <2>3
    <3> QED BY <2>1, <3>1, <3>2 DEF KeptRow, Row
  <2> QED BY <2>2, <2>3
<1>7. \A a \in Agent : /\ binding'[a] \in {0, binding[a]}
                       /\ binding'[a] \notin gone
  <2>1. 0 \notin gone
    BY <1>3, <1>4
  <2>2. \A a \in Agent : Unbound(gone)[a] \in {0, binding[a]} \ gone
    BY <2>1 DEF Unbound
  <2> QED BY <1>2, <2>1, <2>2
<1>8. ASSUME NEW i \in gone
      PROVE  /\ i \in DOMAIN rows
             /\ rows[i].key = None /\ rows[i].lease = "idle"
             /\ i \notin parties /\ claim # i
             /\ \A j \in DOMAIN rows : rows[j].by # i
  BY <1>3 DEF Deletable, Idle, Protected, Named
<1>9. RowsKeptBut(gone)
  <2>1. DOMAIN rows' = DOMAIN rows \ gone
    BY <1>5
  <2>2. ASSUME NEW i \in gone, NEW a \in Agent
        PROVE  /\ transport[a] # i
               /\ identify[a] # NoCall => identify[a].id # i
    BY <1>4, <1>8, NoId DEF IdInv, TransportsFit, CallsFit, Keyed
  <2> QED BY <1>4, <1>6, <1>7, <1>8, <2>1, <2>2 DEF RowsKeptBut
<1>10. CallsKept /\ NamesKept
  BY <1>4, <1>7 DEF CallsKept, NamesKept, IdInv, CallsFit
<1> QED BY <1>9, <1>10, KeptFits

LEMMA IdInvStep == IdInv /\ [PunctualNext]_vars => IdInv'
<1> SUFFICES ASSUME IdInv, [PunctualNext]_vars PROVE IdInv'
  OBVIOUS
<1>1. IdTypes'
  BY IdTypesStep DEF IdInv, Next
<1>2. ASSUME NEW a \in Agent, AgentStep(a) PROVE IdInv'
  BY <1>1, <1>2, ConnectFits, IdentifyFits, BindFits, AssociateFits, ResolveFits,
     SmallStepFits, CallEnds, DiscardFits
  DEF AgentStep
<1>3. CASE \/ ForgetToolUse \/ ReleaseProject \/ UNCHANGED vars
           \/ \E i \in Id : Lapse(i)
  BY <1>1, <1>3, SmallStepFits
<1>4. CASE (Punctual /\ Pass(FALSE)) \/ (Quiet /\ Pass(TRUE))
  BY <1>1, <1>4, PassFits
<1> QED
  BY <1>1, <1>2, <1>3, <1>4, ReclaimFits DEF PunctualNext

LEMMA IdInvHolds == PunctualSpec => []IdInv
BY IdInvInit, IdInvStep, PTL DEF PunctualSpec
-----------------------------------------------------------------------------
(* What follows                                                            *)

\* No session serves two agents, whatever rows the reclaim and the retention
\* deleted and whatever ids were given again, when transports identify
\* themselves within a day and the month of the retention is one of silence
\* (IdentifyAgentSession, agent_session_reclaim.go).
THEOREM OneAgentPerSession == PunctualSpec => []SessionServesOneAgent
<1>1. ASSUME IdInv PROVE SessionServesOneAgent
  <2> SUFFICES ASSUME NEW a \in Agent, NEW b \in Agent, a # b
               PROVE  /\ transport[a] # 0 => transport[a] # transport[b]
                      /\ transport[a] # 0 => transport[a] \notin Keyed(b)
                      /\ binding[a] # 0 => binding[a] # binding[b]
    BY DEF SessionServesOneAgent
  <2>1. transport[a] # 0 => transport[a] # transport[b]
    BY <1>1 DEF IdInv, TransportsFit
  <2>2. transport[a] # 0 => transport[a] \notin Keyed(b)
    BY <1>1, NoId DEF IdInv, TransportsFit, Keyed
  <2>3. binding[a] # 0 => binding[a] # binding[b]
    BY <1>1 DEF IdInv, KeysFit, Keyed
  <2> QED BY <2>1, <2>2, <2>3
<1> QED BY <1>1, IdInvHolds, PTL

\* The sessions that handoffs, the project claim, the discards of others and
\* the monitors name are neither deleted by the reclaim nor by the retention
\* (agent_session_reclaim.go, protectedSessionRefs and heldSessionRefs).
THEOREM NamedSessionsStay == PunctualSpec => []ReferencedSessionsExist
<1>1. IdInv => ReferencedSessionsExist
  BY DEF IdInv, RefsFit, KeysFit, Keyed, Exists, ReferencedSessionsExist
<1> QED BY <1>1, IdInvHolds, PTL

\* The row of a revoked agent stays, and stays revoked.
LEMMA RevokedRowStays ==
  ASSUME IdInv, IdInv', [PunctualNext]_vars, NEW a \in Agent, RevokedKey(a)
  PROVE  RevokedKey(a)'
<1>1. PICK i \in DOMAIN rows : rows[i].key = a /\ rows[i].out = "revoked"
  BY DEF RevokedKey, Keyed
<1> SUFFICES i \in DOMAIN rows' /\ rows'[i].key = a /\ rows'[i].out = "revoked"
  BY DEF RevokedKey, Keyed
<1>2. /\ rows \in [DOMAIN rows -> Row]
      /\ DOMAIN rows \subseteq Id
      /\ identify \in [Agent -> Call]
  BY DEF IdInv, IdTypes, IdentityTypeOK
<1>3. \A except : i \notin Expired(except)
  BY <1>1 DEF Expired, IdInv, RefsFit
<1>4. CASE UNCHANGED rows
  BY <1>1, <1>4
<1>5. ASSUME i \in DOMAIN rows', KeptRow(i)
      PROVE  rows'[i].key = a /\ rows'[i].out = "revoked"
  BY <1>1, <1>5 DEF KeptRow
<1>6. ASSUME NEW b \in Agent, AgentStep(b)
      PROVE  i \in DOMAIN rows' /\ rows'[i].key = a /\ rows'[i].out = "revoked"
  <2>1. ASSUME NEW inProject \in BOOLEAN, Connect(b, inProject)
        PROVE  i \in DOMAIN rows' /\ rows'[i] = rows[i]
    <3>1. NextId # i
      BY <1>2, NextIdIsNew
    <3> QED BY <1>3, <2>1, <3>1 DEF Connect
  <2>2. CASE Identify(b)
    <3>1. PICK c \in DOMAIN rows :
            /\ rows' = [rows EXCEPT ![c].key = b, ![c].old = FALSE]
            /\ ~Discarded(c)
      BY <2>2 DEF Identify, Attach, Exists, Keyed
    <3>2. i # c
      BY <1>1, <3>1 DEF Discarded
    <3>3. OneRow(c)
      BY <3>1, AttachWrites DEF IdInv
    <3> QED BY <1>1, <3>2, <3>3 DEF OneRow
  <2>3. ASSUME NEW c \in DOMAIN rows, NEW gone, i \notin gone,
               rows' = Without([rows EXCEPT ![c].project = TRUE], gone)
        PROVE  /\ i \in DOMAIN rows'
               /\ rows'[i].key = rows[i].key /\ rows'[i].out = rows[i].out
    <3>1. PICK r : r = [rows EXCEPT ![c].project = TRUE]
      OBVIOUS
    <3>2. /\ DOMAIN r = DOMAIN rows
          /\ r[i].key = rows[i].key /\ r[i].out = rows[i].out
      BY <1>2, <3>1 DEF Row
    <3>3. rows' = [k \in DOMAIN rows \ gone |-> r[k]]
      BY <2>3, <3>1, <3>2 DEF Without
    <3> QED BY <2>3, <3>2, <3>3
  <2>4. CASE Associate(b)
    BY <1>1, <1>3, <2>3, <2>4 DEF Associate, Exists
  <2>5. ASSUME NEW force \in BOOLEAN, ClaimProject(b, force)
        PROVE  i \in DOMAIN rows' /\ rows'[i].key = a /\ rows'[i].out = "revoked"
    BY <1>1, <1>3, <2>3, <2>5 DEF ClaimProject, Exists
  <2>6. CASE ResolveToolUse(b) \/ Poll(b)
    <3>1. \/ UNCHANGED rows
          \/ \E c \in DOMAIN rows : rows' = [rows EXCEPT ![c].old = FALSE]
          \/ \E c \in DOMAIN rows : rows' = [rows EXCEPT ![c].lease = "held"]
      BY <2>6 DEF ResolveToolUse, Poll, Keyed, IdInv, KeysFit
    <3> QED BY <1>4, <1>5, <3>1, OneColumn DEF OneRow, IdInv
  <2>7. ASSUME NEW t \in Id, DiscardSession(b, t)
        PROVE  i \in DOMAIN rows' /\ rows'[i].key = a /\ rows'[i].out = "revoked"
    <3>1. t # i /\ t \in DOMAIN rows
      BY <1>1, <2>7 DEF DiscardSession, Discarded, Exists
    <3>2. rows'[i] = rows[i] /\ DOMAIN rows' = DOMAIN rows
      BY <1>2, <2>7, <3>1 DEF DiscardSession
    <3> QED BY <1>1, <3>2
  <2>8. CASE UNCHANGED rows
    BY <1>4, <2>8
  <2> QED
    BY <1>1, <1>6, <2>1, <2>2, <2>4, <2>5, <2>6, <2>7, <2>8
    DEF AgentStep, Leave, Bind, IdentifyFails, BindToolUse, JoinHandoff, Ask,
        ApproveDiscard
<1>7. ASSUME NEW k \in Id, Lapse(k)
      PROVE  i \in DOMAIN rows' /\ rows'[i].key = a /\ rows'[i].out = "revoked"
  <2>1. k \in DOMAIN rows
    BY <1>7 DEF Lapse, Exists
  <2> QED BY <1>5, <1>7, <2>1, OneColumn DEF Lapse, OneRow, IdInv
<1>8. ASSUME NEW old \in BOOLEAN, Pass(old)
      PROVE  i \in DOMAIN rows' /\ rows'[i].key = a /\ rows'[i].out = "revoked"
  <2>1. PICK polled :
          rows' = [k \in DOMAIN rows |->
                     [rows[k] EXCEPT !.lease = IF k \in polled THEN "held" ELSE "idle",
                                     !.old = @ \/ old]]
    BY <1>8 DEF Pass
  <2>2. rows'[i] = [rows[i] EXCEPT !.lease = IF i \in polled THEN "held" ELSE "idle",
                                   !.old = @ \/ old]
    BY <2>1
  <2>3. rows'[i].key = rows[i].key /\ rows'[i].out = rows[i].out
    BY <1>2, <2>2 DEF Row
  <2> QED BY <1>1, <2>1, <2>3
<1>9. CASE Reclaim
  <2>1. PICK out, gone :
          /\ gone \subseteq {k \in DOMAIN rows : Deletable(k)}
          /\ out \subseteq {k \in DOMAIN rows : Discardable(k)}
          /\ rows' = Without([k \in DOMAIN rows |->
                                IF k \in out THEN [rows[k] EXCEPT !.out = "reclaimed"]
                                ELSE rows[k]], gone)
    BY <1>9 DEF Reclaim, Some
  <2>2. i \notin out /\ i \notin gone
    BY <1>1, <2>1, NoId DEF Deletable, Discardable, Discarded
  <2>3. rows'[i] = rows[i] /\ i \in DOMAIN rows'
    BY <2>1, <2>2 DEF Without
  <2> QED BY <1>1, <2>3
<1>10. CASE ForgetToolUse \/ ReleaseProject \/ UNCHANGED vars
  BY <1>4, <1>10 DEF ForgetToolUse, ReleaseProject, vars
<1> QED
  BY <1>6, <1>7, <1>8, <1>9, <1>10 DEF PunctualNext

\* An agent has one row, so that no other one lets a revoked agent in again.
LEMMA RevokedIsKeptOut ==
  ASSUME IdInv, [PunctualNext]_vars, NEW a \in Agent, RevokedKey(a)
  PROVE  /\ identify'[a] # NoCall => identify[a] # NoCall
         /\ transport'[a] \in Keyed(a) =>
              transport'[a] = transport[a] \/ identify[a] # NoCall
<1>1. /\ transport \in [Agent -> MaybeId]
      /\ identify \in [Agent -> Call]
      /\ DOMAIN rows \subseteq Id
  BY DEF IdInv, IdTypes, IdentityTypeOK
<1>2. Keyed(a) # {} /\ \A c \in Keyed(a) : Discarded(c) /\ c # 0
  BY <1>1, NoId DEF RevokedKey, Discarded, IdInv, KeysFit, Keyed
<1>3. ASSUME NEW b \in Agent, AgentStep(b), b # a
      PROVE  identify'[a] = identify[a] /\ transport'[a] = transport[a]
  BY <1>1, <1>3
  DEF AgentStep, Connect, Leave, Identify, Attach, Bind, Reply, Associate,
      IdentifyFails, BindToolUse, ResolveToolUse, Poll, JoinHandoff, Ask,
      ClaimProject, ApproveDiscard, DiscardSession
<1>4. ~Identify(a)
  <2>1. (CHOOSE k \in Keyed(a) : TRUE) \in Keyed(a)
    BY <1>2
  <2> QED BY <1>2, <2>1 DEF Identify, Attach
<1>5. ResolveToolUse(a) => UNCHANGED <<identify, transport>>
  BY <1>2 DEF ResolveToolUse
<1>6. ASSUME NEW inProject \in BOOLEAN, Connect(a, inProject)
      PROVE  identify'[a] = NoCall /\ transport'[a] \notin Keyed(a)
  <2>1. NextId \notin DOMAIN rows
    BY <1>1, NextIdIsNew
  <2>2. identify'[a] = NoCall /\ transport'[a] = NextId
    BY <1>1, <1>6 DEF Connect
  <2> QED BY <2>1, <2>2 DEF Keyed
<1>7. Leave(a) => identify'[a] = NoCall /\ transport'[a] \notin Keyed(a)
  BY <1>1, <1>2 DEF Leave
<1>8. ASSUME Associate(a) \/ \E withCwd \in BOOLEAN : Bind(a, withCwd)
      PROVE  identify[a] # NoCall
  BY <1>8 DEF Associate, Bind, NoCall
<1>9. IdentifyFails(a) => identify[a] # NoCall
  BY DEF IdentifyFails
<1>10. CASE AgentStep(a)
  BY <1>4, <1>5, <1>6, <1>7, <1>8, <1>9, <1>10
  DEF AgentStep, BindToolUse, Poll, JoinHandoff, Ask, ClaimProject,
      ApproveDiscard, DiscardSession
<1>11. CASE ~ \E b \in Agent : AgentStep(b)
  BY <1>11
  DEF PunctualNext, ForgetToolUse, Lapse, Pass, ReleaseProject, Reclaim, vars
<1> QED BY <1>3, <1>10, <1>11

\* A revoke is final: the agent stays revoked, and no transport it opens is
\* attached to its session again ("a keyed one could register again under its
\* key, which would lift a revoke", agent_session_reclaim.sql).
THEOREM RevocationIsFinal == PunctualSpec => RevocationSticks
<1> DEFINE Sticks ==
      \A a \in Agent : RevokedKey(a) =>
        /\ RevokedKey(a)'
        /\ identify'[a] # NoCall => identify[a] # NoCall
        /\ transport'[a] \in Keyed(a) => transport'[a] = transport[a] \/ identify[a] # NoCall
<1>1. IdInv /\ IdInv' /\ [PunctualNext]_vars => [Sticks]_vars
  BY RevokedRowStays, RevokedIsKeptOut
<1> QED
  BY <1>1, IdInvHolds, PTL DEF PunctualSpec, RevocationSticks
=============================================================================
