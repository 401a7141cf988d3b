--------------------------- MODULE LifecycleProofs ---------------------------
(***************************************************************************)
(* Proofs about the daemon of a user, for every set of clients, daemons    *)
(* and builds: the migrations of the store run once, a store that is open  *)
(* has all of its build, and every variable stays in its type, in every    *)
(* order of steps; and under the assumption of OrderlySpec, the daemon     *)
(* that serves can be reached.                                             *)
(***************************************************************************)
EXTENDS Lifecycle, TLAPS

\* What the processes of the system know of the migrations.  The third line
\* says no more than that opening is a function on them.
ProcessesFit ==
  /\ build \in [Proc -> Build]
  /\ opening = [p \in Proc |-> opening[p]]
  /\ \A p \in Proc : At(p, "apply") => opening[p].next \in Nat \ {0, 1}

\* The schema and its records.  A database without tables has no migration,
\* which is why the transaction of an empty database may run the baseline.
StoreFits ==
  /\ applied \subseteq Migration
  /\ ran \in [Migration -> Nat]
  /\ version \in {0, Historical, Bridged, Current}
  /\ tables = FALSE => \A m \in Migration : ran[m] = 0
  /\ MigrationsRunOnce

StoreInv == ProcessesFit /\ StoreFits

\* Every build knows more than the migrations the bridge takes over.
LEMMA BuildsAreLate ==
  ASSUME NEW b \in Build
  PROVE  /\ b \in Nat /\ b > 4 /\ b >= V7Migration
         /\ 1..b \subseteq Migration
         /\ BridgedMigrations \subseteq Migration
         /\ Migration \subseteq Nat \ {0}
<1>1. b \in Nat /\ b > 4 /\ b >= V7Migration
  BY BuildAssumption
<1>2. 1..b \subseteq Migration
  BY DEF Migration
<1>3. BridgedMigrations \subseteq 1..b
  BY <1>1 DEF BridgedMigrations
<1>4. Migration \subseteq Nat \ {0}
  BY BuildAssumption DEF Migration
<1> QED BY <1>1, <1>2, <1>3, <1>4

\* Every database the program may find is consistent.
LEMMA StoreInvInit == Init => StoreInv
<1> SUFFICES ASSUME Init PROVE StoreInv
  OBVIOUS
<1>1. PICK b \in Build : TRUE
  BY BuildAssumption
<1>2. /\ BridgedMigrations \subseteq Migration
      /\ Migration \subseteq Nat \ {0}
      /\ \A c \in Build : c \in Nat /\ 1..c \subseteq Migration
  BY <1>1, BuildsAreLate
<1>3. ProcessesFit
  BY DEF Init, StoreInit, ProcessesFit, At, Closed
<1>4. applied \subseteq Migration
  <2>1. ASSUME NEW m \in 4..(V7Migration - 1) PROVE 1..m \subseteq Migration
    BY <1>1, <1>2, BuildAssumption
  <2> QED BY <1>2, <2>1 DEF Init, StoreInit
<1>5. \A m \in applied : 1..m \subseteq applied
  BY <1>2, BuildAssumption DEF Init, StoreInit
<1>6. ran = [m \in Migration |->
               IF m \in applied \/ (m = 1 /\ version >= Bridged) THEN 1 ELSE 0]
  BY DEF Init, StoreInit
<1>7. version \in {0, Historical, Bridged, Current}
  BY DEF Init, StoreInit
<1>8. tables = FALSE => version = 0 /\ applied = {}
  BY DEF Init, StoreInit
<1>9. tables = FALSE => \A m \in Migration : ran[m] = 0
  BY <1>6, <1>8 DEF Bridged
<1> QED
  BY <1>3, <1>4, <1>5, <1>6, <1>7, <1>9
  DEF StoreInv, StoreFits, MigrationsRunOnce
-----------------------------------------------------------------------------
(* Opening the store                                                       *)

\* A process that goes on does not come to the migrations before the second.
LEMMA GotoFits ==
  ASSUME ProcessesFit, NEW p \in Proc, NEW at, NEW next,
         Goto(p, at, next), UNCHANGED build,
         at = "apply" => next \in Nat \ {0, 1}
  PROVE  ProcessesFit'
BY DEF ProcessesFit, Goto, At

\* What nobody writes stays consistent.
LEMMA StoreUnchanged ==
  ASSUME StoreFits, UNCHANGED dbVars PROVE StoreFits'
BY DEF StoreFits, MigrationsRunOnce, dbVars

\* The historical bridge runs the first four migrations where none of the
\* later three ran.
LEMMA BridgeFits ==
  ASSUME StoreInv, NEW p \in Proc, Bridge(p)
  PROVE  StoreInv'
<1>1. /\ BridgedMigrations \subseteq Migration
      /\ Migration \subseteq Nat \ {0}
  BY BuildsAreLate DEF StoreInv, ProcessesFit
<1>2. CASE Fail(p)
  BY <1>2, GotoFits, StoreUnchanged DEF Fail, StoreInv
<1>3. CASE ~Fail(p)
  <2>1. /\ \A m \in 2..4 : ran[m] = 0
        /\ ran' = [m \in Migration |-> IF m \in BridgedMigrations THEN 1 ELSE ran[m]]
        /\ applied' = applied \cup BridgedMigrations
        /\ version' = Bridged
        /\ tables' = TRUE
        /\ Goto(p, "first", 1)
        /\ UNCHANGED build
    BY <1>3 DEF Bridge, BridgeTables
  <2>2. ProcessesFit'
    BY <2>1, GotoFits DEF StoreInv
  <2>3. \A m \in applied' : 1..m \subseteq applied'
    BY <2>1 DEF StoreInv, StoreFits, MigrationsRunOnce, BridgedMigrations
  <2>4. MigrationsRunOnce'
    BY <2>1, <2>3 DEF StoreInv, StoreFits, MigrationsRunOnce
  <2> QED
    BY <1>1, <2>1, <2>2, <2>4 DEF StoreInv, StoreFits
<1> QED BY <1>2, <1>3

\* The first transaction creates an empty database, or records the baseline of
\* one that has its columns.
LEMMA BaselineFits ==
  ASSUME StoreInv, NEW p \in Proc, Baseline(p)
  PROVE  StoreInv'
<1>1. /\ 1 \in Migration
      /\ Migration \subseteq Nat \ {0}
  BY BuildsAreLate DEF StoreInv, ProcessesFit
<1>2. CASE Fail(p)
  BY <1>2, GotoFits, StoreUnchanged DEF Fail, StoreInv
<1>3. CASE CreateBaseline(p)
  <2>1. ProcessesFit'
    BY <1>3, GotoFits DEF CreateBaseline, StoreInv
  <2>2. /\ ran' = [ran EXCEPT ![1] = @ + 1]
        /\ applied' = {1}
        /\ tables' = TRUE
        /\ version' = Current
        /\ \A m \in Migration : ran[m] = 0
        /\ ran \in [Migration -> Nat]
    BY <1>3 DEF CreateBaseline, Run, StoreInv, StoreFits
  <2>3. MigrationsRunOnce'
    BY <1>1, <2>2 DEF MigrationsRunOnce
  <2> QED BY <1>1, <2>1, <2>2, <2>3 DEF StoreInv, StoreFits
<1>4. CASE RecordBaseline(p)
  <2>1. ProcessesFit'
    BY <1>4, GotoFits DEF RecordBaseline, StoreInv
  <2>2. /\ UNCHANGED <<version, tables, ran>>
        /\ applied' = applied \cup {1}
        /\ ran[1] > 0
    BY <1>4, BuildAssumption
    DEF RecordBaseline, HasColumns, HasV6Columns, HasV7Columns
  <2>3. MigrationsRunOnce'
    BY <1>1, <2>2 DEF MigrationsRunOnce, StoreInv, StoreFits
  <2> QED BY <1>1, <2>1, <2>2, <2>3 DEF StoreInv, StoreFits
<1> QED BY <1>2, <1>3, <1>4 DEF Baseline

\* A later migration reads the records in its own transaction.
LEMMA ApplyFits ==
  ASSUME StoreInv, NEW p \in Proc, Apply(p)
  PROVE  StoreInv'
<1> DEFINE m == opening[p].next
<1>1. /\ m \in Migration
      /\ m \in Nat /\ m > 1
      /\ Migration \subseteq Nat \ {0}
  <2>1. m \in Nat \ {0, 1} /\ m <= build[p] /\ build[p] \in Build
    BY DEF Apply, StoreInv, ProcessesFit
  <2> QED BY <2>1, BuildsAreLate
<1>2. CASE Fail(p)
  BY <1>2, GotoFits, StoreUnchanged DEF Fail, StoreInv
<1>3. CASE Goto(p, "apply", m + 1) /\ UNCHANGED <<build, dbVars>>
  BY <1>1, <1>3, GotoFits, StoreUnchanged DEF StoreInv
<1>4. CASE m \notin applied /\ ~Fail(p)
  <2>1. /\ 1..(m - 1) \subseteq applied
        /\ ran' = [ran EXCEPT ![m] = @ + 1]
        /\ applied' = applied \cup {m}
        /\ version' = Current
        /\ Goto(p, "apply", m + 1)
        /\ UNCHANGED <<build, tables>>
    BY <1>4 DEF Apply, Run
  <2>2. ProcessesFit'
    BY <1>1, <2>1, GotoFits DEF StoreInv
  <2>3. ran[m] = 0
    BY <1>1, <1>4 DEF StoreInv, StoreFits, MigrationsRunOnce
  <2>4. ran' = [k \in Migration |-> IF k = m THEN 1 ELSE ran[k]]
    <3>1. m \in Migration /\ ran \in [Migration -> Nat]
      BY <1>1 DEF StoreInv, StoreFits
    <3>2. ran' = [ran EXCEPT ![m] = 1]
      BY <2>1, <2>3
    <3> HIDE DEF m
    <3> QED BY <3>1, <3>2
  <2>5. /\ ran' \in [Migration -> Nat]
        /\ \A k \in Migration : ran'[k] = IF k = m THEN 1 ELSE ran[k]
    <3> HIDE DEF m
    <3> QED BY <2>4 DEF StoreInv, StoreFits
  <2>6. \A k \in applied' : 1..k \subseteq applied'
    <3>1. \A k \in applied : 1..k \subseteq applied
      BY DEF StoreInv, StoreFits, MigrationsRunOnce
    <3>2. 1..m \subseteq applied \cup {m}
      BY <1>1, <2>1
    <3> HIDE DEF m
    <3> QED BY <2>1, <3>1, <3>2
  <2>7. MigrationsRunOnce'
    BY <1>1, <2>1, <2>5, <2>6 DEF StoreInv, StoreFits, MigrationsRunOnce
  <2>8. tables' # FALSE
    <3>1. 1 \in applied /\ 1 \in Migration
      BY <1>1, <2>1 DEF StoreInv, StoreFits
    <3>2. ran[1] = 1
      BY <3>1 DEF StoreInv, StoreFits, MigrationsRunOnce
    <3>3. ~ \A k \in Migration : ran[k] = 0
      BY <3>1, <3>2
    <3>4. tables = FALSE => \A k \in Migration : ran[k] = 0
      BY DEF StoreInv, StoreFits
    <3> QED BY <2>1, <3>3, <3>4, Zenon
  <2> QED
    BY <1>1, <2>1, <2>2, <2>5, <2>7, <2>8 DEF StoreInv, StoreFits
<1> QED BY <1>2, <1>3, <1>4 DEF Apply

\* Every step of opening the store keeps it consistent.
LEMMA OpenStepFits ==
  ASSUME StoreInv, NEW p \in Proc, OpenStep(p)
  PROVE  StoreInv'
<1>1. CASE ReadVersion(p) \/ ReadTables(p) \/ Opened(p) \/ StepFails(p)
  <2>1. PICK at, next : /\ at # "apply"
                        /\ Goto(p, at, next)
                        /\ UNCHANGED <<build, dbVars>>
    BY <1>1 DEF ReadVersion, ReadTables, Opened, StepFails, Fail
  <2> QED BY <2>1, GotoFits, StoreUnchanged DEF StoreInv
<1> QED
  BY <1>1, BridgeFits, BaselineFits, ApplyFits DEF OpenStep
-----------------------------------------------------------------------------
(* The lifecycle around it                                                 *)

\* Outside of opening the store, processes are started, with the build of the
\* client, and close it.
LEMMA OtherStepsFit ==
  ASSUME StoreInv, UNCHANGED dbVars,
         UNCHANGED opening \/ \E p : CloseStore(p),
         \/ UNCHANGED build
         \/ \E p \in Proc, c \in Proc : build' = [build EXCEPT ![p] = build[c]]
  PROVE  StoreInv'
<1>1. build' \in [Proc -> Build]
  BY DEF StoreInv, ProcessesFit
<1>2. \A p \in Proc : At(p, "apply")' => opening'[p] = opening[p]
  <2>1. CASE UNCHANGED opening
    BY <2>1
  <2>2. ASSUME NEW q, CloseStore(q),
               NEW p \in Proc, At(p, "apply")'
        PROVE  opening'[p] = opening[p]
    BY <2>2 DEF CloseStore, Goto, At, StoreInv, ProcessesFit
  <2> QED BY <2>1, <2>2
<1>3. opening' = [p \in Proc |-> opening'[p]]
  BY DEF CloseStore, Goto, StoreInv, ProcessesFit
<1>4. \A p \in Proc : At(p, "apply")' => opening'[p].next \in Nat \ {0, 1}
  BY <1>2 DEF StoreInv, ProcessesFit, At
<1>5. ProcessesFit'
  BY <1>1, <1>3, <1>4 DEF ProcessesFit
<1> QED BY <1>5, StoreUnchanged DEF StoreInv

\* Every step of the system keeps the store consistent.
LEMMA StoreInvStep == StoreInv /\ [Next]_vars => StoreInv'
<1> SUFFICES ASSUME StoreInv, [Next]_vars PROVE StoreInv'
  OBVIOUS
<1> USE ProcAssumption
<1>1. CASE UNCHANGED vars
  BY <1>1, OtherStepsFit DEF vars, storeVars
<1>2. ASSUME NEW c \in Client, ClientStep(c) PROVE StoreInv'
  <2>1. CASE Signal(c)
    BY <2>1, OtherStepsFit DEF Signal, Dies, Gone
  <2>2. CASE ~Signal(c)
    <3>1. UNCHANGED storeVars \/ \E p \in Daemon : StartProcess(p, c)
      BY <1>2, <2>2 DEF ClientStep, Acquire, Reuse, Refuse, LookStale,
         ClearStale, Spawn, Ready, StartFails, GiveUp, Exited, Die, Release
    <3> QED BY <3>1, OtherStepsFit DEF StartProcess, storeVars
  <2> QED BY <2>1, <2>2
<1>3. ASSUME NEW c \in Client, HookStep(c) PROVE StoreInv'
  <2>1. CASE OpenStep(c)
    BY <2>1, OpenStepFits
  <2>2. CASE RunHook(c) \/ EndHook(c)
    BY <2>2, OtherStepsFit DEF RunHook, EndHook, storeVars
  <2> QED BY <1>3, <2>1, <2>2 DEF HookStep
<1>4. ASSUME NEW p \in Daemon, DaemonStep(p) PROVE StoreInv'
  <2>1. CASE OpenStore(p)
    BY <2>1, OpenStepFits DEF OpenStore
  <2>2. CASE ~OpenStore(p)
    <3>1. /\ UNCHANGED <<build, dbVars>>
          /\ UNCHANGED opening \/ CloseStore(p)
      BY <1>4, <2>2 DEF DaemonStep, PrepareCheck, PrepareRemove, OpenFails,
         Bind, Listen, Record, Terminate, LeavePort, CheckOwner, RemoveFiles, Crash, Dies, Gone,
         storeVars
    <3> QED BY <3>1, OtherStepsFit
  <2> QED BY <2>1, <2>2
<1>5. ASSUME NEW c \in Client, NEW p \in Daemon, StartProcess(p, c)
      PROVE  StoreInv'
  BY <1>5, OtherStepsFit DEF StartProcess
<1> QED BY <1>1, <1>2, <1>3, <1>4, <1>5 DEF Next, StartByHand

\* No migration takes effect twice and none is recorded before those it builds
\* on, for any number of daemons, clients and hooks of any builds that open the
\* database at the same time, die in the middle, start late or are started by
\* hand (migrations.go, applyEmbeddedMigrations and migrateSchema).
THEOREM MigrationsOnce == Spec => []MigrationsRunOnce
<1>1. StoreInv => MigrationsRunOnce
  BY DEF StoreInv, StoreFits
<1> QED BY <1>1, StoreInvInit, StoreInvStep, PTL DEF Spec
-----------------------------------------------------------------------------
(* Types                                                                   *)

LEMMA TypesInit == Init => LifecycleTypeOK
<1> SUFFICES ASSUME Init PROVE LifecycleTypeOK
  OBVIOUS
<1>1. StoreTypeOK
  <2>1. StoreInv
    BY StoreInvInit
  <2> QED
    BY <2>1 DEF StoreInv, StoreFits, StoreTypeOK, Init, StoreInit, Closed,
       Opening
<1>2. client \in [Client -> ClientState]
  BY DEF Init, ClientState
<1>3. None \notin Client
  BY NoneAssumption, ProcAssumption
<1>4. \A c \in Client : lock = c <=> client[c].op \in {"ensure", "stop"}
  BY <1>3 DEF Init, Idle
<1> QED BY <1>1, <1>2, <1>4 DEF Init, LifecycleTypeOK, Maybe

\* The store has its types when a process goes on to one of the migrations.
LEMMA GotoTyped ==
  ASSUME StoreTypeOK, NEW p, NEW at, NEW next,
         Goto(p, at, next), at \in {"closed", "tables", "bridge", "first", "apply", "open", "failed"},
         next \in {1, 2} \cup {m + 1 : m \in Migration}
  PROVE  opening' \in [Proc -> Opening]
<1>1. [at |-> at, next |-> next] \in Opening
  BY DEF Opening
<1> QED BY <1>1 DEF Goto, StoreTypeOK

\* Every step of opening the store keeps its types.
LEMMA OpenStepTyped ==
  ASSUME StoreTypeOK, NEW p \in Proc, OpenStep(p)
  PROVE  StoreTypeOK'
<1>1. PICK b \in Build : TRUE
  BY BuildAssumption
<1>2. /\ BridgedMigrations \subseteq Migration
      /\ 1 \in Migration
      /\ Migration \subseteq Nat
  <2>1. b \in Nat /\ b > 4 /\ 1..b \subseteq Migration
    BY <1>1, BuildsAreLate
  <2>2. 1 \in 1..b
    BY <2>1
  <2> QED BY <1>1, <2>1, <2>2, BuildsAreLate
<1>3. CASE ReadVersion(p) \/ ReadTables(p) \/ Opened(p) \/ StepFails(p)
  <2>1. PICK at \in {"closed", "tables", "bridge", "first", "apply", "open", "failed"} :
          Goto(p, at, 1) /\ UNCHANGED <<build, dbVars>>
    BY <1>3 DEF ReadVersion, ReadTables, Opened, StepFails, Fail
  <2>2. opening' \in [Proc -> Opening]
    BY <2>1, GotoTyped
  <2> QED BY <2>1, <2>2 DEF StoreTypeOK, dbVars
<1>4. CASE Bridge(p)
  <2>1. CASE Fail(p)
    <3>1. opening' \in [Proc -> Opening]
      BY <2>1, GotoTyped DEF Fail
    <3> QED BY <2>1, <3>1 DEF StoreTypeOK, dbVars, Fail
  <2>2. CASE ~Fail(p)
    <3>1. opening' \in [Proc -> Opening]
      BY <1>4, <2>2, GotoTyped DEF Bridge
    <3>2. ran' \in [Migration -> Nat]
      BY <1>4, <2>2 DEF Bridge, BridgeTables, StoreTypeOK
    <3> QED
      BY <1>2, <1>4, <2>2, <3>1, <3>2 DEF Bridge, StoreTypeOK
  <2> QED BY <2>1, <2>2
<1>5. CASE Baseline(p)
  <2>1. PICK at \in {"apply", "failed"}, next \in {1, 2} : Goto(p, at, next)
    BY <1>5 DEF Baseline, CreateBaseline, RecordBaseline, Fail
  <2>2. opening' \in [Proc -> Opening]
    BY <2>1, GotoTyped
  <2>3. UNCHANGED ran \/ Run(1)
    BY <1>5 DEF Baseline, CreateBaseline, RecordBaseline, Fail, dbVars
  <2>4. ran' \in [Migration -> Nat]
    BY <1>2, <2>3 DEF Run, StoreTypeOK
  <2> QED
    BY <1>2, <1>5, <2>2, <2>4
    DEF Baseline, CreateBaseline, RecordBaseline, Fail, StoreTypeOK, dbVars
<1>6. CASE Apply(p)
  <2> DEFINE m == opening[p].next
  <2>1. m \in Migration
    <3>1. m \in Nat /\ m >= 1
      BY <1>2 DEF StoreTypeOK, Opening
    <3>2. m <= build[p] /\ build[p] \in Build
      BY <1>6 DEF Apply, StoreTypeOK
    <3> QED BY <3>1, <3>2, BuildsAreLate
  <2>2. PICK at \in {"apply", "failed"}, next \in {1, m + 1} : Goto(p, at, next)
    BY <1>6 DEF Apply, Fail
  <2>3. opening' \in [Proc -> Opening]
    BY <2>1, <2>2, GotoTyped
  <2>4. /\ UNCHANGED ran \/ Run(m)
        /\ applied' \subseteq applied \cup {m}
        /\ version' \in {version, Current}
        /\ UNCHANGED <<build, tables>>
    BY <1>6 DEF Apply, Fail, dbVars
  <2>5. ran' \in [Migration -> Nat]
    BY <1>2, <2>1, <2>4 DEF Run, StoreTypeOK
  <2> QED
    BY <2>1, <2>3, <2>4, <2>5 DEF StoreTypeOK
<1> QED BY <1>3, <1>4, <1>5, <1>6 DEF OpenStep

\* A process that closes the store keeps its types.
LEMMA CloseTyped ==
  ASSUME StoreTypeOK, NEW p, CloseStore(p), UNCHANGED <<build, dbVars>>
  PROVE  StoreTypeOK'
<1>1. opening' \in [Proc -> Opening]
  BY GotoTyped DEF CloseStore
<1> QED BY <1>1 DEF StoreTypeOK, dbVars

\* The clients and the lock: who is inside Ensure or Stop has it.
ClientsFit ==
  /\ lock \in Maybe(Client)
  /\ client \in [Client -> ClientState]
  /\ \A c \in Client : lock = c <=> client[c].op \in {"ensure", "stop"}

\* A client that goes on keeps the lock ...
LEMMA GoesTyped ==
  ASSUME ClientsFit, NEW c \in Client, NEW at, NEW pid, Goes(c, at, pid),
         UNCHANGED lock,
         [op |-> client[c].op, at |-> at, pid |-> pid] \in ClientState
  PROVE  ClientsFit'
<1> DEFINE next == [op |-> client[c].op, at |-> at, pid |-> pid]
<1>1. PICK op, was, who : client[c] = [op |-> op, at |-> was, pid |-> who]
  <2>1. client[c] \in ClientState
    BY DEF ClientsFit
  <2> QED BY <2>1 DEF ClientState, Idle
<1>2. client' = [client EXCEPT ![c] = next]
  <2>1. client = [d \in Client |-> client[d]]
    BY DEF ClientsFit
  <2>2. client' = [d \in Client |-> IF d = c
                     THEN [client[d] EXCEPT !.at = at, !.pid = pid] ELSE client[d]]
    BY <2>1 DEF Goes
  <2>3. [client[c] EXCEPT !.at = at, !.pid = pid] = next
    <3>1. client[c].op = op
      BY <1>1
    <3>2. PICK r : r = [client[c] EXCEPT !.at = at]
      OBVIOUS
    <3>3. r = [op |-> op, at |-> at, pid |-> who]
      BY <1>1, <3>2
    <3>4. [r EXCEPT !.pid = pid] = [op |-> op, at |-> at, pid |-> pid]
      BY <3>3
    <3>5. [client[c] EXCEPT !.at = at, !.pid = pid] = [r EXCEPT !.pid = pid]
      BY <3>2
    <3> QED BY <3>1, <3>4, <3>5
  <2> HIDE DEF next
  <2> QED BY <2>1, <2>2, <2>3
<1>3. \A d \in Client : client'[d].op = client[d].op
  BY <1>2 DEF ClientsFit
<1> QED BY <1>2, <1>3 DEF ClientsFit

\* ... and one that is done gives it back.
LEMMA ReleaseTyped ==
  ASSUME ClientsFit, NEW c \in Client, client[c].op \in {"ensure", "stop"},
         lock' = None, client' = [client EXCEPT ![c] = Idle]
  PROVE  ClientsFit'
<1>1. \A d \in Client : client[d].op \in {"ensure", "stop"} => d = c
  BY DEF ClientsFit
<1>2. \A d \in Client : client'[d].op \notin {"ensure", "stop"}
  BY <1>1 DEF ClientsFit, Idle
<1>3. client' \in [Client -> ClientState]
  BY DEF ClientsFit, ClientState
<1>4. None \notin Client
  BY NoneAssumption, ProcAssumption
<1> QED BY <1>2, <1>3, <1>4 DEF ClientsFit, Maybe

\* The processes clients wait for are daemons.
LEMMA ClientsFitStep ==
  ASSUME ClientsFit, registry \in Maybe(Daemon), NEW c \in Client,
         ClientStep(c) \/ HookStep(c)
  PROVE  ClientsFit'
<1>1. client[c] \in ClientState
  BY DEF ClientsFit
<1>2. client[c].at # "idle" => client[c].op \in {"ensure", "stop"}
  BY <1>1 DEF ClientState, Idle
<1>3. ASSUME NEW op \in {"ensure", "stop"}, Acquire(c, op) PROVE ClientsFit'
  <2> DEFINE next == [op |-> op, at |-> "look", pid |-> None]
  <2>1. next \in ClientState
    BY DEF ClientState
  <2>2. client' = [client EXCEPT ![c] = next] /\ lock = None /\ lock' = c
    BY <1>3 DEF Acquire
  <2>3. None \notin Client
    BY NoneAssumption, ProcAssumption
  <2>4. \A d \in Client : client[d].op \notin {"ensure", "stop"}
    BY <2>2, <2>3 DEF ClientsFit
  <2>5. \A d \in Client : client'[d] = IF d = c THEN next ELSE client[d]
    BY <2>2 DEF ClientsFit
  <2> QED BY <2>1, <2>2, <2>4, <2>5 DEF ClientsFit, Maybe
<1>4. CASE Release(c) /\ client[c].at # "idle"
  BY <1>2, <1>4, ReleaseTyped DEF Release
<1>5. ASSUME client[c].op \in {"ensure", "stop"}, Goes(c, "clear", None),
             UNCHANGED lock
      PROVE  ClientsFit'
  <2>1. [op |-> client[c].op, at |-> "clear", pid |-> None] \in ClientState
    BY <1>5 DEF ClientState
  <2> QED BY <1>5, <2>1, GoesTyped
<1>6. CASE ClearStale(c)
  <2>1. CASE client[c].op = "ensure"
    <3>1. [op |-> client[c].op, at |-> "spawn", pid |-> None] \in ClientState
      BY <2>1 DEF ClientState
    <3> QED BY <1>6, <2>1, <3>1, GoesTyped DEF ClearStale
  <2>2. CASE client[c].op # "ensure"
    BY <1>2, <1>6, <2>2, ReleaseTyped DEF ClearStale
  <2> QED BY <2>1, <2>2
<1>7. ASSUME NEW p \in Daemon, Spawn(c, p) PROVE ClientsFit'
  <2>1. [op |-> client[c].op, at |-> "wait", pid |-> p] \in ClientState
    BY <1>7 DEF ClientState, Spawn, In
  <2> QED BY <1>7, <2>1, GoesTyped DEF Spawn
<1>8. CASE Signal(c)
  <2>1. registry \in Daemon
    BY <1>8 DEF Signal, Alive, Maybe
  <2>2. [op |-> client[c].op, at |-> "exit", pid |-> registry] \in ClientState
    BY <1>8, <2>1 DEF ClientState, Signal, In
  <2> QED BY <1>8, <2>2, GoesTyped DEF Signal
<1>9. CASE HookStep(c)
  <2> DEFINE hook == [op |-> "hook", at |-> "idle", pid |-> None]
  <2>1. CASE UNCHANGED <<lock, client>>
    BY <2>1 DEF ClientsFit
  <2>2. CASE RunHook(c)
    <3>1. client' = [client EXCEPT ![c] = hook] /\ lock' = lock
      <4>1. client = [d \in Client |-> client[d]]
        BY DEF ClientsFit
      <4>2. client' = [d \in Client |-> IF d = c
                         THEN [client[d] EXCEPT !.op = "hook"] ELSE client[d]]
        BY <2>2, <4>1 DEF RunHook
      <4>3. [client[c] EXCEPT !.op = "hook"] = hook
        BY <2>2 DEF RunHook, Idle
      <4> HIDE DEF hook
      <4> QED BY <2>2, <4>1, <4>2, <4>3 DEF RunHook
    <3>2. hook \in ClientState /\ client[c].op \notin {"ensure", "stop"}
      BY <2>2 DEF RunHook, ClientState, Idle
    <3> QED BY <3>1, <3>2 DEF ClientsFit
  <2>3. CASE EndHook(c)
    <3>1. client' = [client EXCEPT ![c] = Idle] /\ lock' = lock
      BY <2>3 DEF EndHook
    <3>2. Idle \in ClientState /\ client[c].op \notin {"ensure", "stop"}
      BY <2>3 DEF EndHook, ClientState
    <3> QED BY <3>1, <3>2 DEF ClientsFit, Idle
  <2> QED BY <1>9, <2>1, <2>2, <2>3 DEF HookStep
<1>10. CASE Reuse(c) \/ Refuse(c) \/ Ready(c) \/ StartFails(c) \/ GiveUp(c) \/ Die(c)
  <2>1. Release(c) /\ client[c].at # "idle"
    BY <1>10 DEF Reuse, Refuse, Ready, StartFails, GiveUp, Die, In
  <2> QED BY <1>4, <2>1
<1>11. CASE LookStale(c) \/ Exited(c)
  <2>1. /\ client[c].at # "idle"
        /\ Release(c) \/ (Goes(c, "clear", None) /\ UNCHANGED lock)
    BY <1>11 DEF LookStale, Exited, In
  <2> QED BY <1>2, <1>4, <1>5, <2>1
<1> QED
  BY <1>3, <1>6, <1>7, <1>8, <1>9, <1>10, <1>11 DEF ClientStep

\* The store keeps its types in every step of the system.
LEMMA StoreSide ==
  ASSUME StoreTypeOK, [Next]_vars
  PROVE  StoreTypeOK'
<1> USE ProcAssumption
<1>1. CASE UNCHANGED storeVars
  BY <1>1 DEF StoreTypeOK, storeVars, dbVars
<1>2. ASSUME NEW c \in Client, NEW p \in Daemon, StartProcess(p, c)
      PROVE  StoreTypeOK'
  BY <1>2 DEF StartProcess, StoreTypeOK, dbVars
<1>3. ASSUME NEW p \in Proc, OpenStep(p) PROVE StoreTypeOK'
  BY <1>3, OpenStepTyped
<1>4. ASSUME NEW p, CloseStore(p), UNCHANGED <<build, dbVars>>
      PROVE  StoreTypeOK'
  BY <1>4, CloseTyped
<1>5. ASSUME NEW c \in Client, ClientStep(c) \/ HookStep(c)
      PROVE  StoreTypeOK'
  <2>1. \/ UNCHANGED storeVars
        \/ \E p \in Daemon : StartProcess(p, c)
        \/ OpenStep(c)
        \/ \E p : CloseStore(p) /\ UNCHANGED <<build, dbVars>>
    BY <1>5 DEF ClientStep, HookStep, Acquire, Reuse, Refuse, LookStale,
       ClearStale, Spawn, Ready, StartFails, GiveUp, Signal, Exited, Die,
       Release, RunHook, EndHook, Dies, Gone, storeVars
  <2> QED BY <1>1, <1>2, <1>3, <1>4, <2>1
<1>6. ASSUME NEW p \in Daemon, DaemonStep(p) PROVE StoreTypeOK'
  <2>1. \/ UNCHANGED storeVars
        \/ OpenStep(p)
        \/ CloseStore(p) /\ UNCHANGED <<build, dbVars>>
    BY <1>6 DEF DaemonStep, PrepareCheck, PrepareRemove, OpenStore, OpenFails,
       Bind, Listen, Record, Terminate, LeavePort, CheckOwner, RemoveFiles, Crash, Dies, Gone,
       storeVars
  <2> QED BY <1>1, <1>3, <1>4, <2>1
<1> QED
  BY <1>1, <1>2, <1>5, <1>6 DEF Next, StartByHand, vars

\* The daemons, and the files that name them.
DaemonsFit ==
  /\ registry \in Maybe(Daemon)
  /\ sock \in Maybe(Daemon)
  /\ port \in Maybe(Daemon)
  /\ phase \in [Daemon -> {"off", "spawned", "prepare", "opening", "bound",
                           "leaving", "closing", "removing"}]
  /\ listening \in SUBSET Daemon
  /\ recorded \in SUBSET Daemon
  /\ signalled \in SUBSET Daemon

LEMMA DaemonsFitStep ==
  ASSUME DaemonsFit, [Next]_vars
  PROVE  DaemonsFit'
<1>1. CASE UNCHANGED <<files, daemonVars>>
  BY <1>1 DEF DaemonsFit, files, daemonVars
<1>2. ASSUME NEW p \in Daemon, NEW c \in Client, StartProcess(p, c)
      PROVE  DaemonsFit'
  BY <1>2 DEF StartProcess, DaemonsFit, files
<1>3. ASSUME NEW c \in Client, ClientStep(c) \/ HookStep(c)
      PROVE  DaemonsFit'
  <2>1. CASE ClearStale(c)
    BY <2>1 DEF ClearStale, DaemonsFit, daemonVars, Maybe
  <2>2. CASE Signal(c)
    BY <2>2 DEF Signal, Dies, Gone, DaemonsFit, files, Maybe, Alive
  <2>3. CASE HookStep(c)
    BY <1>1, <2>3 DEF HookStep, RunHook, EndHook
  <2>4. CASE ClientStep(c) /\ ~ClearStale(c) /\ ~Signal(c)
    <3>1. UNCHANGED <<files, daemonVars>> \/ \E p \in Daemon : StartProcess(p, c)
      BY <2>4 DEF ClientStep, Acquire, Reuse, Refuse, LookStale, Spawn, Ready,
         StartFails, Exited, Die, GiveUp, Release
    <3> QED BY <1>1, <1>2, <3>1
  <2> QED BY <1>3, <2>1, <2>2, <2>3, <2>4
<1>4. ASSUME NEW p \in Daemon, DaemonStep(p) PROVE DaemonsFit'
  <2>1. CASE PrepareCheck(p) \/ PrepareRemove(p)
    BY <2>1 DEF PrepareCheck, PrepareRemove, Ends, DaemonsFit, files, Maybe
  <2>2. CASE OpenStore(p)
    BY <1>1, <2>2 DEF OpenStore
  <2>3. CASE OpenFails(p) \/ Bind(p)
    BY <2>3 DEF OpenFails, Bind, Ends, DaemonsFit, files, Maybe
  <2>4. CASE Listen(p) \/ Record(p) \/ Terminate(p)
    BY <2>4 DEF Listen, Record, Terminate, DaemonsFit, Maybe
  <2>5. CASE LeavePort(p) \/ CheckOwner(p) \/ RemoveFiles(p) \/ Crash(p)
    BY <2>5 DEF LeavePort, CheckOwner, RemoveFiles, Crash, Dies, Gone, Ends, DaemonsFit, files,
       Maybe
  <2> QED BY <1>4, <2>1, <2>2, <2>3, <2>4, <2>5 DEF DaemonStep
<1> QED
  BY <1>1, <1>2, <1>3, <1>4 DEF Next, StartByHand, vars

LEMMA TypesStep == LifecycleTypeOK /\ [Next]_vars => LifecycleTypeOK'
<1> SUFFICES ASSUME LifecycleTypeOK, [Next]_vars PROVE LifecycleTypeOK'
  OBVIOUS
<1>1. StoreTypeOK /\ ClientsFit /\ DaemonsFit
  BY DEF LifecycleTypeOK, ClientsFit, DaemonsFit
<1>2. ClientsFit'
  <2>1. CASE UNCHANGED <<lock, client>>
    BY <1>1, <2>1 DEF ClientsFit
  <2>2. ASSUME NEW p \in Daemon, DaemonStep(p) PROVE UNCHANGED <<lock, client>>
    BY <2>2 DEF DaemonStep, PrepareCheck, PrepareRemove, OpenStore, OpenFails,
       Bind, Listen, Record, Terminate, LeavePort, CheckOwner, RemoveFiles, Crash
  <2>3. ASSUME NEW c \in Client, ClientStep(c) \/ HookStep(c)
        PROVE  ClientsFit'
    BY <1>1, <2>3, ClientsFitStep DEF DaemonsFit
  <2> QED BY <2>1, <2>2, <2>3 DEF Next, StartByHand, vars
<1> QED
  BY <1>1, <1>2, StoreSide, DaemonsFitStep
  DEF LifecycleTypeOK, ClientsFit, DaemonsFit

\* Every variable stays in its type, and the lock is held by the one client
\* that is inside Ensure or Stop (daemonctl, Ensure and Stop between
\* AcquireLock and Release), whatever dies, is started by hand or is left
\* behind by a caller.
THEOREM LifecycleTyped == Spec => []LifecycleTypeOK
BY TypesInit, TypesStep, PTL DEF Spec
-----------------------------------------------------------------------------
(* What an open store has                                                  *)

\* A process that runs the migrations has passed only what is recorded, and
\* one whose store is open has all that its build knows.
ProcessesComplete ==
  \A p \in Proc :
    /\ At(p, "apply") => 1..(opening[p].next - 1) \subseteq applied
    /\ At(p, "open") => 1..build[p] \subseteq applied

\* A process gets its build before it opens the store.
StoreNotYetOpen ==
  \A p \in Daemon :
    phase[p] \in {"off", "spawned", "prepare"} => At(p, "closed")

CompleteInv == LifecycleTypeOK /\ StoreInv /\ ProcessesComplete /\ StoreNotYetOpen

LEMMA CompleteInvInit == Init => CompleteInv
<1> SUFFICES ASSUME Init PROVE CompleteInv
  OBVIOUS
<1>1. \A p \in Proc : At(p, "closed")
  BY DEF Init, StoreInit, At, Closed
<1>2. Daemon \subseteq Proc
  BY ProcAssumption
<1> QED
  BY <1>1, <1>2, TypesInit, StoreInvInit
  DEF CompleteInv, ProcessesComplete, StoreNotYetOpen, At

\* Records are never taken back, so only the process that goes on matters.
LEMMA GotoComplete ==
  ASSUME StoreTypeOK, ProcessesComplete, NEW p, NEW at, NEW next,
         Goto(p, at, next), UNCHANGED build, applied \subseteq applied',
         at = "apply" => 1..(next - 1) \subseteq applied',
         at = "open" => 1..build[p] \subseteq applied'
  PROVE  ProcessesComplete'
<1> SUFFICES ASSUME NEW q \in Proc
             PROVE  /\ At(q, "apply")' => 1..(opening'[q].next - 1) \subseteq applied'
                    /\ At(q, "open")' => 1..build'[q] \subseteq applied'
  BY DEF ProcessesComplete
<1>1. opening'[q] = IF q = p THEN [at |-> at, next |-> next] ELSE opening[q]
  BY DEF Goto, StoreTypeOK
<1>2. CASE q = p
  BY <1>1, <1>2 DEF At
<1>3. CASE q # p
  BY <1>1, <1>3 DEF At, ProcessesComplete
<1> QED BY <1>2, <1>3

\* Skipped or run, a migration that a process passes is recorded.
LEMMA OpenStepComplete ==
  ASSUME StoreTypeOK, StoreInv, ProcessesComplete, NEW p \in Proc, OpenStep(p)
  PROVE  ProcessesComplete'
<1>1. CASE ReadVersion(p) \/ ReadTables(p) \/ StepFails(p)
  <2>1. PICK at, next : /\ at \notin {"apply", "open"}
                        /\ Goto(p, at, next)
                        /\ UNCHANGED <<build, dbVars>>
    BY <1>1 DEF ReadVersion, ReadTables, StepFails, Fail
  <2> QED BY <2>1, GotoComplete DEF dbVars
<1>2. CASE Bridge(p)
  BY <1>2, GotoComplete DEF Bridge, Fail, dbVars
<1>3. CASE Baseline(p)
  <2>1. CASE CreateBaseline(p) \/ RecordBaseline(p)
    <3>1. /\ Goto(p, "apply", 2) /\ UNCHANGED build
          /\ applied \subseteq applied' /\ 1..(2 - 1) \subseteq applied'
      BY <2>1 DEF CreateBaseline, RecordBaseline
    <3> QED BY <3>1, GotoComplete
  <2>2. CASE Fail(p)
    BY <2>2, GotoComplete DEF Fail, dbVars
  <2> QED BY <1>3, <2>1, <2>2 DEF Baseline
<1>4. CASE Apply(p)
  <2> DEFINE m == opening[p].next
  <2>1. CASE Fail(p)
    BY <2>1, GotoComplete DEF Fail, dbVars
  <2>2. CASE ~Fail(p)
    <3>1. m \in Nat /\ 1..(m - 1) \subseteq applied
      BY <1>4 DEF Apply, StoreInv, ProcessesFit, ProcessesComplete
    <3>2. /\ Goto(p, "apply", m + 1) /\ UNCHANGED build
          /\ applied \subseteq applied' /\ m \in applied'
      BY <1>4, <2>2 DEF Apply, dbVars
    <3>3. 1..((m + 1) - 1) \subseteq applied'
      BY <3>1, <3>2
    <3> HIDE DEF m
    <3> QED BY <3>2, <3>3, GotoComplete
  <2> QED BY <2>1, <2>2
<1>5. CASE Opened(p)
  <2>1. 1..build[p] \subseteq applied
    <3>1. /\ opening[p].next \in Nat /\ build[p] \in Build
          /\ 1..(opening[p].next - 1) \subseteq applied
          /\ opening[p].next > build[p]
      BY <1>5 DEF Opened, StoreInv, ProcessesFit, ProcessesComplete
    <3>2. build[p] \in Nat
      BY <3>1, BuildsAreLate
    <3> QED BY <3>1, <3>2
  <2> QED BY <1>5, <2>1, GotoComplete DEF Opened, dbVars
<1> QED BY <1>1, <1>2, <1>3, <1>4, <1>5 DEF OpenStep

LEMMA CompleteInvStep == CompleteInv /\ [Next]_vars => CompleteInv'
<1> SUFFICES ASSUME CompleteInv, [Next]_vars PROVE CompleteInv'
  OBVIOUS
<1> USE ProcAssumption DEF CompleteInv
<1>1. LifecycleTypeOK' /\ StoreInv' /\ StoreTypeOK
  BY TypesStep, StoreInvStep DEF LifecycleTypeOK
<1>2. phase = [p \in Daemon |-> phase[p]] /\ opening = [p \in Proc |-> opening[p]]
  BY <1>1 DEF LifecycleTypeOK, StoreTypeOK
<1>3. ASSUME UNCHANGED storeVars PROVE ProcessesComplete'
  BY <1>3 DEF ProcessesComplete, At, storeVars, dbVars
<1>4. ASSUME NEW p, CloseStore(p), UNCHANGED <<build, dbVars>>
      PROVE  ProcessesComplete' /\ \A q \in Proc : At(q, "closed") => At(q, "closed")'
  <2>1. ProcessesComplete'
    BY <1>1, <1>4, GotoComplete DEF CloseStore, dbVars
  <2> QED BY <1>2, <1>4, <2>1 DEF CloseStore, Goto, At
<1>5. ASSUME NEW p \in Daemon, NEW c \in Client, StartProcess(p, c)
      PROVE  ProcessesComplete' /\ StoreNotYetOpen'
  <2>1. At(p, "closed") /\ build' = [build EXCEPT ![p] = build[c]] /\ UNCHANGED <<opening, dbVars>>
    BY <1>5 DEF StartProcess, StoreNotYetOpen
  <2>2. ProcessesComplete'
    BY <1>1, <2>1 DEF ProcessesComplete, At, StoreTypeOK, dbVars
  <2>3. StoreNotYetOpen'
    BY <1>2, <1>5, <2>1 DEF StoreNotYetOpen, StartProcess, At
  <2> QED BY <2>2, <2>3
<1>6. ASSUME NEW p \in Proc, OpenStep(p)
      PROVE  ProcessesComplete' /\ \A q \in Proc : q # p => opening'[q] = opening[q]
  <2>1. ProcessesComplete'
    BY <1>1, <1>6, OpenStepComplete
  <2>2. PICK at, next : Goto(p, at, next)
    BY <1>6 DEF OpenStep, ReadVersion, ReadTables, Bridge, Baseline,
       CreateBaseline, RecordBaseline, Apply, Opened, StepFails, Fail
  <2> QED BY <1>2, <2>1, <2>2 DEF Goto
<1>7. CASE UNCHANGED <<storeVars, phase>>
  BY <1>1, <1>3, <1>7 DEF StoreNotYetOpen, At, storeVars
<1>8. ASSUME NEW p \in Daemon, Dies(p) \/ Gone(p), UNCHANGED <<build, dbVars>>
      PROVE  ProcessesComplete' /\ StoreNotYetOpen'
  <2>1. CloseStore(p) /\ phase' = [phase EXCEPT ![p] = "off"]
    BY <1>8 DEF Dies, Gone
  <2>2. At(p, "closed")'
    BY <1>2, <2>1 DEF CloseStore, Goto, At
  <2> QED BY <1>2, <1>4, <1>8, <2>1, <2>2 DEF StoreNotYetOpen
<1>9. ASSUME NEW c \in Client, ClientStep(c) PROVE ProcessesComplete' /\ StoreNotYetOpen'
  <2>1. CASE Signal(c)
    <3>1. registry \in Daemon
      BY <2>1 DEF Signal, Alive, LifecycleTypeOK, Maybe
    <3>2. CASE phase[registry] = "bound"
      <4>1. UNCHANGED <<storeVars, phase>>
        BY <2>1, <3>2 DEF Signal, storeVars
      <4> QED BY <1>7, <4>1
    <3>3. CASE phase[registry] # "bound"
      BY <1>8, <2>1, <3>1, <3>3 DEF Signal
    <3> QED BY <3>2, <3>3
  <2>2. CASE ~Signal(c)
    <3>1. UNCHANGED <<storeVars, phase>> \/ \E p \in Daemon : StartProcess(p, c)
      BY <1>9, <2>2 DEF ClientStep, Acquire, Reuse, Refuse, LookStale,
         ClearStale, Spawn, Ready, StartFails, GiveUp, Exited, Die, Release,
         daemonVars
    <3> QED BY <1>5, <1>7, <3>1
  <2> QED BY <2>1, <2>2
<1>10. ASSUME NEW c \in Client, HookStep(c) PROVE ProcessesComplete' /\ StoreNotYetOpen'
  <2>1. c \notin Daemon
    OBVIOUS
  <2>2. CASE RunHook(c)
    BY <1>7, <2>2 DEF RunHook, daemonVars
  <2>3. CASE EndHook(c)
    BY <1>4, <2>3 DEF EndHook, daemonVars, StoreNotYetOpen
  <2>4. CASE OpenStep(c) /\ UNCHANGED daemonVars
    BY <1>6, <2>1, <2>4 DEF daemonVars, StoreNotYetOpen, At
  <2> QED BY <1>10, <2>2, <2>3, <2>4 DEF HookStep
<1>11. ASSUME NEW p \in Daemon, DaemonStep(p) PROVE ProcessesComplete' /\ StoreNotYetOpen'
  <2>1. CASE PrepareCheck(p) \/ PrepareRemove(p) \/ Terminate(p) \/ LeavePort(p)
    <3>1. UNCHANGED storeVars
      BY <2>1 DEF PrepareCheck, PrepareRemove, Terminate, LeavePort
    <3>2. /\ phase' = [phase EXCEPT ![p] = phase'[p]]
          /\ phase'[p] \in {"off", "spawned", "prepare"} => phase[p] = "spawned"
      BY <1>2, <2>1 DEF PrepareCheck, PrepareRemove, Terminate, LeavePort, Ends
    <3> QED BY <1>2, <1>3, <3>1, <3>2 DEF StoreNotYetOpen, At, storeVars
  <2>2. CASE OpenStore(p)
    BY <1>6, <2>2 DEF OpenStore, daemonVars, StoreNotYetOpen, At
  <2>3. CASE OpenFails(p) \/ (Bind(p) /\ port # None)
    <3>1. CloseStore(p) /\ phase' = [phase EXCEPT ![p] = "off"] /\ UNCHANGED <<build, dbVars>>
      BY <2>3 DEF OpenFails, Bind, Ends
    <3>2. At(p, "closed")'
      BY <1>2, <3>1 DEF CloseStore, Goto, At
    <3> QED BY <1>2, <1>4, <3>1, <3>2 DEF StoreNotYetOpen
  <2>4. CASE Bind(p) /\ port = None
    <3>1. UNCHANGED storeVars /\ phase' = [phase EXCEPT ![p] = "bound"]
      BY <2>4 DEF Bind, Ends, storeVars
    <3> QED BY <1>2, <1>3, <3>1 DEF StoreNotYetOpen, At, storeVars
  <2>5. CASE Listen(p) \/ Record(p)
    BY <1>7, <2>5 DEF Listen, Record
  <2>6. CASE CheckOwner(p)
    <3>1. CASE registry = p
      <4>1. UNCHANGED storeVars /\ phase' = [phase EXCEPT ![p] = "removing"]
        BY <2>6, <3>1 DEF CheckOwner, Ends, storeVars
      <4> QED BY <1>2, <1>3, <4>1 DEF StoreNotYetOpen, At, storeVars
    <3>2. CASE registry # p
      BY <1>8, <2>6, <3>2 DEF CheckOwner
    <3> QED BY <3>1, <3>2
  <2>7. CASE RemoveFiles(p) \/ Crash(p)
    BY <1>8, <2>7 DEF RemoveFiles, Crash
  <2> QED
    BY <1>11, <2>1, <2>2, <2>3, <2>4, <2>5, <2>6, <2>7 DEF DaemonStep
<1>12. CASE UNCHANGED vars
  BY <1>7, <1>12 DEF vars, daemonVars
<1> QED
  BY <1>1, <1>5, <1>9, <1>10, <1>11, <1>12 DEF Next, StartByHand

\* A process that gets to use the store has every migration its build was
\* written for, whichever process ran it and whatever died in between
\* (store.Open, applyEmbeddedMigrations).
THEOREM OpenStoresAreComplete == Spec => []OpenStoreIsComplete
<1>1. CompleteInv => OpenStoreIsComplete
  <2> SUFFICES ASSUME CompleteInv, NEW p \in Proc, At(p, "open"), NEW m \in 1..build[p]
               PROVE  ran[m] = 1
    BY DEF OpenStoreIsComplete
  <2>1. m \in applied
    BY DEF CompleteInv, ProcessesComplete
  <2> QED
    BY <2>1 DEF CompleteInv, StoreInv, StoreFits, MigrationsRunOnce
<1> QED BY <1>1, CompleteInvInit, CompleteInvStep, PTL DEF Spec
-----------------------------------------------------------------------------
(* How the daemon is reached                                               *)

\* What a daemon has done so far.  The port is what excludes a second one.
DaemonsInOrder ==
  \A p \in Daemon :
    /\ phase[p] \in {"bound", "leaving"} => port = p
    /\ p \in listening => phase[p] = "bound"
    /\ p \in recorded => phase[p] \in {"bound", "leaving", "closing", "removing"}
    /\ p \in signalled => p \in recorded
    /\ phase[p] = "opening" \/ (phase[p] = "bound" /\ p \notin recorded) =>
         registry # p

\* The daemon that has the port and stays.
Stays(p) == phase[p] = "bound" /\ p \notin signalled

FilesFit ==
  \A p \in Daemon : Stays(p) =>
    /\ p \in listening => sock = p
    /\ p \in recorded => registry = p

\* While somebody is about to remove the files, they belong to nobody.
NoneUp == \A p \in Daemon : Stays(p) => p \notin listening \cup recorded

RemovingFits == Removing # {} => NoneUp

ReachInv == LifecycleTypeOK /\ DaemonsInOrder /\ FilesFit /\ RemovingFits

LEMMA ReachInvInit == Init => ReachInv
BY TypesInit
DEF Init, ReachInv, DaemonsInOrder, FilesFit, RemovingFits, NoneUp, Stays,
    Removing, Idle

\* Who finds the files stale, and no daemon half way up, finds no daemon up.
LEMMA StaleMeansNoneUp ==
  ASSUME FilesFit, Whole,
         ~Healthy \/ (registry \in Daemon /\ phase[registry] # "bound")
  PROVE  NoneUp
<1> SUFFICES ASSUME NEW p \in Daemon, Stays(p), p \in listening \cup recorded
             PROVE  FALSE
  BY DEF NoneUp
<1>1. p \notin HalfUp
  BY DEF Whole
<1>2. p \in listening /\ p \in recorded
  BY <1>1 DEF HalfUp, Stays
<1>3. registry = p /\ sock = p
  BY <1>2 DEF FilesFit
<1>4. p # None
  BY NoneAssumption, ProcAssumption
<1> QED BY <1>2, <1>3, <1>4 DEF Healthy, Alive, Answers, Stays

\* Who asks the socket need not care for daemons half way up.
LEMMA SilentMeansNoneUp ==
  ASSUME FilesFit, ~Alive(registry), ~Answers
  PROVE  NoneUp
<1> SUFFICES ASSUME NEW p \in Daemon, Stays(p), p \in listening \cup recorded
             PROVE  FALSE
  BY DEF NoneUp
<1>1. p # None
  BY NoneAssumption, ProcAssumption
<1>2. /\ p \in listening => sock = p
      /\ p \in recorded => registry = p
  BY DEF FilesFit
<1> QED BY <1>1, <1>2 DEF Alive, Answers, Stays

\* Where a client comes to, and that the others stay where they are.
LEMMA ClientGoes ==
  ASSUME LifecycleTypeOK, NEW c \in Client, NEW at, NEW pid, Goes(c, at, pid)
  PROVE  /\ client'[c].at = at
         /\ \A d \in Client : d # c => client'[d] = client[d]
<1>1. client[c] \in ClientState
  BY DEF LifecycleTypeOK
<1>2. PICK op, was, who : client[c] = [op |-> op, at |-> was, pid |-> who]
  BY <1>1 DEF ClientState, Idle
<1>3. /\ client'[c] = [client[c] EXCEPT !.at = at, !.pid = pid]
      /\ \A d \in Client : d # c => client'[d] = client[d]
  BY DEF Goes, LifecycleTypeOK
<1>4. PICK r : r = [client[c] EXCEPT !.at = at]
  OBVIOUS
<1>5. r = [op |-> op, at |-> at, pid |-> who]
  BY <1>2, <1>4
<1>6. [r EXCEPT !.pid = pid] = [op |-> op, at |-> at, pid |-> pid]
  BY <1>5
<1>7. client'[c] = [op |-> op, at |-> at, pid |-> pid]
  BY <1>3, <1>4, <1>6
<1> QED BY <1>3, <1>7

\* Only Ensure and Stop come to remove the files, and only from the check.
LEMMA ClientMoves ==
  ASSUME LifecycleTypeOK, NEW c \in Client, ClientStep(c) \/ HookStep(c)
  PROVE  /\ \A d \in Client : d # c => client'[d] = client[d]
         /\ client'[c].at = "clear" => LookStale(c) \/ Exited(c)
<1> DEFINE others == \A d \in Client : d # c => client'[d] = client[d]
<1>1. client[c] \in ClientState /\ client = [d \in Client |-> client[d]]
  BY DEF LifecycleTypeOK
<1>2. client[c].op = "hook" => client[c].at # "clear"
  BY <1>1 DEF ClientState, Idle
<1>3. CASE LookStale(c) \/ Exited(c)
  BY <1>1, <1>3, ClientGoes DEF LookStale, Exited, Release
<1>4. ASSUME client' = [client EXCEPT ![c] = Idle]
      PROVE  others /\ client'[c].at # "clear"
  BY <1>1, <1>4 DEF Idle
<1>5. CASE Acquire(c, "ensure") \/ Acquire(c, "stop")
  BY <1>1, <1>5 DEF Acquire
<1>6. CASE Reuse(c) \/ Refuse(c) \/ Ready(c) \/ StartFails(c) \/ GiveUp(c) \/ Die(c) \/ EndHook(c)
  BY <1>4, <1>6 DEF Reuse, Refuse, Ready, StartFails, GiveUp, Die, Release, EndHook
<1>7. CASE ClearStale(c)
  BY <1>4, <1>7, ClientGoes DEF ClearStale
<1>8. CASE Signal(c) \/ \E p \in Daemon : Spawn(c, p)
  BY <1>8, ClientGoes DEF Signal, Spawn
<1>9. CASE RunHook(c)
  <2>1. \A r : r = Idle => [r EXCEPT !.op = "hook"].at = "idle"
    BY DEF Idle
  <2> QED BY <1>1, <1>9, <2>1 DEF RunHook
<1>10. CASE client[c].op = "hook" /\ UNCHANGED client
  BY <1>2, <1>10
<1> QED
  BY <1>3, <1>5, <1>6, <1>7, <1>8, <1>9, <1>10 DEF ClientStep, HookStep

\* Daemons and files as they were: what matters is who begins to remove them.
LEMMA QuietFits ==
  ASSUME ReachInv, LifecycleTypeOK', UNCHANGED <<files, daemonVars>>,
         Removing' \subseteq Removing \/ NoneUp
  PROVE  ReachInv'
<1>1. DaemonsInOrder' /\ FilesFit'
  BY DEF ReachInv, DaemonsInOrder, FilesFit, Stays, files, daemonVars
<1>2. NoneUp => NoneUp'
  BY DEF NoneUp, Stays, daemonVars
<1> QED BY <1>1, <1>2 DEF ReachInv, RemovingFits

\* A daemon ends, and with it what it did.
LEMMA GoneFits ==
  ASSUME ReachInv, LifecycleTypeOK', NEW p \in Daemon, Gone(p),
         \/ UNCHANGED <<files, port>> /\ phase[p] \notin {"bound", "leaving"}
         \/ UNCHANGED files /\ port' = IF port = p THEN None ELSE port
         \/ NoneUp /\ registry' = None /\ sock' = None /\ UNCHANGED port
              /\ phase[p] = "removing",
         Removing' \subseteq Removing
  PROVE  ReachInv'
<1>1. /\ \A q \in Daemon : q # p => phase'[q] = phase[q]
      /\ phase'[p] = "off"
      /\ listening' = listening \ {p}
      /\ recorded' = recorded \ {p}
      /\ signalled' = signalled \ {p}
      /\ None \notin Daemon
  BY NoneAssumption, ProcAssumption DEF Gone, ReachInv, LifecycleTypeOK
<1>2. DaemonsInOrder'
  <2> SUFFICES ASSUME NEW q \in Daemon, q # p
               PROVE  /\ phase[q] \in {"bound", "leaving"} => port' = q
                      /\ registry = q \/ registry' # q
    BY <1>1 DEF DaemonsInOrder, ReachInv
  <2> QED BY <1>1 DEF DaemonsInOrder, ReachInv, files
<1>3. FilesFit'
  <2>1. CASE UNCHANGED files
    BY <1>1, <2>1 DEF FilesFit, Stays, ReachInv, files
  <2>2. CASE NoneUp
    BY <1>1, <2>2 DEF FilesFit, NoneUp, Stays
  <2> QED BY <2>1, <2>2
<1>4. NoneUp => NoneUp'
  BY <1>1 DEF NoneUp, Stays
<1> QED BY <1>2, <1>3, <1>4 DEF ReachInv, RemovingFits

\* A process that starts has done nothing yet, whatever pid it got.
LEMMA StartFits ==
  ASSUME ReachInv, LifecycleTypeOK', NEW p \in Daemon, NEW c \in Client,
         StartProcess(p, c), Removing' \subseteq Removing
  PROVE  ReachInv'
<1>1. /\ phase[p] = "off" /\ phase'[p] = "spawned"
      /\ \A q \in Daemon : q # p => phase'[q] = phase[q]
      /\ UNCHANGED <<registry, sock, port, listening, recorded, signalled>>
  BY DEF StartProcess, files, ReachInv, LifecycleTypeOK
<1>2. p \notin listening \cup recorded \cup signalled
  BY <1>1 DEF ReachInv, DaemonsInOrder
<1>3. DaemonsInOrder'
  BY <1>1, <1>2 DEF ReachInv, DaemonsInOrder
<1>4. \A q \in Daemon : Stays(q)' => Stays(q)
  BY <1>1 DEF Stays
<1>5. FilesFit' /\ (NoneUp => NoneUp')
  BY <1>1, <1>4 DEF ReachInv, FilesFit, NoneUp
<1> QED BY <1>3, <1>5 DEF ReachInv, RemovingFits

\* Ensure, Stop and the hooks.
LEMMA ClientStepReach ==
  ASSUME ReachInv, LifecycleTypeOK', NEW c \in Client, client[c].at = "exit" => Whole,
         ClientStep(c) \/ HookStep(c)
  PROVE  ReachInv'
<1>1. /\ LifecycleTypeOK /\ phase = [p \in Daemon |-> phase[p]]
      /\ None \notin Daemon
  BY NoneAssumption, ProcAssumption DEF ReachInv, LifecycleTypeOK
<1>2. /\ \A d \in Client : d # c => client'[d] = client[d]
      /\ client'[c].at = "clear" => LookStale(c) \/ Exited(c)
  BY <1>1, ClientMoves
<1>3. ASSUME UNCHANGED phase, client'[c].at # "clear"
      PROVE  Removing' \subseteq Removing
  BY <1>1, <1>2, <1>3, ProcAssumption DEF Removing
<1>4. CASE ClearStale(c)
  <2>1. NoneUp
    BY <1>4 DEF ReachInv, RemovingFits, Removing, ClearStale
  <2>2. UNCHANGED daemonVars /\ registry' = None /\ sock' = None
    BY <1>4 DEF ClearStale
  <2>3. DaemonsInOrder' /\ FilesFit' /\ NoneUp'
    BY <1>1, <2>1, <2>2
    DEF ReachInv, DaemonsInOrder, FilesFit, NoneUp, Stays, daemonVars
  <2> QED BY <2>3 DEF ReachInv, RemovingFits
<1>5. CASE Signal(c)
  <2>1. registry \in Daemon /\ UNCHANGED files
    BY <1>1, <1>5 DEF Signal, Alive, LifecycleTypeOK, Maybe
  <2>2. client'[c].at # "clear"
    BY <1>2, <1>5 DEF Signal, LookStale, Exited, In
  <2>3. CASE phase[registry] = "bound"
    <3>1. /\ UNCHANGED <<files, port, phase, listening, recorded>>
          /\ signalled' = signalled \cup {registry}
      BY <1>5, <2>3 DEF Signal
    <3>2. registry \in recorded
      BY <2>1, <2>3 DEF ReachInv, DaemonsInOrder
    <3>3. DaemonsInOrder' /\ FilesFit'
      BY <3>1, <3>2 DEF ReachInv, DaemonsInOrder, FilesFit, Stays, files
    <3>4. Removing' \subseteq Removing /\ (NoneUp => NoneUp')
      BY <1>3, <2>2, <3>1 DEF NoneUp, Stays
    <3> QED BY <3>3, <3>4 DEF ReachInv, RemovingFits
  <2>4. CASE phase[registry] # "bound"
    <3>1. Dies(registry)
      BY <1>5, <2>4 DEF Signal
    <3>2. Removing' \subseteq Removing
      BY <1>1, <1>2, <2>2, <3>1 DEF Removing, Dies, Gone
    <3> QED BY <2>1, <3>1, <3>2, GoneFits DEF Dies
  <2> QED BY <2>3, <2>4
<1>6. ASSUME NEW p \in Daemon, Spawn(c, p) PROVE ReachInv'
  <2>1. client'[c].at # "clear"
    BY <1>2, <1>6 DEF Spawn, LookStale, Exited, In
  <2>2. Removing' \subseteq Removing
    BY <1>1, <1>2, <1>6, <2>1, ProcAssumption DEF Removing, Spawn, StartProcess
  <2> QED BY <1>6, <2>2, StartFits DEF Spawn
<1>7. CASE LookStale(c) \/ Exited(c)
  <2>1. UNCHANGED <<files, daemonVars>>
    BY <1>7 DEF LookStale, Exited, Release
  <2>2. CASE client'[c].at # "clear"
    BY <1>3, <2>1, <2>2, QuietFits DEF daemonVars
  <2>3. CASE client'[c].at = "clear"
    <3>1. ~Answers
      BY <1>1, <1>7, <2>3 DEF LookStale, Exited, Release, Idle, LifecycleTypeOK
    <3>2. CASE LookStale(c)
      BY <2>1, <3>1, <3>2, SilentMeansNoneUp, QuietFits DEF ReachInv, LookStale
    <3>3. CASE Exited(c)
      <4>1. Whole /\ ~Healthy
        BY <3>1, <3>3 DEF Exited, In, Healthy
      <4> QED BY <2>1, <4>1, StaleMeansNoneUp, QuietFits DEF ReachInv
    <3> QED BY <1>7, <3>2, <3>3
  <2> QED BY <2>2, <2>3
<1>8. CASE UNCHANGED <<files, daemonVars>> /\ ~(LookStale(c) \/ Exited(c))
  BY <1>2, <1>3, <1>8, QuietFits DEF daemonVars
<1>9. CASE Acquire(c, "ensure") \/ Acquire(c, "stop") \/ Reuse(c) \/ Refuse(c)
           \/ Ready(c) \/ StartFails(c) \/ GiveUp(c) \/ Die(c) \/ HookStep(c)
  <2>1. UNCHANGED <<files, daemonVars>>
    BY <1>9 DEF Acquire, Reuse, Refuse, Ready, StartFails, GiveUp, Die, Release,
       HookStep, RunHook, EndHook
  <2> QED BY <1>7, <1>8, <2>1
<1> QED BY <1>4, <1>5, <1>6, <1>7, <1>9 DEF ClientStep

\* A daemon comes up, serves and leaves.
LEMMA DaemonStepReach ==
  ASSUME ReachInv, LifecycleTypeOK', NEW p \in Daemon, DaemonStep(p),
         phase[p] \in {"spawned", "closing"} => Whole,
         Removing # {} => NoneComesUp
  PROVE  ReachInv'
<1>1. /\ phase = [q \in Daemon |-> phase[q]]
      /\ None \notin Daemon /\ p \notin Client /\ p # None
  BY NoneAssumption, ProcAssumption DEF ReachInv, LifecycleTypeOK
<1>2. UNCHANGED client
  BY DEF DaemonStep, PrepareCheck, PrepareRemove, OpenStore, OpenFails, Bind,
     Listen, Record, Terminate, LeavePort, CheckOwner, RemoveFiles, Crash
<1>3. ASSUME NEW next, phase' = [phase EXCEPT ![p] = next]
      PROVE  /\ phase'[p] = next /\ \A q \in Daemon : q # p => phase'[q] = phase[q]
             /\ next \notin {"prepare", "removing"} => Removing' \subseteq Removing
  BY <1>1, <1>2, <1>3 DEF Removing
<1>4. ASSUME Gone(p) PROVE Removing' \subseteq Removing
  <2>1. phase' = [phase EXCEPT ![p] = "off"]
    BY <1>4 DEF Gone
  <2> QED BY <1>1, <1>2, <2>1 DEF Removing
<1>5. ASSUME phase[p] \in {"spawned", "prepare", "opening"}
      PROVE  p \notin listening \cup recorded \cup signalled
  BY <1>5 DEF ReachInv, DaemonsInOrder
<1>6. CASE PrepareCheck(p)
  <2>1. UNCHANGED <<files, port, listening, recorded, signalled>>
    BY <1>6 DEF PrepareCheck, Ends
  <2>2. PICK next \in {"off", "prepare"} :
          /\ phase' = [phase EXCEPT ![p] = next]
          /\ next = "prepare" => ~Healthy
    BY <1>6 DEF PrepareCheck, Ends
  <2>3. DaemonsInOrder'
    BY <1>3, <1>5, <1>6, <2>1, <2>2
    DEF ReachInv, DaemonsInOrder, files, PrepareCheck
  <2>4. FilesFit' /\ (NoneUp => NoneUp')
    BY <1>3, <2>1, <2>2 DEF ReachInv, FilesFit, NoneUp, Stays, files
  <2>5. next = "prepare" => NoneUp
    BY <1>6, <2>2, StaleMeansNoneUp DEF ReachInv, PrepareCheck
  <2> QED BY <1>3, <2>2, <2>3, <2>4, <2>5 DEF ReachInv, RemovingFits
<1>7. CASE PrepareRemove(p)
  <2>1. /\ registry' = None /\ sock' = None
        /\ UNCHANGED <<port, listening, recorded, signalled>>
        /\ phase' = [phase EXCEPT ![p] = "opening"]
    BY <1>7 DEF PrepareRemove, Ends
  <2>2. NoneUp
    BY <1>7 DEF PrepareRemove, ReachInv, RemovingFits, Removing
  <2>3. DaemonsInOrder'
    BY <1>1, <1>3, <1>5, <1>7, <2>1
    DEF ReachInv, DaemonsInOrder, PrepareRemove
  <2>4. FilesFit'
    BY <1>3, <2>1, <2>2 DEF FilesFit, NoneUp, Stays
  <2>5. NoneUp'
    BY <1>3, <2>1, <2>2 DEF NoneUp, Stays
  <2> QED BY <2>3, <2>4, <2>5 DEF ReachInv, RemovingFits
<1>8. CASE OpenStore(p)
  <2>1. UNCHANGED <<files, daemonVars>>
    BY <1>8 DEF OpenStore
  <2>2. Removing' \subseteq Removing
    BY <1>2, <2>1 DEF Removing, daemonVars
  <2> QED BY <2>1, <2>2, QuietFits
<1>9. CASE OpenFails(p) \/ (Bind(p) /\ port # None)
  <2>1. /\ UNCHANGED <<files, port, listening, recorded, signalled>>
        /\ phase' = [phase EXCEPT ![p] = "off"]
        /\ phase[p] = "opening"
    BY <1>9 DEF OpenFails, Bind, Ends
  <2>2. DaemonsInOrder'
    BY <1>3, <1>5, <2>1 DEF ReachInv, DaemonsInOrder, files
  <2>3. FilesFit'
    BY <1>3, <2>1 DEF ReachInv, FilesFit, Stays, files
  <2>4. NoneUp => NoneUp'
    BY <1>3, <2>1 DEF NoneUp, Stays
  <2> QED BY <1>3, <2>1, <2>2, <2>3, <2>4 DEF ReachInv, RemovingFits
<1>10. CASE Bind(p) /\ port = None
  <2>1. /\ UNCHANGED <<files, listening, recorded, signalled>>
        /\ phase' = [phase EXCEPT ![p] = "bound"] /\ port' = p
        /\ phase[p] = "opening" /\ registry # p
    BY <1>10 DEF Bind, Ends, ReachInv, DaemonsInOrder
  <2>2. \A q \in Daemon : phase[q] \notin {"bound", "leaving"}
    BY <1>1, <1>10 DEF ReachInv, DaemonsInOrder
  <2>3. DaemonsInOrder'
    BY <1>3, <1>5, <2>1, <2>2 DEF ReachInv, DaemonsInOrder, files
  <2>4. FilesFit' /\ NoneUp'
    BY <1>3, <1>5, <2>1, <2>2 DEF FilesFit, NoneUp, Stays
  <2> QED BY <2>3, <2>4 DEF ReachInv, RemovingFits
<1>11. CASE Listen(p) \/ Record(p) \/ Terminate(p)
  <2>1. \A q \in Daemon : Stays(q) => q = p
    BY <1>11 DEF ReachInv, DaemonsInOrder, Stays, Listen, Record, Terminate
  <2>2. ASSUME Listen(p) \/ Record(p) PROVE Removing' = {}
    <3>1. ~NoneComesUp
      BY <2>2 DEF NoneComesUp, Listen, Record
    <3> QED BY <1>2, <2>2, <3>1 DEF Removing, Listen, Record
  <2>3. CASE Listen(p)
    <3>1. Removing' = {}
      BY <2>2, <2>3
    <3>2. DaemonsInOrder' /\ FilesFit'
      BY <2>1, <2>3 DEF Listen, ReachInv, DaemonsInOrder, FilesFit, Stays
    <3> QED BY <3>1, <3>2 DEF ReachInv, RemovingFits
  <2>4. CASE Record(p)
    <3>1. DaemonsInOrder'
      BY <2>4 DEF Record, ReachInv, DaemonsInOrder
    <3>2. FilesFit'
      BY <2>1, <2>4 DEF Record, ReachInv, FilesFit, Stays
    <3>3. Removing' = {}
      BY <2>2, <2>4
    <3> QED BY <3>1, <3>2, <3>3 DEF ReachInv, RemovingFits
  <2>5. CASE Terminate(p)
    <3>1. /\ phase' = [phase EXCEPT ![p] = "leaving"] /\ phase[p] = "bound"
          /\ listening' = listening \ {p} /\ p \in recorded
          /\ UNCHANGED <<registry, port, recorded, signalled>>
      BY <2>5 DEF Terminate
    <3>2. DaemonsInOrder'
      BY <1>3, <3>1 DEF ReachInv, DaemonsInOrder
    <3>3. \A q \in Daemon : ~Stays(q)'
      BY <1>1, <2>1, <3>1 DEF Stays
    <3>4. FilesFit' /\ NoneUp'
      BY <3>3 DEF FilesFit, NoneUp
    <3> QED BY <3>2, <3>4 DEF ReachInv, RemovingFits
  <2> QED BY <1>11, <2>3, <2>4, <2>5
<1>12. CASE LeavePort(p)
  <2>1. /\ phase' = [phase EXCEPT ![p] = "closing"] /\ phase[p] = "leaving"
        /\ UNCHANGED <<files, listening, recorded, signalled>> /\ port' = None
    BY <1>12 DEF LeavePort, Ends
  <2>2. \A q \in Daemon : q # p => phase[q] \notin {"bound", "leaving"}
    BY <2>1 DEF ReachInv, DaemonsInOrder
  <2>3. /\ phase'[p] = "closing" /\ Removing' \subseteq Removing
        /\ \A q \in Daemon : q # p => phase'[q] = phase[q]
    BY <1>1, <1>2, <2>1 DEF Removing
  <2>4. DaemonsInOrder'
    BY <2>1, <2>2, <2>3 DEF ReachInv, DaemonsInOrder, files
  <2>5. FilesFit' /\ (NoneUp => NoneUp')
    BY <2>1, <2>3 DEF ReachInv, FilesFit, NoneUp, Stays, files
  <2> QED BY <2>3, <2>4, <2>5 DEF ReachInv, RemovingFits
<1>13. CASE CheckOwner(p)
  <2>1. CASE registry # p
    BY <1>4, <1>13, <2>1, GoneFits DEF CheckOwner
  <2>2. CASE registry = p
    <3>1. /\ phase' = [phase EXCEPT ![p] = "removing"] /\ phase[p] = "closing"
          /\ UNCHANGED <<files, port, listening, recorded, signalled>>
      BY <1>13, <2>2 DEF CheckOwner, Ends
    <3>2. DaemonsInOrder' /\ FilesFit' /\ (NoneUp => NoneUp')
      BY <1>3, <3>1 DEF ReachInv, DaemonsInOrder, FilesFit, NoneUp, Stays, files
    <3>3. NoneUp
      BY <2>2, <3>1, StaleMeansNoneUp DEF ReachInv
    <3> QED BY <3>2, <3>3 DEF ReachInv, RemovingFits
  <2> QED BY <2>1, <2>2
<1>14. CASE RemoveFiles(p)
  <2>1. NoneUp
    BY <1>14 DEF RemoveFiles, ReachInv, RemovingFits, Removing
  <2> QED BY <1>4, <1>14, <2>1, GoneFits DEF RemoveFiles
<1>15. CASE Crash(p)
  BY <1>4, <1>15, GoneFits DEF Crash, Dies
<1> QED
  BY <1>6, <1>7, <1>8, <1>9, <1>10, <1>11, <1>12, <1>13, <1>14, <1>15
  DEF DaemonStep

LEMMA ReachInvStep == ReachInv /\ [OrderlyNext]_vars => ReachInv'
<1> SUFFICES ASSUME ReachInv, [OrderlyNext]_vars PROVE ReachInv'
  OBVIOUS
<1>1. LifecycleTypeOK'
  BY TypesStep DEF ReachInv, OrderlyNext, Next
<1>2. CASE UNCHANGED vars
  <2>1. Removing' \subseteq Removing /\ UNCHANGED <<files, daemonVars>>
    BY <1>2 DEF vars, daemonVars, Removing
  <2> QED BY <1>1, <2>1, QuietFits
<1>3. ASSUME NEW c \in Client, NEW p \in Daemon, StartByHand(c, p) PROVE ReachInv'
  <2>1. Removing' \subseteq Removing
    BY <1>3 DEF StartByHand, StartProcess, Removing, ReachInv, LifecycleTypeOK
  <2> QED BY <1>1, <1>3, <2>1, StartFits DEF StartByHand
<1> QED
  BY <1>1, <1>2, <1>3, ClientStepReach, DaemonStepReach DEF OrderlyNext

\* The daemon that serves is the one the registry names and the socket reaches,
\* however many daemons come up, fail to bind, are given up, are started by hand
\* or outlive a newer one, as long as no daemon comes up between a check of the
\* files and the removal it decides, and no check but that of Ensure falls
\* between the socket and the record of a daemon (main.go, runDaemon and
\* prepareDaemonStart; daemonctl, clearStale).
THEOREM DaemonIsReachable == OrderlySpec => []ServingDaemonIsReachable
<1>1. ReachInv => ServingDaemonIsReachable
  BY DEF ReachInv, FilesFit, Stays, ServingDaemonIsReachable, Serving
<1> QED BY <1>1, ReachInvInit, ReachInvStep, PTL DEF OrderlySpec
=============================================================================
