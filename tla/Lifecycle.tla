------------------------------ MODULE Lifecycle ------------------------------
(***************************************************************************)
(* The one daemon of a user: the clients that ensure it runs or stop it,   *)
(* under a file lock; the daemon processes, which prepare the directory,   *)
(* open the store, bind the HTTP port, listen on the socket and record     *)
(* themselves; and the files they share, the registry and the socket.      *)
(* Clients run different builds, and their hooks open the store without    *)
(* the daemon.                                                             *)
(***************************************************************************)
EXTENDS Migrations, FiniteSets

CONSTANTS Client,   \* sessions' shims, watches, hooks and command lines
          Daemon,   \* process ids the system gives to daemons
          None      \* no process, or a missing file

ASSUME ProcAssumption == Proc = Client \cup Daemon /\ Client \cap Daemon = {}
ASSUME NoneAssumption == None \notin Proc

VARIABLES lock,       \* the holder of daemon.lock
          registry,   \* the pid in daemon.json
          sock,       \* the process whose socket is at atct.sock
          port,       \* the process that has the HTTP port
          client,     \* what each client does
          phase,      \* how far each daemon process is
          listening,  \* processes that accept on their socket
          recorded,   \* processes that have written the registry
          signalled   \* processes with a SIGTERM to handle

files == <<registry, sock>>
daemonVars == <<port, phase, listening, recorded, signalled>>
vars == <<storeVars, lock, files, client, daemonVars>>

Maybe(S) == S \cup {None}

Idle == [op |-> "idle", at |-> "idle", pid |-> None]

Alive(p) == p # None /\ phase[p] # "off"

\* SocketAnswers and Registry.Healthy.
Answers == sock \in listening
Healthy == Alive(registry) /\ Answers

Serving(p) ==
  phase[p] = "bound" /\ p \in listening \cap recorded /\ p \notin signalled

Init ==
  /\ StoreInit
  /\ lock = None
  /\ registry = None
  /\ sock = None
  /\ port = None
  /\ client = [c \in Client |-> Idle]
  /\ phase = [p \in Daemon |-> "off"]
  /\ listening = {}
  /\ recorded = {}
  /\ signalled = {}
-----------------------------------------------------------------------------
(* Ensure and Stop, which hold the lock from the first step to the last    *)

Acquire(c, op) ==
  /\ client[c] = Idle
  /\ lock = None
  /\ lock' = c
  /\ client' = [client EXCEPT ![c] = [op |-> op, at |-> "look", pid |-> None]]
  /\ UNCHANGED <<storeVars, files, daemonVars>>

In(c, op, at) == client[c].op = op /\ client[c].at = at

Goes(c, at, pid) == client' = [client EXCEPT ![c].at = at, ![c].pid = pid]

Release(c) ==
  /\ lock' = None
  /\ client' = [client EXCEPT ![c] = Idle]
  /\ UNCHANGED <<storeVars, files, daemonVars>>

\* A healthy daemon of the caller's build is reused.
Reuse(c) ==
  /\ In(c, "ensure", "look")
  /\ Healthy
  /\ build[registry] = build[c]
  /\ Release(c)

\* ErrVersionMismatch, and ErrUnresponsive of a process that does not answer.
Refuse(c) ==
  /\ In(c, "ensure", "look")
  /\ Alive(registry)
  /\ Healthy => build[registry] # build[c]
  /\ Release(c)

\* Nothing recorded is alive: the files are stale unless the socket answers.
LookStale(c) ==
  /\ client[c].at = "look"
  /\ ~Alive(registry)
  /\ IF Answers THEN Release(c)
     ELSE /\ Goes(c, "clear", None)
          /\ UNCHANGED <<storeVars, lock, files, daemonVars>>

\* The second half of clearStale.  Stop is done with it.
ClearStale(c) ==
  /\ client[c].at = "clear"
  /\ sock' = None
  /\ registry' = None
  /\ IF client[c].op = "ensure"
     THEN Goes(c, "spawn", None) /\ UNCHANGED lock
     ELSE client' = [client EXCEPT ![c] = Idle] /\ lock' = None
  /\ UNCHANGED <<storeVars, daemonVars>>

\* The pid of a new process may be one the registry still names.
StartProcess(p, c) ==
  /\ phase[p] = "off"
  /\ phase' = [phase EXCEPT ![p] = "spawned"]
  /\ build' = [build EXCEPT ![p] = build[c]]
  /\ UNCHANGED <<opening, dbVars, files, port, listening, recorded, signalled>>

Spawn(c, p) ==
  /\ In(c, "ensure", "spawn")
  /\ StartProcess(p, c)
  /\ Goes(c, "wait", p)
  /\ UNCHANGED lock

\* The poll takes any healthy daemon, the child or not.
Ready(c) ==
  /\ In(c, "ensure", "wait")
  /\ Healthy
  /\ Release(c)

\* ErrStartTimeout, once the child is gone.
StartFails(c) ==
  /\ In(c, "ensure", "wait")
  /\ ~Healthy
  /\ ~Alive(client[c].pid)
  /\ Release(c)

\* ErrStartTimeout, or the death of the caller, while the child, which
\* outlives it, still starts.
GiveUp(c) ==
  /\ In(c, "ensure", "wait")
  /\ ~Healthy
  /\ Alive(client[c].pid)
  /\ Release(c)

\* What is left of a process that has ended, but for its files.
Gone(p) ==
  /\ CloseStore(p)
  /\ phase' = [phase EXCEPT ![p] = "off"]
  /\ listening' = listening \ {p}
  /\ recorded' = recorded \ {p}
  /\ signalled' = signalled \ {p}

Dies(p) == Gone(p) /\ port' = IF port = p THEN None ELSE port

\* SIGTERM.  It kills a process that has no handler for it yet, or no more.
Signal(c) ==
  /\ In(c, "stop", "look")
  /\ Alive(registry)
  /\ IF phase[registry] = "bound"
     THEN signalled' = signalled \cup {registry}
          /\ UNCHANGED <<opening, port, phase, listening, recorded>>
     ELSE Dies(registry)
  /\ Goes(c, "exit", registry)
  /\ UNCHANGED <<build, dbVars, lock, files>>

\* The signalled process is gone: clearStale.
Exited(c) ==
  /\ In(c, "stop", "exit")
  /\ ~Alive(client[c].pid)
  /\ IF Answers THEN Release(c)
     ELSE /\ Goes(c, "clear", None)
          /\ UNCHANGED <<storeVars, lock, files, daemonVars>>

\* The client dies, or Stop gives up, and the lock is free again; a daemon
\* that was signalled leaves all the same.
Die(c) ==
  /\ client[c].at \in {"look", "clear", "spawn", "exit"}
  /\ Release(c)

ClientStep(c) ==
  \/ Acquire(c, "ensure")
  \/ Acquire(c, "stop")
  \/ Reuse(c)
  \/ Refuse(c)
  \/ LookStale(c)
  \/ ClearStale(c)
  \/ \E p \in Daemon : Spawn(c, p)
  \/ Ready(c)
  \/ StartFails(c)
  \/ GiveUp(c)
  \/ Signal(c)
  \/ Exited(c)
  \/ Die(c)
-----------------------------------------------------------------------------
(* context, pending, role and merge-check open the store themselves        *)

RunHook(c) ==
  /\ client[c] = Idle
  /\ client' = [client EXCEPT ![c].op = "hook"]
  /\ UNCHANGED <<storeVars, lock, files, daemonVars>>

EndHook(c) ==
  /\ client[c].op = "hook"
  /\ opening[c].at \in {"open", "failed"}
  /\ CloseStore(c)
  /\ client' = [client EXCEPT ![c] = Idle]
  /\ UNCHANGED <<build, dbVars, lock, files, daemonVars>>

HookStep(c) ==
  \/ RunHook(c)
  \/ EndHook(c)
  \/ /\ client[c].op = "hook"
     /\ OpenStep(c)
     /\ UNCHANGED <<lock, files, client, daemonVars>>
-----------------------------------------------------------------------------
(* runDaemon                                                               *)

Ends(p, next) ==
  /\ phase' = [phase EXCEPT ![p] = next]
  /\ UNCHANGED <<listening, recorded, signalled>>

\* prepareDaemonStart refuses when the recorded daemon is healthy ...
PrepareCheck(p) ==
  /\ phase[p] = "spawned"
  /\ Ends(p, IF Healthy THEN "off" ELSE "prepare")
  /\ UNCHANGED <<storeVars, lock, files, client, port>>

\* ... and otherwise removes the files, without the lock and without asking
\* the socket.
PrepareRemove(p) ==
  /\ phase[p] = "prepare"
  /\ sock' = None
  /\ registry' = None
  /\ Ends(p, "opening")
  /\ UNCHANGED <<storeVars, lock, client, port>>

OpenStore(p) ==
  /\ phase[p] = "opening"
  /\ OpenStep(p)
  /\ UNCHANGED <<lock, files, client, daemonVars>>

OpenFails(p) ==
  /\ phase[p] = "opening"
  /\ At(p, "failed")
  /\ CloseStore(p)
  /\ Ends(p, "off")
  /\ UNCHANGED <<build, dbVars, lock, files, client, port>>

\* listenHTTP; the process ends when another one has the port.
Bind(p) ==
  /\ phase[p] = "opening"
  /\ At(p, "open")
  /\ IF port = None
     THEN port' = p /\ Ends(p, "bound") /\ UNCHANGED opening
     ELSE CloseStore(p) /\ Ends(p, "off") /\ UNCHANGED port
  /\ UNCHANGED <<build, dbVars, lock, files, client>>

\* Serve replaces whatever is at the path of the socket.
Listen(p) ==
  /\ phase[p] = "bound"
  /\ p \notin listening \cup signalled
  /\ sock' = p
  /\ listening' = listening \cup {p}
  /\ UNCHANGED <<storeVars, lock, registry, client, port, phase, recorded, signalled>>

\* WriteRegistry runs beside Serve.  It is one step here: the instant in which
\* the file is truncated, and reads as malformed, is left out.
Record(p) ==
  /\ phase[p] = "bound"
  /\ p \notin recorded
  /\ registry' = p
  /\ recorded' = recorded \cup {p}
  /\ UNCHANGED <<storeVars, lock, sock, client, port, phase, listening, signalled>>

\* A signal, or an error of one of the two servers, ends Serve.  Its listener
\* is closed, which unlinks the path of the socket, whoever's socket is there.
\* A Serve that had not begun listens for an instant and ends the same way.
Terminate(p) ==
  /\ phase[p] = "bound"
  /\ p \in recorded
  /\ listening' = listening \ {p}
  /\ sock' = None
  /\ phase' = [phase EXCEPT ![p] = "leaving"]
  /\ UNCHANGED <<storeVars, lock, registry, client, port, recorded, signalled>>

\* httpServer.Shutdown gives up the port, and waits for its connections ...
LeavePort(p) ==
  /\ phase[p] = "leaving"
  /\ port' = None
  /\ Ends(p, "closing")
  /\ UNCHANGED <<storeVars, lock, files, client>>

\* Mutant: the files are taken to be those of this process.
CheckNoOwner(p) ==
  /\ phase[p] = "closing"
  /\ Ends(p, "removing")
  /\ UNCHANGED <<storeVars, lock, files, client, port>>

\* ... then RegistryOwnedBy reads the registry: a newer daemon may have been
\* started since ...
CheckOwner(p) ==
  /\ phase[p] = "closing"
  /\ IF registry = p
     THEN Ends(p, "removing") /\ UNCHANGED opening
     ELSE Gone(p)
  /\ UNCHANGED <<build, dbVars, lock, files, client, port>>

\* ... and if it names this process, the files are removed.
RemoveFiles(p) ==
  /\ phase[p] = "removing"
  /\ registry' = None
  /\ sock' = None
  /\ Gone(p)
  /\ UNCHANGED <<build, dbVars, lock, client, port>>

\* The process dies; its files stay.
Crash(p) ==
  /\ Alive(p)
  /\ Dies(p)
  /\ UNCHANGED <<build, dbVars, lock, files, client>>

DaemonStep(p) ==
  \/ PrepareCheck(p)
  \/ PrepareRemove(p)
  \/ OpenStore(p)
  \/ OpenFails(p)
  \/ Bind(p)
  \/ Listen(p)
  \/ Record(p)
  \/ Terminate(p)
  \/ LeavePort(p)
  \/ CheckOwner(p)
  \/ RemoveFiles(p)
  \/ Crash(p)
-----------------------------------------------------------------------------
\* A user runs atct daemon.
StartByHand(c, p) ==
  /\ client[c] = Idle
  /\ StartProcess(p, c)
  /\ UNCHANGED <<lock, client>>

Next ==
  \/ \E c \in Client : ClientStep(c) \/ HookStep(c) \/ \E p \in Daemon : StartByHand(c, p)
  \/ \E p \in Daemon : DaemonStep(p)

Spec == Init /\ [][Next]_vars

\* Nothing in the code keeps a daemon from coming up between the check that
\* files are stale, or one's own, and their removal, nor keeps that check from
\* falling between the socket and the record of a daemon that comes up.  These
\* are moments of a few system calls.
Removing == {c \in Client : client[c].at = "clear"}
            \cup {p \in Daemon : phase[p] \in {"prepare", "removing"}}

HalfUp == {p \in Daemon : /\ phase[p] = "bound" /\ p \notin signalled
                         /\ (p \in listening) # (p \in recorded)}

Whole == HalfUp = {}

NoneComesUp == listening' \subseteq listening /\ recorded' \subseteq recorded

\* The same program without these two.  Starts, stops, time-outs, migrations and
\* shutdowns take as long as they take, several daemons may come up and leave at
\* the same time, and Ensure may look at any moment, for it asks the socket.
OrderlyNext ==
  \/ \E c \in Client :
       /\ client[c].at = "exit" => Whole
       /\ ClientStep(c) \/ HookStep(c) \/ \E p \in Daemon : StartByHand(c, p)
  \/ \E p \in Daemon :
       /\ phase[p] \in {"spawned", "closing"} => Whole
       /\ DaemonStep(p)
       /\ Removing # {} => NoneComesUp

OrderlySpec == Init /\ [][OrderlyNext]_vars
-----------------------------------------------------------------------------
ClientState ==
  {Idle, [op |-> "hook", at |-> "idle", pid |-> None]}
  \cup [op : {"ensure", "stop"}, at : {"look", "clear", "spawn"}, pid : {None}]
  \cup [op : {"ensure"}, at : {"wait"}, pid : Daemon]
  \cup [op : {"stop"}, at : {"exit"}, pid : Daemon]

\* Every variable stays in its type, and the process that has the lock is the
\* one that is inside Ensure or Stop.
LifecycleTypeOK ==
  /\ StoreTypeOK
  /\ lock \in Maybe(Client)
  /\ registry \in Maybe(Daemon)
  /\ sock \in Maybe(Daemon)
  /\ port \in Maybe(Daemon)
  /\ client \in [Client -> ClientState]
  /\ phase \in [Daemon -> {"off", "spawned", "prepare", "opening", "bound",
                           "leaving", "closing", "removing"}]
  /\ listening \in SUBSET Daemon
  /\ recorded \in SUBSET Daemon
  /\ signalled \in SUBSET Daemon
  /\ \A c \in Client : lock = c <=> client[c].op \in {"ensure", "stop"}

\* A daemon that serves is the one the registry names and the socket reaches.
\* In particular "a daemon that outlived a newer one" does not delete "the newer
\* one's files on the way out", which "strands the survivor holding the HTTP
\* port with no socket" (main.go, runDaemon), and a start that fails to bind or
\* is given up leaves the files of the daemon that has the port.
ServingDaemonIsReachable ==
  \A p \in Daemon : Serving(p) => registry = p /\ sock = p

=============================================================================
