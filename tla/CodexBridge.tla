------------------------------ MODULE CodexBridge ------------------------------
(***************************************************************************)
(* The monitor of a Codex session: watches hear events for the agent and   *)
(* put them into the queue of a bridge, which starts a turn of the         *)
(* session's thread for one after the other, through the App Server of the *)
(* session.  One goroutine for each scope that is watched and one that     *)
(* reads the App Server's notifications pump the queue.                    *)
(*                                                                         *)
(* What the watches hear, and in which order, is the module Watch.         *)
(***************************************************************************)
EXTENDS Integers, Sequences, FiniteSets, SequencesExt

CONSTANTS Watcher,        \* watches of the scopes of the session
          Goal,           \* goals, each with its handoff
          None,           \* no action
          MaxReview,      \* bound: generations of a handoff's reviews
          MaxEvents,      \* bound: events heard
          NoteCap         \* notifications the monitor holds unread

ASSUME CodexAssumption ==
  /\ "run" \notin Watcher
  /\ MaxReview \in Nat \ {0} /\ MaxEvents \in Nat
  /\ NoteCap \in Nat /\ NoteCap >= 4

VARIABLES attached,       \* the thread of the TUI is known (threadID)
          active,         \* a turn runs or is reserved
          doing,          \* activeAction
          queue,          \* actions to start a turn for
          receipts,       \* reviewControlGenerations
          disabled,       \* the bridge gave up
          refused,        \* the last submission was refused while no turn ran, and
                          \* the thread did not become idle since
          lock,           \* who holds submitMu
          pump,           \* where each goroutine is in pump
          server,         \* the App Server: is it up, its turns, requests nobody waits for
          notes,          \* notifications not yet read
          monitor,        \* the supervisor's view of the monitor
          events          \* number of events heard

bridge == <<attached, active, doing, queue, receipts, disabled, refused>>
vars == <<bridge, lock, pump, server, notes, monitor, events>>

Pumper == Watcher \cup {"run"}

\* A review has the generation of its phase; other events have none.  What an
\* event is about gives its delivery key.
Review == [kind : {"review"}, of : Goal, gen : 1..MaxReview]
Event == [kind : {"approval", "receive"}, of : Goal, gen : {0}]
Action == Review \cup Event

ASSUME NoneAssumption == None \notin Action \cup Pumper

IsReview(a) == a # None /\ a.kind = "review"
Among(a, s) == a \in ToSet(s)

Resting(p) == pump[p].at \in {"rest", "cut"}
At(p, step) == pump[p].at = step
Rest == [at |-> "rest", action |-> None, reply |-> "none"]
Pumping == [Rest EXCEPT !.at = "lock"]
Leave(p) == pump' = [pump EXCEPT ![p] = Rest] /\ lock' = None

Init ==
  /\ attached = FALSE /\ active = FALSE /\ doing = None /\ queue = <<>>
  /\ receipts = [g \in Goal |-> 0]
  /\ disabled = FALSE /\ refused = FALSE
  /\ lock = None
  /\ pump = [p \in Pumper |-> Rest]
  /\ server = [up |-> TRUE, turns |-> 0, abandoned |-> 0]
  /\ notes = <<>>
  /\ monitor = "on"
  /\ events = 0
-----------------------------------------------------------------------------
(* The watches                                                             *)

\* A watch passes an event on, and pumps.
Hear(w) ==
  /\ monitor = "on" /\ ~disabled /\ Resting(w)
  /\ events < MaxEvents
  /\ events' = events + 1
  /\ pump' = [pump EXCEPT ![w] = Pumping]
  /\ UNCHANGED <<attached, active, doing, disabled, refused, lock, server, notes, monitor>>

\* Mutant: a review that the queue does not know is news.
NewerThanQueued(a) ==
  \A b \in ToSet(queue) \cup {doing} : (IsReview(b) /\ b.of = a.of) => a.gen > b.gen

\* enqueueReviewActionLocked: only a review newer than all that is known of its
\* handoff is news.
Newer(a) ==
  /\ a.gen > receipts[a.of]
  /\ \A b \in ToSet(queue) \cup {doing} : (IsReview(b) /\ b.of = a.of) => a.gen > b.gen

\* It takes the place of the queued one, of which there is at most one.
Coalesced(a) ==
  LET old == {n \in DOMAIN queue : IsReview(queue[n]) /\ queue[n].of = a.of} IN
  IF old = {} THEN Append(queue, a)
  ELSE [n \in DOMAIN queue |-> IF n \in old THEN a ELSE queue[n]]

HearReview(w, a) ==
  /\ Hear(w)
  /\ queue' = IF Newer(a) THEN Coalesced(a) ELSE queue
  /\ UNCHANGED receipts

\* The loop that keeps the rest of a queue: a recursive function, which proofs
\* can reason about.
Without(s, gone) ==
  LET kept[n \in 0..Len(s)] ==
        IF n = 0 THEN <<>>
        ELSE IF s[n] \in gone THEN kept[n - 1] ELSE Append(kept[n - 1], s[n])
  IN  kept[Len(s)]

\* The receipt of a review is no turn; older reviews of the handoff go.
HearReceipt(w, g, gen) ==
  /\ Hear(w)
  /\ queue' = Without(queue, {a \in Review : a.of = g /\ a.gen < gen})
  /\ receipts' = [receipts EXCEPT ![g] = IF gen > @ THEN gen ELSE @]

\* A goal that was received needs no approval any more.
Moot(a) ==
  {b \in Event : a.kind = "receive" /\ b.kind = "approval" /\ b.of = a.of}

\* enqueueAction of what is no review: once for its delivery key.
HearEvent(w, a) ==
  /\ Hear(w)
  /\ ~Among(a, queue) /\ doing # a
  /\ queue' = Append(Without(queue, Moot(a)), a)
  /\ UNCHANGED receipts

\* The binding of the session changes, and the watches of the old scopes end:
\* a submission that is not sent yet is not, and one that is sent goes on
\* without anybody who waits for its response.
Rebind(w) ==
  /\ monitor = "on"
  /\ (At(w, "lock") /\ lock # w) \/ At(w, "turn")
  /\ pump' = [pump EXCEPT ![w] = [Rest EXCEPT !.at = "cut"]]
  /\ IF At(w, "turn")
     THEN /\ lock' = None
          /\ active' = FALSE /\ doing' = None
          /\ server' = IF pump[w].reply = "none" THEN [server EXCEPT !.abandoned = 1] ELSE server
     ELSE UNCHANGED <<lock, active, doing, server>>
  /\ UNCHANGED <<attached, queue, receipts, disabled, refused, notes, monitor, events>>
-----------------------------------------------------------------------------
(* The pump                                                                *)

\* It takes the lock, reserves the turn and asks for it, or has nothing to do.
Pick(p) ==
  /\ At(p, "lock") /\ lock \in {None, p}
  /\ IF disabled \/ active \/ ~attached \/ queue = <<>>
     THEN Leave(p) /\ UNCHANGED <<active, doing, refused>>
     ELSE /\ lock' = p /\ refused' = FALSE
          /\ active' = TRUE /\ doing' = Head(queue)
          /\ pump' = [pump EXCEPT ![p] = [at |-> "turn", action |-> Head(queue), reply |-> "none"]]
  /\ UNCHANGED <<attached, queue, receipts, disabled, server, notes, monitor, events>>

\* The response came: the head of the queue is done, and the pump goes on.  If
\* the queue was emptied meanwhile, the monitor ends with a panic.
Accepted(p) ==
  /\ At(p, "turn") /\ pump[p].reply = "ok"
  /\ IF queue = <<>>
     THEN monitor' = "crashed" /\ UNCHANGED <<queue, pump>>
     ELSE queue' = Tail(queue) /\ pump' = [pump EXCEPT ![p] = Pumping] /\ UNCHANGED monitor
  /\ UNCHANGED <<attached, active, doing, receipts, disabled, refused, lock, server, notes,
                 events>>

\* The App Server refused the turn: the action stays queued, and nobody retries
\* before the next idle transition or event.
Refused(p) ==
  /\ At(p, "turn") /\ pump[p].reply \in {"busy", "refused"}
  /\ active' = FALSE /\ doing' = None
  /\ refused' = (pump[p].reply = "refused")
  /\ Leave(p)
  /\ UNCHANGED <<attached, queue, receipts, disabled, server, notes, monitor, events>>

\* The connection ended before the response, or the response names no turn.
Unknown(p) ==
  /\ At(p, "turn")
  /\ pump[p].reply = "nameless" \/ (~server.up /\ pump[p].reply # "ok")
  /\ disabled' = TRUE
  /\ active' = FALSE /\ doing' = None
  /\ Leave(p)
  /\ UNCHANGED <<attached, queue, receipts, refused, server, notes, monitor, events>>
-----------------------------------------------------------------------------
(* Notifications                                                           *)

\* HandleNotification
Read(note) ==
  /\ monitor = "on" /\ server.up /\ Resting("run")
  /\ notes # <<>> /\ Head(notes) = note
  /\ notes' = Tail(notes)
  /\ refused' = (refused /\ note \notin {"completed", "idle"})
  /\ UNCHANGED <<queue, receipts, disabled, lock, server, monitor, events>>

\* Mutant: the thread is attached, and nobody pumps.
ThreadStartedUnpumped ==
  \E note \in {"thread", "thread_busy"} :
    /\ Read(note)
    /\ attached' = TRUE
    /\ active' = (note = "thread_busy")
    /\ UNCHANGED <<doing, pump>>

ThreadStarted ==
  \E note \in {"thread", "thread_busy"} :
    /\ Read(note)
    /\ attached' = TRUE
    /\ active' = (note = "thread_busy")
    /\ pump' = IF note = "thread" THEN [pump EXCEPT !["run"] = Pumping] ELSE pump
    /\ UNCHANGED doing

TurnStarted ==
  /\ Read("started")
  /\ active' = TRUE
  /\ UNCHANGED <<attached, doing, pump>>

\* Mutant: the end of a turn is noted, and nobody pumps.
ThreadIdleUnpumped ==
  /\ Read("completed") \/ Read("idle")
  /\ active' = FALSE /\ doing' = None
  /\ UNCHANGED <<attached, pump>>

\* turn/completed and thread/status/changed
ThreadIdle ==
  /\ Read("completed") \/ Read("idle")
  /\ active' = FALSE /\ doing' = None
  /\ pump' = [pump EXCEPT !["run"] = Pumping]
  /\ UNCHANGED attached

\* The supervisor turns the monitor off when the reader of notifications or a
\* watch ends with an error that no restart helps.
TurnOff ==
  /\ monitor = "on"
  /\ \/ ~server.up /\ Resting("run")
     \/ disabled /\ \A w \in Watcher : Resting(w)
  /\ monitor' = "off"
  /\ UNCHANGED <<bridge, lock, pump, server, notes, events>>
-----------------------------------------------------------------------------
(* The App Server and the human at the TUI                                 *)

Send(s) == Len(notes) + Len(s) <= NoteCap /\ notes' = notes \o s
Serve == server.up /\ monitor = "on" /\ UNCHANGED <<bridge, lock, monitor, events>>

\* The TUI starts its thread.
StartThread ==
  /\ Serve /\ ~attached /\ notes = <<>> /\ server.turns = 0
  /\ \/ Send(<<"thread">>) /\ UNCHANGED server
     \/ Send(<<"thread_busy">>) /\ server' = [server EXCEPT !.turns = 1]
  /\ UNCHANGED pump

\* A turn begins, or follows those that are under way.
Begin == server' = [server EXCEPT !.turns = @ + 1]
Started == IF server.turns = 0 THEN <<"started">> ELSE <<>>

Type ==
  /\ Serve /\ attached /\ server.turns = 0
  /\ Begin /\ Send(Started)
  /\ UNCHANGED pump

\* turn/start may be refused at any time, by an error or a response without a
\* result; one that begins a turn may fail to name it.
Answer(p) ==
  /\ Serve
  /\ At(p, "turn") /\ pump[p].reply = "none"
  /\ \/ /\ server.turns < 2 /\ Begin /\ Send(Started)
        /\ \E reply \in {"ok", "nameless"} : pump' = [pump EXCEPT ![p].reply = reply]
     \/ /\ pump' = [pump EXCEPT ![p].reply = IF server.turns > 0 THEN "busy" ELSE "refused"]
        /\ UNCHANGED <<server, notes>>

\* A response nobody waits for has an unknown request id: the connection ends.
AnswerNobody ==
  /\ Serve
  /\ server.abandoned > 0
  /\ server' = [server EXCEPT !.up = FALSE]
  /\ UNCHANGED <<notes, pump>>

\* The status of the thread may change before or after its turn is completed.
EndTurn ==
  /\ Serve /\ server.turns > 0
  /\ server' = [server EXCEPT !.turns = @ - 1]
  /\ IF server.turns > 1 THEN Send(<<"completed", "started">>)
     ELSE Send(<<"completed">>) \/ Send(<<"completed", "idle">>) \/ Send(<<"idle", "completed">>)
  /\ UNCHANGED pump

Disconnect ==
  /\ Serve
  /\ server' = [server EXCEPT !.up = FALSE]
  /\ UNCHANGED <<notes, pump>>

Submits(p) == Pick(p) \/ Accepted(p) \/ Refused(p) \/ Unknown(p)
Reads == ThreadStarted \/ TurnStarted \/ ThreadIdle

Next ==
  /\ monitor # "crashed"
  /\ \/ \E w \in Watcher :
          \/ \E a \in Review : HearReview(w, a)
          \/ \E g \in Goal, gen \in 1..MaxReview : HearReceipt(w, g, gen)
          \/ \E a \in Event : HearEvent(w, a)
          \/ Rebind(w)
     \/ \E p \in Pumper : Submits(p) \/ Answer(p)
     \/ Reads \/ TurnOff
     \/ StartThread \/ Type \/ AnswerNobody \/ EndTurn \/ Disconnect

\* Goroutines run, the App Server answers turn/start, and turns end.
Fairness ==
  /\ \A p \in Pumper : WF_vars(Submits(p) /\ monitor # "crashed")
  /\ WF_vars(\E p \in Pumper : Answer(p))
  /\ WF_vars(Reads) /\ WF_vars(TurnOff) /\ WF_vars(EndTurn)

Spec == Init /\ [][Next]_vars /\ Fairness
-----------------------------------------------------------------------------
CodexTypeOK ==
  /\ {attached, active, disabled, refused} \subseteq BOOLEAN
  /\ doing \in Action \cup {None}
  /\ queue \in Seq(Action)
  /\ receipts \in [Goal -> 0..MaxReview]
  /\ lock \in Pumper \cup {None}
  /\ monitor \in {"on", "off", "crashed"}

\* "A stale queued review request cannot arrive after its receipt for the same
\* handoff": no queued review is older than a receipt that was heard, whoever
\* submits meanwhile; of a handoff there is one queued review at most, and a
\* delivery key is queued once.
QueueIsFresh ==
  /\ \A a \in ToSet(queue) : IsReview(a) => a.gen >= receipts[a.of]
  /\ \A m, n \in DOMAIN queue :
       (m # n /\ queue[m].kind = queue[n].kind) => queue[m].of # queue[n].of

\* The end of a turn is owed: one runs, or its end is not yet read.
EndIsOwed ==
  server.turns > 0 \/ \E n \in DOMAIN notes : notes[n] \in {"completed", "idle"}

\* A queued item "is not stranded": while an action is queued for the thread,
\* some goroutine is in pump, or the end of a turn is owed to the one that will
\* be, or the last submission was refused on an idle thread and is "retried after
\* the next idle transition".  A change of scope may have cut the goroutine off.
NothingIsStranded ==
  (queue # <<>> /\ attached /\ ~disabled /\ monitor = "on") =>
    EndIsOwed \/ refused \/ \E p \in Pumper : ~At(p, "rest")

\* A queued action is submitted, or taken off the queue, unless the monitor
\* ends or the scope of the watch that submits it changes just then; one that was
\* refused on an idle thread is, once a turn is under way whose end makes the
\* thread idle again.  No order of completions, notifications and responses
\* strands it.
QueuedIsTried ==
  (queue # <<>> /\ attached /\ (refused => EndIsOwed)) ~>
    \/ queue = <<>> \/ disabled \/ monitor # "on"
    \/ \E p \in Pumper : At(p, "turn") \/ At(p, "cut")

\* "A successful turn/start response is the only dequeue proof": the action
\* that leaves the queue is the one a turn was started for.
AcceptedIsHead ==
  \A p \in Pumper :
    (At(p, "turn") /\ pump[p].reply = "ok") => (queue # <<>> /\ Head(queue) = pump[p].action)
=============================================================================
