------------------------------- MODULE Answers -------------------------------
(***************************************************************************)
(* How an answer of the human gets from where it is given to the agent     *)
(* that asked.  The human answers on the dashboard, or types into the chat *)
(* of an agent, which then files the answer with a quote that the daemon   *)
(* looks up in the transcript of that session.  A default or a withdrawal  *)
(* settles a decision too.  An agent waits for the answer inside           *)
(* decision.ask, or polls for it.                                          *)
(*                                                                         *)
(* The decisions are those of one goal.  Its review and its handoffs are   *)
(* the module GoalReview, where a receive also moves the decisions.        *)
(***************************************************************************)
EXTENDS Integers, Sequences, FiniteSets, SequencesExt

CONSTANTS Agent,          \* agent sessions
          Receiver,       \* those that received the goal's handoff
          None,           \* nobody
          Label,          \* option labels of a decision
          MaxDecisions,   \* bound: decisions asked
          MaxLines        \* bound: lines of the transcripts that matter

ASSUME AnswersAssumption ==
  /\ None \notin Agent \cup Label \cup {"dashboard", "chat", "default"}
  /\ Receiver \subseteq Agent
  /\ MaxDecisions \in Nat \ {0} /\ MaxLines \in Nat

VARIABLES decisions,    \* rows of decisions, in order of id
          active,       \* goals.status is active
          commander,    \* the session that holds the project
          lines,        \* lines of the transcripts, in order of time
          calls,        \* where each agent is that asks and waits, or polls
          quotes,       \* answers quoted from the chat, checked and not yet written
          signalled,    \* agents whose subscription holds a signal
          unpublished   \* decisions with a committed change not yet published

roles == <<active, commander>>
vars == <<decisions, roles, lines, calls, quotes, signalled, unpublished>>

Decision == 1..MaxDecisions
Verdict == {"approve", "reject"}

\* What a line says, as a whole line: a label, or a verdict on a review.
Text == [says : Label, of : {0}] \cup [says : Verdict, of : Decision]

\* A line the human typed; what the harness writes itself never counts.
Line == [session : Agent,
         text : Text,
         after : 0..MaxDecisions]         \* decisions asked before it

DecisionRow == [kind : {"decision", "goal_review"},
                asker : Agent,
                default : Label \cup {None},
                status : {"open", "answered", "applied", "withdrawn"},
                answer : Label \cup Verdict \cup {None},
                via : {"dashboard", "chat", "default", None},
                prompt : 0..MaxLines]     \* answer_prompt_id

Asked == DOMAIN decisions
Has(status) == {d \in Asked : decisions[d].status = status}
Settled(d) == decisions[d].status # "open"

\* A session makes a connection for each call, so calls that are over in one
\* step, and calls that quote, come while another one is under way.
NoCall == [at |-> "none", of |-> 0]
Idle(a) == calls[a] = NoCall
At(a, step) == calls[a].at = step
GoTo(a, step) == calls' = [calls EXCEPT ![a].at = step]

\* MonitorAssignment
Role(a) == CASE commander = a -> "commander"
             [] commander # a /\ a \in Receiver -> "subcommander"
             [] OTHER -> "executor"

\* DecisionRoutesToCommander
RoutesToCommander(d) == decisions[d].kind = "goal_review"

Init ==
  /\ decisions = <<>>
  /\ active = TRUE
  /\ commander \in Agent
  /\ lines = <<>>
  /\ calls = [a \in Agent |-> NoCall]
  /\ quotes = {}
  /\ signalled = {}
  /\ unpublished = {}
-----------------------------------------------------------------------------
(* Asking, and waiting for the answer                                      *)

NewRow(kind, a, default) ==
  [kind |-> kind, asker |-> a, default |-> default, status |-> "open",
   answer |-> None, via |-> None, prompt |-> 0]

File(row) ==
  /\ Len(decisions) < MaxDecisions
  /\ decisions' = Append(decisions, row)

\* decision.ask, which is closed to subcommanders, for a goal in any status.
Ask(a, wait, default) ==
  /\ wait => Idle(a)
  /\ Role(a) # "subcommander"
  /\ File(NewRow("decision", a, default))
  /\ calls' = IF wait THEN [calls EXCEPT ![a].at = "subscribe", ![a].of = Len(decisions) + 1]
              ELSE calls
  /\ UNCHANGED <<roles, lines, quotes, signalled, unpublished>>

\* goal.review.request
RequestReview(a) ==
  /\ active
  /\ commander = a
  /\ Has("open") = {}
  /\ File(NewRow("goal_review", a, None))
  /\ UNCHANGED <<roles, lines, calls, quotes, signalled, unpublished>>

\* handleRevise: the human asks for another answer of a settled decision.
Revise(d) ==
  /\ d \in Asked /\ decisions[d].via # None
  /\ File(NewRow(decisions[d].kind, decisions[d].asker, None))
  /\ UNCHANGED <<roles, lines, calls, quotes, signalled, unpublished>>

\* WaitForAnswer subscribes, then reads.
Subscribe(a) ==
  /\ At(a, "subscribe")
  /\ GoTo(a, "read")
  /\ UNCHANGED <<decisions, roles, lines, quotes, signalled, unpublished>>

\* Mutant: it reads before it subscribes, and so does not see a late answer.
ReadTooEarly(a) ==
  /\ At(a, "read")
  /\ GoTo(a, "wait")
  /\ UNCHANGED <<decisions, roles, lines, quotes, signalled, unpublished>>

\* A wait that need not begin ends the subscription, with the signal it holds.
Read(a) ==
  /\ At(a, "read")
  /\ IF Settled(calls[a].of) THEN GoTo(a, "apply") /\ signalled' = signalled \ {a}
     ELSE GoTo(a, "wait") /\ UNCHANGED signalled
  /\ UNCHANGED <<decisions, roles, lines, quotes, unpublished>>

\* A signal wakes the wait; the subscription ends with it.
Wake(a) ==
  /\ At(a, "wait") /\ a \in signalled
  /\ signalled' = signalled \ {a}
  /\ IF Settled(calls[a].of) THEN GoTo(a, "apply") ELSE calls' = [calls EXCEPT ![a] = NoCall]
  /\ UNCHANGED <<decisions, roles, lines, quotes, unpublished>>

\* The timer parks the decision, or the client is gone.
TimeOut(a) ==
  /\ At(a, "wait")
  /\ calls' = [calls EXCEPT ![a] = NoCall]
  /\ signalled' = signalled \ {a}
  /\ UNCHANGED <<decisions, roles, lines, quotes, unpublished>>

Subscribed(a, d) == calls[a].at \in {"read", "wait"} /\ calls[a].of = d

\* notifier.publish: a subscription holds one signal, and a second is dropped.
\* Publications of one decision that are due at once count as one.
Publish(d) ==
  /\ d \in unpublished
  /\ unpublished' = unpublished \ {d}
  /\ signalled' = signalled \cup {a \in Agent : Subscribed(a, d)}
  /\ UNCHANGED <<decisions, roles, lines, calls, quotes>>
-----------------------------------------------------------------------------
(* Settling                                                                *)

\* One conditional UPDATE of each decision that rows is about, which is then
\* published.
Settle(rows) ==
  /\ decisions' = [d \in Asked |-> IF d \in DOMAIN rows THEN rows[d] ELSE decisions[d]]
  /\ unpublished' = unpublished \cup DOMAIN rows

Answered(d, answer, via, prompt) ==
  [decisions[d] EXCEPT !.status = IF answer = "approve" THEN "applied" ELSE "answered",
                       !.answer = answer, !.via = via, !.prompt = prompt]

Answers(d) == IF decisions[d].kind = "goal_review" THEN Verdict ELSE Label

\* handleAnswer, handleApprove, handleReject.
AnswerOnDashboard(d, answer) ==
  /\ d \in Has("open")
  /\ answer \in Answers(d)
  /\ answer = "approve" => active
  /\ Settle([e \in {d} |-> Answered(e, answer, "dashboard", 0)])
  /\ UNCHANGED <<roles, lines, calls, quotes, signalled>>

\* Mutant: the transition does not ask for an open decision.
ExpireSettled(D) ==
  /\ D # {} /\ D \subseteq {d \in Asked : decisions[d].default # None}
  /\ Settle([d \in D |-> Answered(d, decisions[d].default, "default", 0)])
  /\ UNCHANGED <<roles, lines, calls, quotes, signalled>>

HaveDefault == {d \in Has("open") : decisions[d].default # None}

\* ApplyExpiredDefaults, for the decisions whose time is over.
Expire(D) ==
  /\ D # {} /\ D \subseteq HaveDefault
  /\ Settle([d \in D |-> Answered(d, decisions[d].default, "default", 0)])
  /\ UNCHANGED <<roles, lines, calls, quotes, signalled>>

Withdrawn(d) == [decisions[d] EXCEPT !.status = "withdrawn"]

\* decision.withdraw, which anybody may call.
Withdraw(d) ==
  /\ d \in Has("open")
  /\ Settle([e \in {d} |-> Withdrawn(e)])
  /\ UNCHANGED <<roles, lines, calls, quotes, signalled>>

\* WithdrawActiveGoal
WithdrawGoal ==
  /\ active
  /\ active' = FALSE
  /\ Settle([d \in Has("open") |-> Withdrawn(d)])
  /\ UNCHANGED <<commander, lines, calls, quotes, signalled>>
-----------------------------------------------------------------------------
(* Answers quoted from the chat                                            *)

\* The human types a line.
Type(a, text) ==
  /\ Len(lines) < MaxLines
  /\ text.of <= Len(decisions)
  /\ lines' = Append(lines, [session |-> a, text |-> text, after |-> Len(decisions)])
  /\ UNCHANGED <<decisions, roles, calls, quotes, signalled, unpublished>>

\* ensureCanAnswerFromChat
CanAnswer(a, d) ==
  \/ decisions[d].kind # "goal_review" /\ decisions[d].asker = a
  \/ Role(a) = "commander" /\ (RoutesToCommander(d) \/ decisions[d].asker \in Receiver)

\* validateChatAnswer: a review takes the line that names it and nothing else.
Fits(d, answer, quote) ==
  /\ answer \in Answers(d)
  /\ decisions[d].kind = "goal_review" => quote = [says |-> answer, of |-> d]

\* The human's lines in the one transcript of the session.
Transcript(a) == {n \in DOMAIN lines : lines[n].session = a}

\* transcriptLineHumanQuote, codexLineHumanQuote: the line is the quote and is
\* younger than the decision.
Holds(n, quote, d) == lines[n].text = quote /\ lines[n].after >= d

\* verifyHumanQuote
Typed(a, d, quote) == {n \in Transcript(a) : Holds(n, quote, d)}

\* answerDecisionFromChat up to its first write, in one of the calls the session
\* has at the daemon.
CheckQuote(a, d, answer, quote) ==
  /\ d \in Has("open")
  /\ CanAnswer(a, d)
  /\ Fits(d, answer, quote)
  /\ Typed(a, d, quote) # {}
  /\ quotes' = quotes \cup {[of |-> d, answer |-> answer, found |-> Typed(a, d, quote)]}
  /\ UNCHANGED <<decisions, roles, lines, calls, signalled, unpublished>>

\* Mutant: a partial index, which forgets the answers that were applied.
UsedByAnswered(n) == \E d \in Has("answered") : decisions[d].prompt = n

\* The unique index of answer_prompt_id.
Used(n) == \E d \in Asked : decisions[d].prompt = n

\* writeChatAnswer of one candidate, the newest first: a line that answered
\* another decision is passed over, and the call ends with the last one.
WriteChatAnswer(q) ==
  LET d == q.of
      n == Max(q.found)
      rest == [of |-> d, answer |-> q.answer, found |-> q.found \ {n}]
  IN
  /\ quotes' = (quotes \ {q}) \cup
       IF d \in Has("open") /\ Used(n) /\ q.found # {n} THEN {rest} ELSE {}
  /\ IF d \in Has("open") /\ ~Used(n) /\ (q.answer = "approve" => active)
     THEN Settle([e \in {d} |-> Answered(e, q.answer, "chat", n)])
     ELSE UNCHANGED <<decisions, unpublished>>
  /\ UNCHANGED <<roles, lines, calls, signalled>>
-----------------------------------------------------------------------------
(* Receiving                                                               *)

Applied(d) == [decisions[d] EXCEPT !.status = "applied"]

\* PollDecisions commits before the response is sent: an agent that dies now is
\* not told again.
Poll(D) ==
  /\ Settle([d \in D \cap Has("answered") |-> Applied(d)])
  /\ UNCHANGED <<roles, lines, quotes, signalled>>

\* The end of decision.ask: the answer the wait returned is applied.
ApplyWaited(a) ==
  /\ At(a, "apply")
  /\ Poll({calls[a].of})
  /\ calls' = [calls EXCEPT ![a] = NoCall]

\* A commander reads a decision of a session that will poll for it itself.
OnlyReads(a, d) ==
  /\ Role(a) = "commander" /\ decisions[d].asker # a
  /\ ~RoutesToCommander(d) /\ active

\* decision.poll of one decision.
PollOne(a, d) ==
  /\ d \in Asked
  /\ ~OnlyReads(a, d)
  /\ Poll({d})
  /\ UNCHANGED calls

Own(a) == {d \in Has("answered") : decisions[d].asker = a}

\* decision.poll of all: its own decisions, then those routed to a commander.
PollOwn(a) ==
  /\ Idle(a)
  /\ Own(a) # {} \/ Role(a) = "commander"
  /\ Poll(Own(a))
  /\ GoTo(a, IF Role(a) = "commander" THEN "routed" ELSE "none")

\* Answers of a goal that has ended are no longer offered.
Unapplied == IF active THEN Has("answered") ELSE {}

\* appendCommanderRoutedDecisions: a transaction for each of them.
PollRouted(a) ==
  LET S == {d \in Unapplied : RoutesToCommander(d) /\ decisions[d].asker # a} IN
  /\ At(a, "routed")
  /\ IF S = {} THEN Poll({}) /\ GoTo(a, "none")
     ELSE \E d \in S : Poll({d}) /\ UNCHANGED calls
-----------------------------------------------------------------------------
(* The surroundings                                                        *)

\* The connection of a call breaks.
Break(a) ==
  /\ ~Idle(a) /\ ~At(a, "wait")
  /\ calls' = [calls EXCEPT ![a] = NoCall]
  /\ signalled' = signalled \ {a}
  /\ UNCHANGED <<decisions, roles, lines, quotes, unpublished>>

Drop(q) ==
  /\ quotes' = quotes \ {q}
  /\ UNCHANGED <<decisions, roles, lines, calls, signalled, unpublished>>

\* The daemon restarts: calls, subscriptions and what it had to publish go.
Restart ==
  /\ unpublished # {} \/ quotes # {} \/ \E a \in Agent : ~Idle(a)
  /\ calls' = [a \in Agent |-> NoCall]
  /\ quotes' = {}
  /\ signalled' = {}
  /\ unpublished' = {}
  /\ UNCHANGED <<decisions, roles, lines>>

\* project.claim
ClaimProject(a) ==
  /\ commander # a
  /\ commander' = a
  /\ UNCHANGED <<decisions, active, lines, calls, quotes, signalled, unpublished>>

AgentStep(a) ==
  \/ \E wait \in BOOLEAN, default \in Label \cup {None} : Ask(a, wait, default)
  \/ RequestReview(a)
  \/ Subscribe(a) \/ Read(a) \/ Wake(a) \/ TimeOut(a)
  \/ \E text \in Text : Type(a, text)
  \/ \E d \in Decision, answer \in Label \cup Verdict, quote \in Text :
       d \in Asked /\ CheckQuote(a, d, answer, quote)
  \/ ApplyWaited(a)
  \/ \E d \in Decision : PollOne(a, d)
  \/ PollOwn(a) \/ PollRouted(a)
  \/ Break(a)
  \/ ClaimProject(a)

Next ==
  \/ \E a \in Agent : AgentStep(a)
  \/ \E q \in quotes : WriteChatAnswer(q) \/ Drop(q)
  \/ \E d \in Decision :
       Publish(d) \/ Revise(d) \/ Withdraw(d)
       \/ \E answer \in Label \cup Verdict : AnswerOnDashboard(d, answer)
  \/ \E D \in SUBSET Decision : Expire(D)
  \/ WithdrawGoal
  \/ Restart

\* A goroutine of the daemon that can run does; nothing else has to happen.
Fairness ==
  /\ \A a \in Agent : WF_vars(Wake(a))
  /\ \A d \in Decision : WF_vars(Publish(d))

Spec == Init /\ [][Next]_vars /\ Fairness
-----------------------------------------------------------------------------
AnswersTypeOK ==
  /\ decisions \in Seq(DecisionRow)
  /\ active \in BOOLEAN
  /\ commander \in Agent
  /\ lines \in Seq(Line)
  /\ signalled \subseteq Agent
  /\ unpublished \subseteq Asked

\* An answer from the chat is a line the human typed after the decision was
\* asked, a verdict on a review names that review, and no line answers two
\* decisions, also when calls that quote one line are both checked before either
\* is written ("A human message answers at most one decision",
\* answerDecisionFromChat).
ChatAnswerIsHuman ==
  \A d \in Asked : decisions[d].via = "chat" =>
    LET line == lines[decisions[d].prompt] IN
    /\ line.after >= d
    /\ decisions[d].kind = "goal_review" => line.text = [says |-> decisions[d].answer, of |-> d]
    /\ \A e \in Asked \ {d} : decisions[e].prompt # decisions[d].prompt

\* "A Decision is answered exactly once": of the dashboard, the chat, the
\* default and the withdrawal the first one stands, and an answer never goes
\* back to be given again.
FirstAnswerStands ==
  [][\A d \in Asked : Settled(d) =>
       /\ decisions'[d].answer = decisions[d].answer
       /\ decisions'[d].via = decisions[d].via
       /\ decisions'[d].prompt = decisions[d].prompt
       /\ decisions'[d].status # decisions[d].status =>
            decisions[d].status = "answered" /\ decisions'[d].status = "applied"]_vars

\* No wake-up is lost, and none is false, however the publication of a change
\* overlaps the subscription, the read and the end of a wait: on a settled
\* decision nobody waits without a signal, or a publication that will bring one,
\* and a signal is held only by the wait it is meant for.
WaitsAreWoken ==
  \A a \in Agent :
    /\ At(a, "wait") /\ Settled(calls[a].of) => a \in signalled \/ calls[a].of \in unpublished
    /\ a \in signalled => calls[a].at \in {"read", "wait"} /\ Settled(calls[a].of)

\* "Subscribe before reading the current value; the reverse order can miss an
\* answer": a wait does not outlast the answer, though no timer helps.
SettledWaitEnds ==
  \A a \in Agent, d \in Decision :
    (At(a, "wait") /\ calls[a].of = d /\ d \in Asked /\ Settled(d)) ~> ~(At(a, "wait") /\ calls[a].of = d)

=============================================================================
