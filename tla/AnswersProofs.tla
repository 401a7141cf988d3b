----------------------------- MODULE AnswersProofs -----------------------------
(***************************************************************************)
(* Proofs that a decision is answered once, and that an answer from the    *)
(* chat is a line the human typed for it, for every set of agents and      *)
(* labels and any number of decisions and lines.                           *)
(***************************************************************************)
EXTENDS Answers, SequenceTheorems, WellFoundedInduction, TLAPS

\* A record with the columns of a decision, whatever they hold.
IsRow(r) ==
  r = [kind |-> r.kind, asker |-> r.asker, default |-> r.default,
       status |-> r.status, answer |-> r.answer, via |-> r.via, prompt |-> r.prompt]

RowsFit ==
  /\ decisions \in Seq(ToSet(decisions))
  /\ \A d \in Asked : IsRow(decisions[d])

\* A step leaves a row alone, settles an open one, or applies an answered one.
RowMoves(d) ==
  \/ decisions'[d] = decisions[d]
  \/ decisions[d].status = "open" /\ IsRow(decisions'[d])
  \/ decisions[d].status = "answered" /\ decisions'[d] = Applied(d)

LEMMA RowsFitInit == Init => RowsFit
BY DEF Init, RowsFit, Asked, ToSet

\* Filing adds a row and keeps the others.
LEMMA FilingRows ==
  ASSUME RowsFit, NEW STATE r, IsRow(r), decisions' = Append(decisions, r)
  PROVE  RowsFit' /\ \A d \in Asked : decisions'[d] = decisions[d]
<1> DEFINE S == ToSet(decisions) \cup {r}
<1>1. decisions \in Seq(S)
  <2>1. decisions \in Seq(ToSet(decisions))
    BY DEF RowsFit
  <2> HIDE DEF S
  <2>2. ToSet(decisions) \subseteq S
    BY DEF S
  <2> QED BY <2>1, <2>2
<1>2. /\ Len(decisions) \in Nat
      /\ DOMAIN decisions = 1..Len(decisions)
      /\ Len(decisions') = Len(decisions) + 1
      /\ DOMAIN decisions' = 1..Len(decisions')
      /\ \A d \in 1..Len(decisions) : decisions'[d] = decisions[d]
      /\ decisions'[Len(decisions) + 1] = r
      /\ decisions' \in Seq(S)
  BY <1>1, AppendProperties, LenProperties
<1>3. decisions' \in Seq(ToSet(decisions'))
  BY <1>2, SeqDef DEF ToSet
<1>4. \A d \in DOMAIN decisions' : IsRow(decisions'[d])
  BY <1>2 DEF RowsFit, Asked
<1> QED BY <1>2, <1>3, <1>4 DEF RowsFit, Asked

\* Settling rewrites the rows in place.
LEMMA SettlingRows ==
  ASSUME RowsFit, decisions' = [d \in Asked |-> decisions'[d]],
         \A d \in Asked : RowMoves(d)
  PROVE  RowsFit' /\ Asked' = Asked
<1>1. Len(decisions) \in Nat /\ Asked = 1..Len(decisions)
  BY LenProperties DEF RowsFit, Asked
<1>2. DOMAIN decisions' = 1..Len(decisions)
  BY <1>1
<1>3. decisions' \in Seq(ToSet(decisions'))
  BY <1>1, <1>2, SeqDef DEF ToSet
<1>4. \A d \in Asked : IsRow(decisions'[d])
  BY DEF RowMoves, RowsFit, IsRow, Applied
<1> QED BY <1>1, <1>2, <1>3, <1>4 DEF RowsFit, Asked
-----------------------------------------------------------------------------
(* The actions                                                             *)

\* What each action promises.
RowsKept == RowsFit' /\ \A d \in Asked : RowMoves(d)

\* A row d becomes r, and no line of the chat answers it now.
NoLine(d, r) ==
  /\ r.kind = decisions[d].kind
  /\ \/ /\ r.via = decisions[d].via /\ r.prompt = decisions[d].prompt
        /\ r.answer = decisions[d].answer
     \/ r.via # "chat" /\ r.prompt = 0

\* What each action promises but the answer from the chat.
Quiet ==
  /\ RowsKept
  /\ Asked \subseteq Asked'
  /\ \A d \in Asked : NoLine(d, decisions'[d])
  /\ \A d \in Asked' \ Asked : decisions'[d].via # "chat" /\ decisions'[d].prompt = 0

LEMMA UnchangedKeeps == RowsFit /\ UNCHANGED decisions => Quiet
BY DEF RowsFit, RowsKept, RowMoves, Asked, Quiet, NoLine

LEMMA FileKeeps ==
  ASSUME RowsFit, NEW STATE row, IsRow(row), File(row),
         row.via # "chat", row.prompt = 0
  PROVE  Quiet
<1>1. decisions' = Append(decisions, row)
  BY DEF File
<1>2. RowsFit' /\ \A d \in Asked : decisions'[d] = decisions[d]
  BY <1>1, FilingRows
<1>3. /\ Asked = 1..Len(decisions) /\ Asked' = 1..(Len(decisions) + 1)
      /\ Len(decisions) \in Nat /\ decisions'[Len(decisions) + 1] = row
  <2>1. decisions \in Seq(ToSet(decisions) \cup {row})
    BY DEF RowsFit
  <2> QED BY <1>1, <2>1, AppendProperties, LenProperties DEF Asked
<1> QED BY <1>2, <1>3 DEF RowsKept, RowMoves, Quiet, NoLine

\* A new row, and a rewritten one, have the columns of a row.
LEMMA NewRowIsRow ==
  \A kind, a, default : LET row == NewRow(kind, a, default) IN
    IsRow(row) /\ row.via # "chat" /\ row.prompt = 0
BY AnswersAssumption DEF NewRow, IsRow

LEMMA ColumnChanges ==
  ASSUME NEW r, NEW x, IsRow(r)
  PROVE  /\ IsRow([r EXCEPT !.status = x]) /\ IsRow([r EXCEPT !.answer = x])
         /\ IsRow([r EXCEPT !.via = x]) /\ IsRow([r EXCEPT !.prompt = x])
BY DEF IsRow

LEMMA ColumnsChange ==
  ASSUME NEW r, NEW status, NEW answer, NEW via, NEW prompt, IsRow(r)
  PROVE  IsRow([r EXCEPT !.status = status, !.answer = answer, !.via = via,
                         !.prompt = prompt])
<1>1. PICK r1 : r1 = [r EXCEPT !.status = status]
  OBVIOUS
<1>2. PICK r2 : r2 = [r1 EXCEPT !.answer = answer]
  OBVIOUS
<1>3. PICK r3 : r3 = [r2 EXCEPT !.via = via]
  OBVIOUS
<1>4. PICK r4 : r4 = [r3 EXCEPT !.prompt = prompt]
  OBVIOUS
<1>5. IsRow(r4)
  BY <1>1, <1>2, <1>3, <1>4, ColumnChanges
<1>6. [r EXCEPT !.status = status, !.answer = answer, !.via = via, !.prompt = prompt] = r4
  BY <1>1, <1>2, <1>3, <1>4
<1> QED BY <1>5, <1>6

LEMMA RewrittenIsRow ==
  ASSUME NEW STATE d, IsRow(decisions[d])
  PROVE  /\ \A answer, via, prompt : IsRow(Answered(d, answer, via, prompt))
         /\ IsRow(Withdrawn(d))
BY ColumnChanges, ColumnsChange DEF Answered, Withdrawn

LEMMA RewrittenColumns ==
  ASSUME NEW STATE d, IsRow(decisions[d])
  PROVE  /\ \A answer, via, prompt :
              LET r == Answered(d, answer, via, prompt) IN
              /\ r.kind = decisions[d].kind /\ r.answer = answer
              /\ r.via = via /\ r.prompt = prompt
         /\ \A answer : /\ NoLine(d, Answered(d, answer, "dashboard", 0))
                        /\ NoLine(d, Answered(d, answer, "default", 0))
         /\ NoLine(d, Withdrawn(d)) /\ NoLine(d, Applied(d))
<1>1. \A answer, via, prompt :
        LET r == Answered(d, answer, via, prompt) IN
        /\ r.kind = decisions[d].kind /\ r.answer = answer
        /\ r.via = via /\ r.prompt = prompt
  BY DEF Answered, IsRow
<1>2. NoLine(d, Withdrawn(d)) /\ NoLine(d, Applied(d))
  BY DEF Withdrawn, Applied, NoLine, IsRow
<1> QED BY <1>1, <1>2 DEF NoLine

\* Everybody who settles a decision settles an open one.
LEMMA OpenSettles ==
  ASSUME RowsFit, NEW STATE D, NEW STATE rows, D \subseteq Has("open"),
         DOMAIN rows = D, Settle(rows), \A d \in D : IsRow(rows[d])
  PROVE  /\ RowsKept /\ Asked' = Asked
         /\ decisions' = [d \in Asked |-> IF d \in D THEN rows[d] ELSE decisions[d]]
         /\ (\A d \in D : NoLine(d, rows[d])) => Quiet
<1>1. decisions' = [d \in Asked |-> IF d \in D THEN rows[d] ELSE decisions[d]]
  BY DEF Settle
<1>2. \A d \in Asked : RowMoves(d)
  BY <1>1 DEF RowMoves, Has
<1>3. decisions' = [d \in Asked |-> decisions'[d]]
  BY <1>1
<1>4. RowsFit' /\ Asked' = Asked
  BY <1>2, <1>3, SettlingRows
<1>5. ASSUME \A d \in D : NoLine(d, rows[d])
      PROVE  \A d \in Asked : NoLine(d, decisions'[d])
  BY <1>1, <1>5 DEF NoLine
<1> QED BY <1>1, <1>2, <1>4, <1>5 DEF RowsKept, Quiet

\* The answers of the dashboard, the defaults and the withdrawals.
LEMMA HumanSettles ==
  ASSUME RowsFit,
         \/ \E d \in Decision : \/ Withdraw(d)
                               \/ \E answer \in Label \cup Verdict : AnswerOnDashboard(d, answer)
         \/ \E D \in SUBSET Decision : Expire(D)
         \/ WithdrawGoal
  PROVE  Quiet
<1>1. \A d \in Has("open") : IsRow(decisions[d])
  BY DEF Has, RowsFit
<1>2. ASSUME NEW d \in Decision, Withdraw(d) PROVE Quiet
  <2>1. {d} \subseteq Has("open") /\ Settle([e \in {d} |-> Withdrawn(e)])
    BY <1>2 DEF Withdraw
  <2>2. \A e \in {d} : IsRow(Withdrawn(e)) /\ NoLine(e, Withdrawn(e))
    BY <1>1, <2>1, RewrittenIsRow, RewrittenColumns
  <2> QED BY <2>1, <2>2, OpenSettles
<1>3. ASSUME NEW d \in Decision, NEW answer \in Label \cup Verdict,
             AnswerOnDashboard(d, answer)
      PROVE  Quiet
  <2>1. /\ {d} \subseteq Has("open")
        /\ Settle([e \in {d} |-> Answered(e, answer, "dashboard", 0)])
    BY <1>3 DEF AnswerOnDashboard
  <2>2. \A e \in {d} : /\ IsRow(Answered(e, answer, "dashboard", 0))
                    /\ NoLine(e, Answered(e, answer, "dashboard", 0))
    BY <1>1, <2>1, RewrittenIsRow, RewrittenColumns
  <2> QED BY <2>1, <2>2, OpenSettles
<1>4. ASSUME NEW D \in SUBSET Decision, Expire(D) PROVE Quiet
  <2>1. /\ D \subseteq Has("open")
        /\ Settle([d \in D |-> Answered(d, decisions[d].default, "default", 0)])
    BY <1>4 DEF Expire, HaveDefault
  <2>2. \A d \in D : /\ IsRow(Answered(d, decisions[d].default, "default", 0))
                  /\ NoLine(d, Answered(d, decisions[d].default, "default", 0))
    BY <1>1, <2>1, RewrittenIsRow, RewrittenColumns
  <2> QED BY <2>1, <2>2, OpenSettles
<1>5. CASE WithdrawGoal
  <2>1. Settle([d \in Has("open") |-> Withdrawn(d)])
    BY <1>5 DEF WithdrawGoal
  <2>2. \A d \in Has("open") : IsRow(Withdrawn(d)) /\ NoLine(d, Withdrawn(d))
    BY <1>1, RewrittenIsRow, RewrittenColumns
  <2> QED BY <2>1, <2>2, OpenSettles
<1> QED BY <1>2, <1>3, <1>4, <1>5

\* The answer quoted from the chat, as another may have settled the decision
\* since the quote was checked.
LEMMA ChatSettles ==
  ASSUME RowsFit, NEW STATE q, WriteChatAnswer(q)
  PROVE  RowsKept
<1> DEFINE d == q.of
           n == Max(q.found)
<1>1. CASE UNCHANGED decisions
  BY <1>1, UnchangedKeeps DEF Quiet
<1>2. CASE /\ d \in Has("open")
           /\ Settle([e \in {d} |-> Answered(e, q.answer, "chat", n)])
  <2>1. \A e \in {d} : IsRow(Answered(e, q.answer, "chat", n))
    <3>1. IsRow(decisions[d])
      BY <1>2 DEF RowsFit, Has
    <3> HIDE DEF d, n
    <3> QED BY <3>1, RewrittenIsRow
  <2> HIDE DEF d, n
  <2> QED BY <1>2, <2>1, OpenSettles
<1> QED BY <1>1, <1>2 DEF WriteChatAnswer

\* A poll applies answered decisions and nothing else.
LEMMA PollApplies ==
  ASSUME RowsFit, NEW STATE D, Poll(D)
  PROVE  Quiet
<1>1. decisions' = [d \in Asked |-> IF d \in D \cap Has("answered")
                                    THEN Applied(d) ELSE decisions[d]]
  BY DEF Poll, Settle
<1>2. \A d \in Asked : RowMoves(d)
  BY <1>1 DEF RowMoves, Has
<1>3. decisions' = [d \in Asked |-> decisions'[d]]
  BY <1>1
<1>4. \A d \in Asked : NoLine(d, decisions'[d])
  BY <1>1, RewrittenColumns DEF NoLine, RowsFit
<1> QED BY <1>2, <1>3, <1>4, SettlingRows DEF RowsKept, Quiet

LEMMA Polls ==
  ASSUME RowsFit, NEW a \in Agent,
         \/ ApplyWaited(a) \/ PollOwn(a) \/ PollRouted(a)
         \/ \E d \in Decision : PollOne(a, d)
  PROVE  Quiet
<1>1. \/ Poll({calls[a].of}) \/ Poll(Own(a)) \/ Poll({})
      \/ \E d \in Asked : Poll({d})
  BY DEF ApplyWaited, PollOwn, PollRouted, PollOne, Unapplied, Has
<1> QED BY <1>1, PollApplies

\* Questions, reviews and revisions are filed.
LEMMA Files ==
  ASSUME RowsFit,
         \/ \E a \in Agent : RequestReview(a)
         \/ \E a \in Agent, wait \in BOOLEAN, default \in Label \cup {None} :
              Ask(a, wait, default)
         \/ \E d \in Decision : Revise(d)
  PROVE  Quiet
<1>1. ASSUME NEW a \in Agent, RequestReview(a) PROVE Quiet
  <2> DEFINE row == NewRow("goal_review", a, None)
  <2>1. File(row) /\ IsRow(row) /\ row.via # "chat" /\ row.prompt = 0
    BY <1>1, NewRowIsRow DEF RequestReview
  <2> HIDE DEF row
  <2> QED BY <2>1, FileKeeps
<1>2. ASSUME NEW a \in Agent, NEW wait \in BOOLEAN, NEW default \in Label \cup {None},
             Ask(a, wait, default)
      PROVE  Quiet
  <2> DEFINE row == NewRow("decision", a, default)
  <2>1. File(row) /\ IsRow(row) /\ row.via # "chat" /\ row.prompt = 0
    BY <1>2, NewRowIsRow DEF Ask
  <2> HIDE DEF row
  <2> QED BY <2>1, FileKeeps
<1>3. ASSUME NEW d \in Decision, Revise(d) PROVE Quiet
  <2> DEFINE row == NewRow(decisions[d].kind, decisions[d].asker, None)
  <2>1. File(row) /\ IsRow(row) /\ row.via # "chat" /\ row.prompt = 0
    BY <1>3, NewRowIsRow DEF Revise
  <2> HIDE DEF row
  <2> QED BY <2>1, FileKeeps
<1> QED BY <1>1, <1>2, <1>3

\* All the other steps leave the decisions alone.
LEMMA RowsStep ==
  ASSUME RowsFit, [Next]_vars
  PROVE  RowsKept /\ (Quiet \/ \E q \in quotes : WriteChatAnswer(q))
<1>0. Quiet => RowsKept
  BY DEF Quiet
<1>1. ASSUME NEW a \in Agent, AgentStep(a)
      PROVE  Quiet
  <2>1. CASE \/ UNCHANGED decisions
             \/ \E wait \in BOOLEAN, default \in Label \cup {None} : Ask(a, wait, default)
             \/ RequestReview(a)
    BY <2>1, Files, UnchangedKeeps
  <2>2. CASE \/ Subscribe(a) \/ Read(a) \/ Wake(a) \/ TimeOut(a) \/ Break(a) \/ ClaimProject(a)
             \/ \E text \in Text : Type(a, text)
             \/ \E d \in Decision, answer \in Label \cup Verdict, quote \in Text :
                  CheckQuote(a, d, answer, quote)
    <3>1. UNCHANGED decisions
      BY <2>2 DEF Subscribe, Read, Wake, TimeOut, Break, ClaimProject, Type, CheckQuote
    <3> QED BY <3>1, UnchangedKeeps
  <2>3. CASE \/ ApplyWaited(a) \/ PollOwn(a) \/ PollRouted(a)
             \/ \E d \in Decision : PollOne(a, d)
    BY <2>3, Polls
  <2> QED BY <1>1, <2>1, <2>2, <2>3 DEF AgentStep
<1>2. CASE \/ UNCHANGED vars \/ Restart \/ \E d \in Decision : Publish(d)
           \/ \E q \in quotes : Drop(q)
  <2>1. UNCHANGED decisions
    BY <1>2 DEF vars, Restart, Publish, Drop
  <2> QED BY <1>0, <2>1, UnchangedKeeps
<1>3. ASSUME NEW d \in Decision,
             \/ Revise(d) \/ Withdraw(d)
             \/ \E answer \in Label \cup Verdict : AnswerOnDashboard(d, answer)
      PROVE  Quiet
  BY <1>3, Files, HumanSettles
<1>4. CASE WithdrawGoal \/ \E D \in SUBSET Decision : Expire(D)
  BY <1>0, <1>4, HumanSettles
<1>5. CASE \E q \in quotes : WriteChatAnswer(q)
  <2>1. PICK q \in quotes : WriteChatAnswer(q)
    BY <1>5
  <2> QED BY <1>5, <2>1, ChatSettles
<1> QED BY <1>0, <1>1, <1>2, <1>3, <1>4, <1>5 DEF Next

\* A settled decision keeps its answer: of the dashboard, the chat, the default
\* and the withdrawal the first one stands (decision.go, decision_answer.go).
THEOREM AnsweredOnce == Spec => FirstAnswerStands
<1> DEFINE Stands ==
      \A d \in Asked : Settled(d) =>
        /\ decisions'[d].answer = decisions[d].answer
        /\ decisions'[d].via = decisions[d].via
        /\ decisions'[d].prompt = decisions[d].prompt
        /\ decisions'[d].status # decisions[d].status =>
             decisions[d].status = "answered" /\ decisions'[d].status = "applied"
<1>1. RowsFit /\ [Next]_vars => RowsFit' /\ Stands
  <2>1. SUFFICES ASSUME RowsFit, [Next]_vars PROVE RowsFit' /\ Stands
    OBVIOUS
  <2>2. RowsFit' /\ \A d \in Asked : RowMoves(d) /\ IsRow(decisions[d])
    BY <2>1, RowsStep DEF RowsKept, RowsFit
  <2> QED BY <2>2 DEF Settled, RowMoves, Applied, IsRow
<1>2. RowsFit /\ [Next]_vars => [Stands]_vars
  BY <1>1
<1> QED BY RowsFitInit, <1>1, <1>2, PTL DEF Spec, FirstAnswerStands
-----------------------------------------------------------------------------
(* Answers from the chat                                                   *)

LinesFit == lines \in Seq(ToSet(lines))

\* What an answer to d may quote.
MayQuote(d, answer, n) ==
  /\ n \in DOMAIN lines /\ lines[n].after >= d
  /\ decisions[d].kind = "goal_review" => lines[n].text = [says |-> answer, of |-> d]

\* What the check of a quote found stays so until the answer is written.
QuotesChecked ==
  \A q \in quotes : /\ q.of \in Asked /\ q.found # {}
                   /\ \A n \in q.found : MayQuote(q.of, q.answer, n)

FromChat(d) == decisions[d].via = "chat"

AnswersQuoted ==
  \A d \in Asked : FromChat(d) =>
    /\ MayQuote(d, decisions[d].answer, decisions[d].prompt)
    /\ \A e \in Asked \ {d} : decisions[e].prompt # decisions[d].prompt

ChatInv == RowsFit /\ LinesFit /\ QuotesChecked /\ AnswersQuoted

LEMMA ChatInvInit == Init => ChatInv
<1> SUFFICES ASSUME Init PROVE ChatInv
  OBVIOUS
<1>1. RowsFit
  BY RowsFitInit
<1>2. LinesFit
  BY DEF Init, LinesFit, ToSet
<1>3. QuotesChecked
  BY DEF Init, QuotesChecked
<1>4. AnswersQuoted
  BY DEF Init, AnswersQuoted, Asked
<1> QED BY <1>1, <1>2, <1>3, <1>4 DEF ChatInv

\* A set of numbers up to b that is not empty has a greatest one.
LEMMA GreatestNumber ==
  ASSUME NEW b \in Nat, NEW T, T \subseteq 0..b, T # {}
  PROVE  Max(T) \in T
<1> DEFINE Less == {p \in Nat \X Nat : p[1] < p[2]}
           Below == {b - t : t \in T}
<1>1. IsWellFoundedOn(Less, Nat)
  BY NatLessThanWellFounded DEF OpToRel
<1>2. \A x, y \in Nat : x < y => <<x, y>> \in Less
  OBVIOUS
<1>3. Below \subseteq Nat /\ Below # {}
  <2>1. \A t \in T : b - t \in Nat
    OBVIOUS
  <2> QED BY <2>1
<1>4. PICK n \in Below : \A m \in Below : <<m, n>> \notin Less
  <2> HIDE DEF Less, Below
  <2> QED BY <1>1, <1>3, WFMin
<1>5. PICK t \in T : n = b - t
  BY <1>4
<1>6. ASSUME NEW k \in T PROVE t >= k
  <2>1. ~(b - k < n) /\ b - k \in Nat /\ n \in Nat
    BY <1>2, <1>3, <1>4
  <2> QED BY <1>5, <2>1
<1> QED BY <1>5, <1>6 DEF Max

\* What steps do to the transcripts and to the answers that are to be written.
LinesKept ==
  /\ LinesFit'
  /\ \A n \in DOMAIN lines : n \in DOMAIN lines' /\ lines'[n] = lines[n]

\* Every quote is one there was, with lines of those it had.
QuotesKept ==
  \A q \in quotes' : \E r \in quotes :
    /\ q.of = r.of /\ q.answer = r.answer
    /\ q.found \subseteq r.found /\ q.found # {}

\* While no answer from the chat is written, all stays as it was.
LEMMA QuietKeepsChat ==
  ASSUME ChatInv, Quiet, LinesKept, QuotesKept
  PROVE  ChatInv'
<1>0. RowsFit /\ LinesFit /\ QuotesChecked /\ AnswersQuoted
  BY DEF ChatInv
<1>1. /\ RowsKept /\ RowsFit' /\ Asked \subseteq Asked'
      /\ \A d \in Asked : decisions'[d].kind = decisions[d].kind
  BY DEF Quiet, NoLine, RowsKept
<1>2. \A d \in Asked : \A answer, n : MayQuote(d, answer, n) => MayQuote(d, answer, n)'
  BY <1>1 DEF MayQuote, LinesKept
<1>3. QuotesChecked'
  <2> SUFFICES ASSUME NEW q \in quotes'
               PROVE  /\ q.of \in Asked' /\ q.found # {}
                      /\ \A n \in q.found : MayQuote(q.of, q.answer, n)'
    BY DEF QuotesChecked
  <2>1. PICK r \in quotes : /\ q.of = r.of /\ q.answer = r.answer
                            /\ q.found \subseteq r.found /\ q.found # {}
    BY DEF QuotesKept
  <2>2. r.of \in Asked /\ \A n \in r.found : MayQuote(r.of, r.answer, n)
    BY <1>0 DEF QuotesChecked
  <2> QED BY <1>1, <1>2, <2>1, <2>2
<1>4. AnswersQuoted'
  <2> SUFFICES ASSUME NEW d \in Asked', FromChat(d)'
               PROVE  /\ MayQuote(d, decisions[d].answer, decisions[d].prompt)'
                      /\ \A e \in Asked' \ {d} : decisions'[e].prompt # decisions'[d].prompt
    BY DEF AnswersQuoted
  <2>1. /\ d \in Asked /\ FromChat(d)
        /\ decisions'[d].prompt = decisions[d].prompt
        /\ decisions'[d].answer = decisions[d].answer
    BY DEF Quiet, NoLine, FromChat
  <2>2. /\ MayQuote(d, decisions[d].answer, decisions[d].prompt)
        /\ \A e \in Asked \ {d} : decisions[e].prompt # decisions[d].prompt
    BY <1>0, <2>1 DEF AnswersQuoted
  <2>3. MayQuote(d, decisions[d].answer, decisions[d].prompt)'
    BY <1>1, <2>1, <2>2 DEF MayQuote, LinesKept
  <2>4. decisions[d].prompt # 0
    BY <1>0, <2>2 DEF MayQuote, LinesFit
  <2>5. \A e \in Asked' \ {d} : decisions'[e].prompt # decisions'[d].prompt
    BY <2>1, <2>2, <2>4 DEF Quiet, NoLine
  <2> QED BY <2>3, <2>5
<1>5. LinesFit'
  BY DEF LinesKept
<1> QED BY <1>1, <1>3, <1>4, <1>5 DEF ChatInv

\* The quote is looked up before the answer is written.
LEMMA CheckedQuote ==
  ASSUME ChatInv, NEW a \in Agent, NEW d \in Decision, NEW answer \in Label \cup Verdict,
         NEW quote \in Text, CheckQuote(a, d, answer, quote)
  PROVE  ChatInv'
<1>1. PICK r : r = [of |-> d, answer |-> answer, found |-> Typed(a, d, quote)]
  OBVIOUS
<1>2. /\ d \in Asked /\ Typed(a, d, quote) # {} /\ Fits(d, answer, quote)
      /\ quotes' = quotes \cup {r}
      /\ UNCHANGED <<decisions, lines>>
  BY <1>1 DEF CheckQuote, Has
<1>3. RowsFit' /\ LinesFit' /\ AnswersQuoted' /\ Asked' = Asked
  BY <1>2 DEF ChatInv, RowsFit, LinesFit, AnswersQuoted, FromChat, MayQuote, Asked
<1>4. \A n \in Typed(a, d, quote) : MayQuote(d, answer, n)
  BY <1>2 DEF Typed, Transcript, Holds, MayQuote, Fits
<1>5. QuotesChecked'
  <2>1. \A q \in quotes : /\ q.of \in Asked' /\ q.found # {}
                          /\ \A n \in q.found : MayQuote(q.of, q.answer, n)'
    BY <1>2, <1>3 DEF ChatInv, QuotesChecked, MayQuote
  <2>2. /\ r.of \in Asked' /\ r.found # {}
        /\ \A n \in r.found : MayQuote(r.of, r.answer, n)'
    BY <1>1, <1>2, <1>3, <1>4 DEF MayQuote
  <2> QED BY <1>2, <2>1, <2>2 DEF QuotesChecked
<1> QED BY <1>3, <1>5 DEF ChatInv

\* Of the lines found the newest one is written, if it has answered nothing yet.
LEMMA WrittenAnswer ==
  ASSUME ChatInv, NEW q \in quotes, WriteChatAnswer(q)
  PROVE  ChatInv'
<1>2. PICK d : d = q.of
  OBVIOUS
<1>3. PICK n : n = Max(q.found)
  OBVIOUS
<1>0. RowsFit /\ LinesFit /\ QuotesChecked /\ AnswersQuoted
  BY DEF ChatInv
<1>4. /\ d \in Asked /\ q.found # {}
      /\ \A k \in q.found : MayQuote(d, q.answer, k)
  BY <1>0, <1>2 DEF QuotesChecked
<1>5. n \in q.found
  <2>1. Len(lines) \in Nat /\ DOMAIN lines = 1..Len(lines)
    BY <1>0, LenProperties DEF LinesFit
  <2>2. q.found \subseteq 0..Len(lines)
    BY <1>4, <2>1 DEF MayQuote
  <2> QED BY <1>3, <1>4, <2>1, <2>2, GreatestNumber
<1>6. /\ \/ quotes' = quotes \ {q}
         \/ /\ q.found # {n}
            /\ quotes' = (quotes \ {q}) \cup
                            {[of |-> d, answer |-> q.answer, found |-> q.found \ {n}]}
      /\ \/ /\ d \in Has("open") /\ ~Used(n)
            /\ Settle([e \in {d} |-> Answered(e, q.answer, "chat", n)])
         \/ UNCHANGED decisions
      /\ UNCHANGED lines
  BY <1>2, <1>3 DEF WriteChatAnswer
<1>7. LinesKept
  BY <1>0, <1>6 DEF LinesKept, LinesFit
<1>8. QuotesKept
  <2>1. \A r \in quotes : r.found # {}
    BY <1>0 DEF QuotesChecked
  <2>2. CASE quotes' = quotes \ {q}
    BY <2>1, <2>2 DEF QuotesKept
  <2>3. ASSUME q.found # {n},
               quotes' = (quotes \ {q}) \cup
                           {[of |-> d, answer |-> q.answer, found |-> q.found \ {n}]}
        PROVE  QuotesKept
    <3>1. PICK r : r = [of |-> d, answer |-> q.answer, found |-> q.found \ {n}]
      OBVIOUS
    <3>2. r.of = q.of /\ r.answer = q.answer /\ r.found \subseteq q.found /\ r.found # {}
      BY <1>2, <1>4, <2>3, <3>1
    <3>3. quotes' = (quotes \ {q}) \cup {r}
      BY <2>3, <3>1
    <3> QED BY <2>1, <3>2, <3>3 DEF QuotesKept
  <2> QED BY <1>6, <2>2, <2>3
<1>9. CASE UNCHANGED decisions
  <2>1. Quiet
    BY <1>0, <1>9, UnchangedKeeps
  <2> QED BY <1>7, <1>8, <2>1, QuietKeepsChat
<1>10. CASE /\ d \in Has("open") /\ ~Used(n)
            /\ Settle([e \in {d} |-> Answered(e, q.answer, "chat", n)])
  <2>1. PICK r : r = Answered(d, q.answer, "chat", n)
    OBVIOUS
  <2>2. IsRow(decisions[d])
    BY <1>0, <1>4 DEF RowsFit
  <2>3. /\ r.kind = decisions[d].kind /\ r.answer = q.answer
        /\ r.via = "chat" /\ r.prompt = n /\ IsRow(r)
    BY <2>1, <2>2, RewrittenIsRow, RewrittenColumns
  <2>4. RowsFit' /\ Asked' = Asked
    BY <1>0, ChatSettles, <1>10, <1>4 DEF RowsKept, Settle, Asked
  <2>5. decisions' = [e \in Asked |-> IF e = d THEN r ELSE decisions[e]]
    BY <1>10, <2>1 DEF Settle
  <2>6. \A e \in Asked : decisions'[e].kind = decisions[e].kind
    BY <2>3, <2>5
  <2>7. QuotesChecked'
    <3> SUFFICES ASSUME NEW u \in quotes'
                 PROVE  /\ u.of \in Asked' /\ u.found # {}
                        /\ \A k \in u.found : MayQuote(u.of, u.answer, k)'
      BY DEF QuotesChecked
    <3>1. PICK v \in quotes : /\ u.of = v.of /\ u.answer = v.answer
                              /\ u.found \subseteq v.found /\ u.found # {}
      BY <1>8 DEF QuotesKept
    <3>2. v.of \in Asked /\ \A k \in v.found : MayQuote(v.of, v.answer, k)
      BY <1>0 DEF QuotesChecked
    <3> QED BY <1>6, <2>4, <2>6, <3>1, <3>2 DEF MayQuote
  <2>8. AnswersQuoted'
    <3> SUFFICES ASSUME NEW e \in Asked, FromChat(e)'
                 PROVE  /\ MayQuote(e, decisions[e].answer, decisions[e].prompt)'
                        /\ \A f \in Asked \ {e} : decisions'[f].prompt # decisions'[e].prompt
      BY <2>4 DEF AnswersQuoted
    <3>0. \A f \in Asked : decisions[f].prompt # n
      BY <1>10 DEF Used
    <3>1. CASE e = d
      <4>1. MayQuote(d, q.answer, n)
        BY <1>4, <1>5
      <4> QED BY <1>6, <2>3, <2>5, <3>0, <3>1, <4>1 DEF MayQuote
    <3>2. CASE e # d
      <4>1. decisions'[e] = decisions[e] /\ FromChat(e)
        BY <2>5, <3>2 DEF FromChat
      <4>2. /\ MayQuote(e, decisions[e].answer, decisions[e].prompt)
            /\ \A f \in Asked \ {e} : decisions[f].prompt # decisions[e].prompt
        BY <1>0, <4>1 DEF AnswersQuoted
      <4> QED BY <1>6, <2>3, <2>5, <3>0, <4>1, <4>2 DEF MayQuote
    <3> QED BY <3>1, <3>2
  <2> QED BY <1>7, <2>4, <2>7, <2>8 DEF ChatInv, LinesKept
<1> QED BY <1>6, <1>9, <1>10

LEMMA SameLines == ChatInv /\ UNCHANGED lines => LinesKept
BY DEF ChatInv, LinesKept, LinesFit

\* What the human, the timers and the daemon do needs no call.
LEMMA SettlingFrame ==
  ASSUME ChatInv,
         \/ WithdrawGoal \/ Restart \/ UNCHANGED vars \/ \E D \in SUBSET Decision : Expire(D)
         \/ \E q \in quotes : Drop(q)
         \/ \E d \in Decision : \/ Publish(d) \/ Revise(d) \/ Withdraw(d)
                               \/ \E answer \in Label \cup Verdict : AnswerOnDashboard(d, answer)
  PROVE  LinesKept /\ QuotesKept
<1>1. UNCHANGED lines /\ quotes' \subseteq quotes
  BY DEF WithdrawGoal, Restart, vars, Expire, Drop, Publish, Revise, Withdraw,
         AnswerOnDashboard
<1>0. QuotesChecked
  BY DEF ChatInv
<1>2. LinesKept
  BY <1>1, SameLines
<1>3. QuotesKept
  <2>1. \A q \in quotes : q.found # {}
    BY <1>0 DEF QuotesChecked
  <2> QED BY <1>1, <2>1 DEF QuotesKept
<1> QED BY <1>2, <1>3

\* Only the human adds lines, at the end.
LEMMA AgentLines ==
  ASSUME ChatInv, NEW a \in Agent,
         \/ Subscribe(a) \/ Read(a) \/ Wake(a) \/ TimeOut(a) \/ Break(a)
         \/ RequestReview(a) \/ ClaimProject(a) \/ \E text \in Text : Type(a, text)
         \/ \E wait \in BOOLEAN, default \in Label \cup {None} : Ask(a, wait, default)
  PROVE  LinesKept /\ QuotesKept
<1>0. QuotesKept
  <2>1. UNCHANGED quotes
    BY DEF Subscribe, Read, Wake, TimeOut, Break, RequestReview, ClaimProject, Type, Ask
  <2> QED BY <2>1 DEF ChatInv, QuotesChecked, QuotesKept
<1>1. CASE UNCHANGED lines
  BY <1>0, <1>1, SameLines
<1>2. ASSUME NEW text \in Text, Type(a, text) PROVE LinesKept
  <2>1. PICK r : r = [session |-> a, text |-> text, after |-> Len(decisions)]
    OBVIOUS
  <2>2. lines' = Append(lines, r)
    BY <1>2, <2>1 DEF Type
  <2> DEFINE S == ToSet(lines) \cup {r}
  <2>3. lines \in Seq(S)
    <3>1. lines \in Seq(ToSet(lines)) /\ ToSet(lines) \subseteq S
      BY DEF ChatInv, LinesFit
    <3> HIDE DEF S
    <3> QED BY <3>1
  <2>4. /\ Len(lines) \in Nat /\ DOMAIN lines = 1..Len(lines)
        /\ Len(lines') = Len(lines) + 1 /\ DOMAIN lines' = 1..Len(lines')
        /\ \A n \in 1..Len(lines) : lines'[n] = lines[n]
        /\ lines' \in Seq(S)
    BY <2>2, <2>3, AppendProperties, LenProperties
  <2>5. lines' \in Seq(ToSet(lines'))
    BY <2>4, SeqDef DEF ToSet
  <2> QED BY <2>4, <2>5 DEF LinesKept, LinesFit
<1>3. UNCHANGED lines \/ \E text \in Text : Type(a, text)
  BY DEF Subscribe, Read, Wake, TimeOut, Break, RequestReview, ClaimProject, Ask
<1> QED BY <1>0, <1>1, <1>2, <1>3

LEMMA ChatInvStep ==
  ASSUME ChatInv, [Next]_vars
  PROVE  ChatInv'
<1>0. RowsFit
  BY DEF ChatInv
<1>1. ASSUME NEW a \in Agent, AgentStep(a) PROVE ChatInv'
  <2>1. CASE \/ Subscribe(a) \/ Read(a) \/ Wake(a) \/ TimeOut(a) \/ Break(a)
             \/ RequestReview(a) \/ ClaimProject(a) \/ \E text \in Text : Type(a, text)
             \/ \E wait \in BOOLEAN, default \in Label \cup {None} : Ask(a, wait, default)
    <3>1. LinesKept /\ QuotesKept
      BY <2>1, AgentLines
    <3>2. \/ UNCHANGED decisions
          \/ RequestReview(a)
          \/ \E wait \in BOOLEAN, default \in Label \cup {None} : Ask(a, wait, default)
      BY <2>1 DEF Subscribe, Read, Wake, TimeOut, Break, ClaimProject, Type
    <3>3. Quiet
      BY <1>0, <3>2, Files, UnchangedKeeps
    <3> QED BY <3>1, <3>3, QuietKeepsChat
  <2>2. CASE \/ ApplyWaited(a) \/ PollOwn(a) \/ PollRouted(a)
             \/ \E d \in Decision : PollOne(a, d)
    <3>1. UNCHANGED <<lines, quotes>>
      BY <2>2 DEF ApplyWaited, PollOwn, PollRouted, PollOne, Poll
    <3>3. LinesKept /\ QuotesKept
      BY <3>1 DEF ChatInv, LinesKept, LinesFit, QuotesChecked, QuotesKept
    <3>2. Quiet
      BY <1>0, <2>2, Polls
    <3> QED BY <3>2, <3>3, QuietKeepsChat
  <2>3. CASE \E d \in Decision, answer \in Label \cup Verdict, quote \in Text :
               d \in Asked /\ CheckQuote(a, d, answer, quote)
    BY <2>3, CheckedQuote
  <2> QED BY <1>1, <2>1, <2>2, <2>3 DEF AgentStep
<1>2. CASE \/ WithdrawGoal \/ Restart \/ UNCHANGED vars \/ \E D \in SUBSET Decision : Expire(D)
           \/ \E q \in quotes : Drop(q)
           \/ \E d \in Decision : \/ Publish(d) \/ Revise(d) \/ Withdraw(d)
                                 \/ \E answer \in Label \cup Verdict : AnswerOnDashboard(d, answer)
  <2>1. LinesKept /\ QuotesKept
    BY <1>2, SettlingFrame
  <2>2. \/ UNCHANGED decisions
        \/ WithdrawGoal \/ \E D \in SUBSET Decision : Expire(D)
        \/ \E d \in Decision : \/ Revise(d) \/ Withdraw(d)
                              \/ \E answer \in Label \cup Verdict : AnswerOnDashboard(d, answer)
    BY <1>2 DEF Restart, vars, Publish, Drop
  <2>3. Quiet
    BY <1>0, <2>2, Files, HumanSettles, UnchangedKeeps
  <2> QED BY <2>1, <2>3, QuietKeepsChat
<1>3. CASE \E q \in quotes : WriteChatAnswer(q)
  BY <1>3, WrittenAnswer
<1> QED BY <1>1, <1>2, <1>3 DEF Next

\* An answer from the chat is a line that the human typed after the decision was
\* asked, that names the review it settles, and that answers nothing else
\* (verifyHumanQuote, validateChatAnswer and the unique index on
\* answer_prompt_id), although the decisions, the lines and other calls that
\* quote the same line change what the check saw before the write.
THEOREM ChatAnswersAreHuman == Spec => []ChatAnswerIsHuman
<1>1. ChatInv => ChatAnswerIsHuman
  BY DEF ChatInv, AnswersQuoted, FromChat, MayQuote, ChatAnswerIsHuman
<1>2. ChatInv /\ [Next]_vars => ChatInv'
  BY ChatInvStep
<1> QED BY ChatInvInit, <1>1, <1>2, PTL DEF Spec
-----------------------------------------------------------------------------
(* Waiting for an answer                                                   *)

IsCall(c) == c = [at |-> c.at, of |-> c.of]

CallsFit ==
  /\ calls = [a \in Agent |-> calls[a]]
  /\ \A a \in Agent : IsCall(calls[a])

LEMMA CallsFitInit == Init => CallsFit
BY DEF Init, CallsFit, IsCall, NoCall

\* A call that goes on says where it is, and keeps what it is about.
LEMMA CallGoes ==
  ASSUME CallsFit, NEW a \in Agent, NEW to, GoTo(a, to)
  PROVE  /\ CallsFit' /\ calls'[a].at = to /\ calls'[a].of = calls[a].of
         /\ \A b \in Agent \ {a} : calls'[b] = calls[b]
<1>1. PICK c : c = [calls[a] EXCEPT !.at = to]
  OBVIOUS
<1>2. calls' = [b \in Agent |-> IF b = a THEN c ELSE calls[b]]
  BY <1>1 DEF GoTo, CallsFit
<1>3. IsCall(c) /\ c.at = to /\ c.of = calls[a].of
  BY <1>1 DEF CallsFit, IsCall
<1> QED BY <1>2, <1>3 DEF CallsFit, IsCall

LEMMA CallEnds ==
  ASSUME CallsFit, NEW a \in Agent, calls' = [calls EXCEPT ![a] = NoCall]
  PROVE  /\ CallsFit' /\ calls'[a] = NoCall
         /\ \A b \in Agent \ {a} : calls'[b] = calls[b]
<1>1. calls' = [b \in Agent |-> IF b = a THEN NoCall ELSE calls[b]]
  BY DEF CallsFit
<1> QED BY <1>1 DEF CallsFit, IsCall, NoCall

LEMMA CallBegins ==
  ASSUME CallsFit, NEW a \in Agent, NEW d,
         calls' = [calls EXCEPT ![a].at = "subscribe", ![a].of = d]
  PROVE  /\ CallsFit' /\ calls'[a].at = "subscribe" /\ calls'[a].of = d
         /\ \A b \in Agent \ {a} : calls'[b] = calls[b]
<1>1. PICK c1 : c1 = [calls[a] EXCEPT !.at = "subscribe"]
  OBVIOUS
<1>2. PICK c : c = [c1 EXCEPT !.of = d]
  OBVIOUS
<1>3. IsCall(c1) /\ c1.at = "subscribe"
  BY <1>1 DEF CallsFit, IsCall
<1>4. IsCall(c) /\ c.at = "subscribe" /\ c.of = d
  BY <1>2, <1>3 DEF IsCall
<1>5. calls' = [b \in Agent |-> IF b = a THEN c ELSE calls[b]]
  BY <1>1, <1>2 DEF CallsFit
<1> QED BY <1>4, <1>5 DEF CallsFit, IsCall

LEMMA CallsFitStep ==
  ASSUME CallsFit, [Next]_vars
  PROVE  CallsFit'
<1>1. CASE UNCHANGED calls
  BY <1>1 DEF CallsFit, IsCall
<1>2. ASSUME NEW a \in Agent, AgentStep(a) PROVE CallsFit'
  <2>1. \/ UNCHANGED calls \/ \E to : GoTo(a, to)
        \/ calls' = [calls EXCEPT ![a] = NoCall]
        \/ \E d : calls' = [calls EXCEPT ![a].at = "subscribe", ![a].of = d]
    BY <1>2 DEF AgentStep, Subscribe, Read, Wake, TimeOut, Break, ClaimProject, Type,
         CheckQuote, Ask, RequestReview, ApplyWaited, PollOne, PollOwn, PollRouted
  <2> QED BY <1>1, <2>1, CallGoes, CallEnds, CallBegins
<1>3. CASE Restart
  BY <1>3 DEF Restart, CallsFit, IsCall, NoCall
<1>4. UNCHANGED calls \/ Restart \/ \E a \in Agent : AgentStep(a)
  BY DEF Next, vars, WriteChatAnswer, Drop, Publish, Revise, Withdraw, AnswerOnDashboard,
         Expire, WithdrawGoal
<1> QED BY <1>1, <1>2, <1>3, <1>4

Waiting == {"subscribe", "read", "wait"}

\* A change that is due to be published has settled its decision, and a call
\* waits for a decision that was asked.
WakeInv ==
  /\ WaitsAreWoken
  /\ signalled \subseteq Agent
  /\ \A a \in Agent : calls[a].at \in Waiting => calls[a].of \in Asked
  /\ \A d \in unpublished : d \in Asked /\ Settled(d)

LEMMA WakeInvInit == Init => WakeInv
BY DEF Init, WakeInv, WaitsAreWoken, At, NoCall, Waiting

\* What a step does to the decisions: one that it settles is due to be published.
News ==
  /\ Asked \subseteq Asked'
  /\ \A d \in Asked : Settled(d) => Settled(d)'
  /\ \A d \in Asked : Settled(d)' => Settled(d) \/ d \in unpublished'
  /\ unpublished \subseteq unpublished'
  /\ \A d \in unpublished' : d \in Asked' /\ Settled(d)'

\* What it does to a call that neither reads nor is signalled in the step: the
\* call stays, ends its wait, or begins one.
CallMoves(a) ==
  \/ calls'[a] = calls[a] /\ (a \in signalled' <=> a \in signalled)
  \/ calls'[a].at \notin Waiting /\ a \notin signalled'
  \/ calls'[a].at \in {"subscribe", "read"} /\ calls'[a].of \in Asked' /\ a \notin signalled'

LEMMA MovesWake ==
  ASSUME WakeInv, News, signalled' \subseteq Agent, \A a \in Agent : CallMoves(a)
  PROVE  WakeInv'
<1> SUFFICES ASSUME NEW a \in Agent
             PROVE  /\ At(a, "wait")' /\ Settled(calls[a].of)' =>
                         a \in signalled' \/ calls'[a].of \in unpublished'
                    /\ a \in signalled' => /\ calls'[a].at \in {"read", "wait"}
                                           /\ Settled(calls[a].of)'
                    /\ calls'[a].at \in Waiting => calls'[a].of \in Asked'
  BY DEF WakeInv, WaitsAreWoken, News
<1>1. CASE calls'[a] = calls[a] /\ (a \in signalled' <=> a \in signalled)
  BY <1>1 DEF WakeInv, WaitsAreWoken, News, Waiting, At, Settled
<1>2. CASE calls'[a].at \notin Waiting /\ a \notin signalled'
  BY <1>2 DEF Waiting, At
<1>3. CASE calls'[a].at \in {"subscribe", "read"} /\ calls'[a].of \in Asked' /\ a \notin signalled'
  BY <1>3 DEF At
<1> QED BY <1>1, <1>2, <1>3 DEF CallMoves

LEMMA NoNews == WakeInv /\ UNCHANGED <<decisions, unpublished>> => News
BY DEF WakeInv, News, Asked, Settled

LEMMA FilingNews ==
  ASSUME WakeInv, RowsFit, UNCHANGED unpublished,
         \/ \E a \in Agent : RequestReview(a)
         \/ \E a \in Agent, wait \in BOOLEAN, default \in Label \cup {None} :
              Ask(a, wait, default)
         \/ \E d \in Decision : Revise(d)
  PROVE  News /\ Len(decisions) + 1 \in Asked'
<1>1. PICK row : decisions' = Append(decisions, row) /\ IsRow(row)
  BY NewRowIsRow DEF RequestReview, Ask, Revise, File
<1>2. \A d \in Asked : decisions'[d] = decisions[d]
  BY <1>1, FilingRows
<1>3. Asked \subseteq Asked' /\ Len(decisions) + 1 \in Asked'
  <2>1. decisions \in Seq(ToSet(decisions) \cup {row})
    BY DEF RowsFit
  <2> QED BY <1>1, <2>1, AppendProperties, LenProperties DEF Asked
<1> QED BY <1>2, <1>3 DEF WakeInv, News, Settled

\* Whoever settles or applies a decision publishes it.
LEMMA SettlingNews ==
  ASSUME WakeInv, RowsFit, NEW rows, DOMAIN rows \subseteq Asked, Settle(rows),
         \A d \in DOMAIN rows : rows[d].status # "open"
  PROVE  News
<1>1. /\ decisions' = [d \in Asked |-> IF d \in DOMAIN rows THEN rows[d] ELSE decisions[d]]
      /\ unpublished' = unpublished \cup DOMAIN rows
  BY DEF Settle
<1>2. Asked' = Asked
  BY <1>1 DEF Asked
<1> QED BY <1>1, <1>2 DEF WakeInv, News, Settled

LEMMA RewrittenIsSettled ==
  ASSUME NEW STATE d, IsRow(decisions[d])
  PROVE  /\ \A answer, via, prompt : Answered(d, answer, via, prompt).status # "open"
         /\ Withdrawn(d).status # "open" /\ Applied(d).status # "open"
BY DEF Answered, Withdrawn, Applied, IsRow

LEMMA SettleWakes ==
  ASSUME WakeInv, RowsFit,
         \/ \E d \in Decision : \/ Withdraw(d)
                               \/ \E answer \in Label \cup Verdict : AnswerOnDashboard(d, answer)
         \/ \E D \in SUBSET Decision : Expire(D)
         \/ WithdrawGoal
  PROVE  WakeInv'
<1>1. \A d \in Has("open") : d \in Asked /\ IsRow(decisions[d])
  BY DEF Has, RowsFit
<1>2. UNCHANGED <<calls, signalled>>
  BY DEF Withdraw, AnswerOnDashboard, Expire, WithdrawGoal
<1>3. ASSUME NEW rows, DOMAIN rows \subseteq Has("open"), Settle(rows),
             \A d \in DOMAIN rows :
               \/ rows[d] = Withdrawn(d)
               \/ \E answer, via, prompt : rows[d] = Answered(d, answer, via, prompt)
      PROVE  WakeInv'
  <2>1. \A d \in DOMAIN rows : d \in Asked /\ rows[d].status # "open"
    BY <1>1, <1>3, RewrittenIsSettled
  <2>2. News
    BY <1>3, <2>1, SettlingNews
  <2> QED BY <1>2, <2>2, MovesWake DEF WakeInv, CallMoves
<1>4. ASSUME NEW d \in Decision, Withdraw(d) PROVE WakeInv'
  <2>1. PICK rows : rows = [e \in {d} |-> Withdrawn(e)]
    OBVIOUS
  <2>2. DOMAIN rows \subseteq Has("open") /\ Settle(rows)
    BY <1>4, <2>1 DEF Withdraw
  <2> QED BY <1>3, <2>1, <2>2
<1>5. ASSUME NEW d \in Decision, NEW answer \in Label \cup Verdict,
             AnswerOnDashboard(d, answer)
      PROVE  WakeInv'
  <2>1. PICK rows : rows = [e \in {d} |-> Answered(e, answer, "dashboard", 0)]
    OBVIOUS
  <2>2. DOMAIN rows \subseteq Has("open") /\ Settle(rows)
    BY <1>5, <2>1 DEF AnswerOnDashboard
  <2> QED BY <1>3, <2>1, <2>2
<1>6. ASSUME NEW D \in SUBSET Decision, Expire(D) PROVE WakeInv'
  <2>1. PICK rows : rows = [d \in D |-> Answered(d, decisions[d].default, "default", 0)]
    OBVIOUS
  <2>2. DOMAIN rows \subseteq Has("open") /\ Settle(rows)
    BY <1>6, <2>1 DEF Expire, HaveDefault
  <2> QED BY <1>3, <2>1, <2>2
<1>7. CASE WithdrawGoal
  <2>1. PICK rows : rows = [d \in Has("open") |-> Withdrawn(d)]
    OBVIOUS
  <2>2. DOMAIN rows \subseteq Has("open") /\ Settle(rows)
    BY <1>7, <2>1 DEF WithdrawGoal
  <2> QED BY <1>3, <2>1, <2>2
<1> QED BY <1>4, <1>5, <1>6, <1>7

\* A step that moves the call of one agent.
LEMMA OneCallMoves ==
  ASSUME WakeInv, News, NEW a \in Agent, a \notin signalled',
         \A b \in Agent \ {a} : calls'[b] = calls[b],
         \A b \in Agent \ {a} : b \in signalled' <=> b \in signalled,
         signalled' \subseteq Agent,
         \/ calls'[a].at \notin Waiting
         \/ calls'[a].at \in {"subscribe", "read"} /\ calls'[a].of \in Asked'
  PROVE  WakeInv'
BY MovesWake DEF CallMoves

\* A call that neither reads nor waits holds no signal.
LEMMA NotSignalled ==
  ASSUME WakeInv, NEW a \in Agent, ~At(a, "read"), ~At(a, "wait")
  PROVE  a \notin signalled
BY DEF WakeInv, WaitsAreWoken, At

LEMMA AskWakes ==
  ASSUME WakeInv, RowsFit, CallsFit,
         \/ \E a \in Agent : RequestReview(a)
         \/ \E a \in Agent, wait \in BOOLEAN, default \in Label \cup {None} :
              Ask(a, wait, default)
         \/ \E d \in Decision : Revise(d)
  PROVE  WakeInv'
<1>1. UNCHANGED <<signalled, unpublished>>
  BY DEF RequestReview, Ask, Revise
<1>2. News /\ Len(decisions) + 1 \in Asked'
  BY <1>1, FilingNews
<1>3. CASE UNCHANGED calls
  BY <1>1, <1>2, <1>3, MovesWake DEF WakeInv, CallMoves
<1>4. ASSUME NEW a \in Agent, Idle(a),
             calls' = [calls EXCEPT ![a].at = "subscribe", ![a].of = Len(decisions) + 1]
      PROVE  WakeInv'
  <2>1. /\ calls'[a].at = "subscribe" /\ calls'[a].of = Len(decisions) + 1
        /\ \A b \in Agent \ {a} : calls'[b] = calls[b]
    BY <1>4, CallBegins
  <2>2. a \notin signalled
    BY <1>4, NotSignalled DEF Idle, At, NoCall
  <2> QED BY <1>1, <1>2, <2>1, <2>2, OneCallMoves DEF WakeInv
<1> QED BY <1>3, <1>4 DEF RequestReview, Ask, Revise

\* The steps of a call that do not touch a decision.
LEMMA CallWakes ==
  ASSUME WakeInv, CallsFit, NEW a \in Agent,
         \/ Subscribe(a) \/ Read(a) \/ Wake(a) \/ TimeOut(a) \/ Break(a)
  PROVE  WakeInv'
<1>1. News
  BY NoNews DEF Subscribe, Read, Wake, TimeOut, Break
<1>2. Asked' = Asked /\ UNCHANGED <<decisions, unpublished>>
  BY DEF Subscribe, Read, Wake, TimeOut, Break, Asked
<1>3. ASSUME NEW to \in {"read", "wait", "apply"}, GoTo(a, to)
      PROVE  /\ calls'[a].at = to /\ calls'[a].of = calls[a].of
             /\ \A b \in Agent \ {a} : calls'[b] = calls[b]
  BY <1>3, CallGoes
<1>4. CASE Subscribe(a)
  <2>1. calls[a].of \in Asked /\ a \notin signalled
    BY <1>4, NotSignalled DEF Subscribe, WakeInv, At, Waiting
  <2>2. \A b \in Agent : CallMoves(b)
    BY <1>2, <1>3, <1>4, <2>1 DEF Subscribe, CallMoves
  <2> QED BY <1>1, <1>4, <2>2, MovesWake DEF Subscribe, WakeInv
<1>5. CASE Read(a)
  <2>1. CASE Settled(calls[a].of)
    <3>1. \A b \in Agent : CallMoves(b)
      BY <1>3, <1>5, <2>1 DEF Read, CallMoves, Waiting
    <3> QED BY <1>1, <1>5, <2>1, <3>1, MovesWake DEF Read, WakeInv
  <2>2. CASE ~Settled(calls[a].of)
    <3>1. /\ calls'[a].at = "wait" /\ calls'[a].of = calls[a].of /\ UNCHANGED signalled
          /\ \A b \in Agent \ {a} : calls'[b] = calls[b]
          /\ calls[a].of \in Asked
      BY <1>3, <1>5, <2>2 DEF Read, WakeInv, At, Waiting
    <3> QED BY <1>2, <2>2, <3>1 DEF WakeInv, WaitsAreWoken, At, Settled, Waiting
  <2> QED BY <2>1, <2>2
<1>6. CASE Wake(a) /\ Settled(calls[a].of)
  <2>1. \A b \in Agent : CallMoves(b)
    BY <1>3, <1>6 DEF Wake, CallMoves, Waiting
  <2> QED BY <1>1, <1>6, <2>1, MovesWake DEF Wake, WakeInv
<1>7. CASE TimeOut(a) \/ Break(a) \/ (Wake(a) /\ ~Settled(calls[a].of))
  <2>1. calls' = [calls EXCEPT ![a] = NoCall] /\ signalled' = signalled \ {a}
    BY <1>7 DEF TimeOut, Break, Wake
  <2>2. calls'[a] = NoCall /\ \A b \in Agent \ {a} : calls'[b] = calls[b]
    BY <2>1, CallEnds
  <2>3. calls'[a].at \notin Waiting
    BY <2>2 DEF NoCall, Waiting
  <2> QED BY <1>1, <2>1, <2>2, <2>3, OneCallMoves DEF WakeInv
<1> QED BY <1>4, <1>5, <1>6, <1>7

LEMMA PollWakes ==
  ASSUME WakeInv, RowsFit, CallsFit, NEW a \in Agent,
         \/ ApplyWaited(a) \/ PollOwn(a) \/ PollRouted(a)
         \/ \E d \in Decision : PollOne(a, d)
  PROVE  WakeInv'
<1>1. ASSUME NEW D, Poll(D) PROVE News /\ UNCHANGED signalled
  <2>1. PICK rows : rows = [d \in D \cap Has("answered") |-> Applied(d)]
    OBVIOUS
  <2>2. Settle(rows) /\ DOMAIN rows \subseteq Asked /\ \A d \in DOMAIN rows : rows[d].status # "open"
    BY <1>1, <2>1, RewrittenIsSettled DEF Poll, Has, RowsFit
  <2> QED BY <1>1, <2>2, SettlingNews DEF Poll
<1>2. News /\ UNCHANGED signalled
  BY <1>1 DEF ApplyWaited, PollOwn, PollRouted, PollOne
<1>3. CASE UNCHANGED calls
  BY <1>2, <1>3, MovesWake DEF CallMoves, WakeInv
<1>4. CASE ~At(a, "read") /\ ~At(a, "wait") /\ calls' = [calls EXCEPT ![a] = NoCall]
  <2>1. calls'[a] = NoCall /\ \A b \in Agent \ {a} : calls'[b] = calls[b]
    BY <1>4, CallEnds
  <2>2. calls'[a].at \notin Waiting
    BY <2>1 DEF NoCall, Waiting
  <2> QED BY <1>2, <1>4, <2>1, <2>2, NotSignalled, OneCallMoves DEF WakeInv
<1>5. ASSUME NEW to \in {"none", "routed"}, GoTo(a, to), ~At(a, "read"), ~At(a, "wait")
      PROVE  WakeInv'
  <2>1. /\ calls'[a].at \notin Waiting
        /\ \A b \in Agent \ {a} : calls'[b] = calls[b]
    BY <1>5, CallGoes DEF Waiting
  <2> QED BY <1>2, <1>5, <2>1, NotSignalled, OneCallMoves DEF WakeInv
<1>6. CASE ApplyWaited(a)
  BY <1>4, <1>6 DEF ApplyWaited, At
<1>7. CASE PollOwn(a)
  <2>1. Idle(a) /\ (GoTo(a, "none") \/ GoTo(a, "routed"))
    BY <1>7 DEF PollOwn
  <2> QED BY <1>5, <2>1 DEF Idle, At, NoCall
<1>8. CASE PollRouted(a)
  <2>1. At(a, "routed") /\ (GoTo(a, "none") \/ UNCHANGED calls)
    BY <1>8 DEF PollRouted
  <2> QED BY <1>3, <1>5, <2>1 DEF At
<1>9. CASE \E d \in Decision : PollOne(a, d)
  BY <1>3, <1>9 DEF PollOne
<1> QED BY <1>6, <1>7, <1>8, <1>9

\* The answer from the chat, which the call writes that looked it up.
LEMMA ChatWakes ==
  ASSUME WakeInv, RowsFit, NEW q, WriteChatAnswer(q)
  PROVE  WakeInv'
<1>1. UNCHANGED <<calls, signalled>>
  BY DEF WriteChatAnswer
<1>2. News
  <2>1. CASE UNCHANGED <<decisions, unpublished>>
    BY <2>1, NoNews
  <2>2. ASSUME NEW d, NEW answer, NEW n, d \in Has("open"),
               Settle([e \in {d} |-> Answered(e, answer, "chat", n)])
        PROVE  News
    <3>1. PICK rows : rows = [e \in {d} |-> Answered(e, answer, "chat", n)]
      OBVIOUS
    <3>2. IsRow(decisions[d]) /\ d \in Asked
      BY <2>2 DEF RowsFit, Has
    <3>3. Answered(d, answer, "chat", n).status # "open"
      BY <3>2 DEF Answered, IsRow
    <3> QED BY <2>2, <3>1, <3>2, <3>3, SettlingNews
  <2> QED BY <2>1, <2>2 DEF WriteChatAnswer
<1> QED BY <1>1, <1>2, MovesWake DEF WakeInv, CallMoves

\* A publication passes the duty to wake on to the signal.
LEMMA PublishWakes ==
  ASSUME WakeInv, NEW d \in Decision, Publish(d)
  PROVE  WakeInv'
<1>1. /\ signalled' = signalled \cup {a \in Agent : Subscribed(a, d)}
      /\ unpublished' = unpublished \ {d} /\ d \in unpublished
      /\ UNCHANGED <<decisions, calls>> /\ Asked' = Asked
  BY DEF Publish, Asked
<1>2. Settled(d)
  BY <1>1 DEF WakeInv
<1> QED BY <1>1, <1>2 DEF WakeInv, WaitsAreWoken, Subscribed, At, Settled

LEMMA WakeInvStep ==
  ASSUME RowsFit, CallsFit, WakeInv, [Next]_vars
  PROVE  WakeInv'
<1>1. ASSUME NEW a \in Agent, AgentStep(a) PROVE WakeInv'
  <2>1. CASE \/ ClaimProject(a) \/ \E text \in Text : Type(a, text)
             \/ \E d \in Decision, answer \in Label \cup Verdict, quote \in Text :
                  CheckQuote(a, d, answer, quote)
    <3>1. UNCHANGED <<decisions, calls, signalled, unpublished>>
      BY <2>1 DEF ClaimProject, Type, CheckQuote
    <3> QED BY <3>1, NoNews, MovesWake DEF WakeInv, CallMoves
  <2>2. CASE \/ \E wait \in BOOLEAN, default \in Label \cup {None} : Ask(a, wait, default)
             \/ RequestReview(a)
    BY <2>2, AskWakes
  <2>3. CASE Subscribe(a) \/ Read(a) \/ Wake(a) \/ TimeOut(a) \/ Break(a)
    BY <2>3, CallWakes
  <2>4. CASE \/ ApplyWaited(a) \/ PollOwn(a) \/ PollRouted(a)
             \/ \E d \in Decision : PollOne(a, d)
    BY <2>4, PollWakes
  <2> QED BY <1>1, <2>1, <2>2, <2>3, <2>4 DEF AgentStep
<1>2. CASE Restart
  <2>1. \A a \in Agent : calls'[a].at = "none"
    BY <1>2 DEF Restart, NoCall
  <2> QED BY <1>2, <2>1 DEF Restart, WakeInv, WaitsAreWoken, At, Waiting
<1>3. CASE UNCHANGED vars \/ \E q \in quotes : Drop(q)
  <2>1. UNCHANGED <<decisions, calls, signalled, unpublished>>
    BY <1>3 DEF vars, Drop
  <2> QED BY <2>1, NoNews, MovesWake DEF WakeInv, CallMoves
<1>4. CASE \/ WithdrawGoal \/ \E D \in SUBSET Decision : Expire(D)
           \/ \E d \in Decision : \/ Withdraw(d)
                                 \/ \E answer \in Label \cup Verdict : AnswerOnDashboard(d, answer)
  BY <1>4, SettleWakes
<1>5. CASE \E d \in Decision : Revise(d)
  BY <1>5, AskWakes
<1>6. CASE \E d \in Decision : Publish(d)
  BY <1>6, PublishWakes
<1>7. CASE \E q \in quotes : WriteChatAnswer(q)
  BY <1>7, ChatWakes
<1> QED BY <1>1, <1>2, <1>3, <1>4, <1>5, <1>6, <1>7 DEF Next

\* WaitForAnswer subscribes before it reads, and every transition of a decision
\* is published after it is committed: nobody waits for a decision that is
\* settled without a signal or a publication on its way, and a signal is held
\* only by a call that waits for a decision that is settled.  This is the part
\* of SettledWaitEnds that needs no fairness.
THEOREM NoWakeUpIsLost == Spec => []WaitsAreWoken
<1>1. WakeInv => WaitsAreWoken
  BY DEF WakeInv
<1>2. RowsFit /\ CallsFit /\ WakeInv /\ [Next]_vars => RowsFit' /\ CallsFit' /\ WakeInv'
  BY RowsStep, CallsFitStep, WakeInvStep DEF RowsKept
<1> QED BY RowsFitInit, CallsFitInit, WakeInvInit, <1>1, <1>2, PTL DEF Spec
=============================================================================
