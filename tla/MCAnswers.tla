------------------------------ MODULE MCAnswers ------------------------------
\* TLC instances of Answers.
EXTENDS Answers

CONSTANTS a1, a2

MCAgent == {a1, a2}

\* The lines are in the transcript of one session.
OneTranscript ==
  /\ \A n \in DOMAIN lines : lines[n].session = a1
  /\ \A d \in Asked : decisions[d].asker = a2 => d = 2

\* Waiting calls, two of them where nothing was typed, beside one line and one
\* quote of a label at a time.  The first decision may have a default.
OneQuote ==
  /\ Len(lines) <= 1
  /\ \A n \in DOMAIN lines : lines[n].text.says \in Label
  /\ \A d \in Asked : decisions[d].default # None => d = 1
  /\ Cardinality(quotes) <= 1
  /\ lines # <<>> => \E a \in Agent : Idle(a)

\* Or quotes that overlap with one another, and nobody waits.  The first decision
\* may be approved.
QuotesOverlap ==
  /\ \A n \in DOMAIN lines : lines[n].text.of <= 1 /\ lines[n].text.says # "reject"
  /\ \A d \in Asked : decisions[d].default = None
  /\ \A a \in Agent : Idle(a)

Explored == OneTranscript /\ (OneQuote \/ QuotesOverlap)
=============================================================================
