---------------------------- MODULE MCTaskHandoff ----------------------------
\* TLC instances of TaskHandoff.
EXTENDS TaskHandoff, TLC

Symmetry == Permutations(Session) \cup Permutations(Handoff)

\* The project's claim decides only who is a subcommander here.
NoClaim == claim = None /\ \A s \in Session : ~Doing(s, "claimProject")

\* A task delegated once goes through its review, and nothing but its handoff
\* writes the status; an open decision matters only to a completion.
ReviewOfOne ==
  /\ Cardinality({h \in Handoff : Requested(h)}) <= 1
  /\ asked => \A s \in InFlight : Doing(s, "complete")
  /\ ~withdrawn
  /\ \A s \in Session : call[s].op \notin Releasing

\* A task delegated again is not reviewed; an open decision matters only to an
\* update to done, an update to dropped goes the way of the one to todo, and
\* after a withdrawal calls do not overlap.
TakeoverOfTwo ==
  /\ \A h \in Handoff : ~Submitted(h)
  /\ asked => \A s \in InFlight : Doing(s, "done")
  /\ \A s \in Session : ~Doing(s, "dropped")
  /\ withdrawn => Cardinality(InFlight) <= 1

ReviewOrTakeover == ReviewOfOne \/ TakeoverOfTwo

Ended == {h \in Handoff : Requested(h) /\ ~Live(h)}

\* While nothing is open, a late call about an ended handoff overlaps with the
\* request for its replacement.
LateOverlaps ==
  Ended # {} /\ OpenRows = {} /\ Cardinality(InFlight) > 1 =>
    /\ \E s \in InFlight : call[s].h \in Ended
    /\ \E s \in Session : Doing(s, "request")

\* What calls do after the last handoff has ended, they do after the first too.
QuietOnceEnded == Ended = Handoff => InFlight = {}

\* task.update to doing or review, which asks for nothing.
FreeUpdateInTakeover == task' # task /\ call' = call => TakeoverOfTwo
=============================================================================
