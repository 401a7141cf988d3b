----------------------------- MODULE MCIdentity -----------------------------
\* TLC instances of Identity.
EXTENDS Identity, TLC

CONSTANTS a1, a2

MCAgent == {a1, a2}

Symmetry == Permutations(MCAgent)

\* One session that handoffs and decisions name, and one approved discard.
FewReferences == Cardinality(parties \cup asked) <= 1 /\ Cardinality(approved) <= 1

\* One session.identify and one bound tool call at a time, and one row that is
\* in no project.
FewCalls ==
  /\ Cardinality(toolUse) + Cardinality({a \in Agent : identify[a] # NoCall}) <= 1
  /\ Cardinality({i \in DOMAIN rows : ~rows[i].project}) <= 1

\* Claims and commanders are what looks at a lease that has just lapsed, so one
\* lapses while the project is claimed and nobody is being attached to a row.
LapsesUnderClaim ==
  LET Lapsed == {i \in DOMAIN rows : rows[i].lease = "lapsed"} IN
  Lapsed # {} =>
    /\ Cardinality(Lapsed) = 1
    /\ claim # 0
    /\ toolUse = {}
    /\ \A a \in Agent : identify[a] = NoCall
=============================================================================
