SPECIFICATION PunctualSpec
CONSTANTS
  a1 = a1
  a2 = a2
  Agent <- MCAgent
  None = None
  MaxId = 3
  Budget = 1
SYMMETRY Symmetry
CONSTRAINTS FewReferences FewCalls LapsesUnderClaim
INVARIANTS SessionServesOneAgent ReferencedSessionsExist
PROPERTIES RevocationSticks
