SPECIFICATION Spec
CONSTANTS
  a1 = a1
  a2 = a2
  Agent <- MCAgent
  Receiver = {a2}
  None = None
  Label = {"yes"}
  MaxDecisions = 2
  MaxLines = 2
CONSTRAINT Explored
INVARIANTS ChatAnswerIsHuman WaitsAreWoken
PROPERTIES FirstAnswerStands SettledWaitEnds
