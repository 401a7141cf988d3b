SPECIFICATION FairAdviceSpec
CONSTANTS
  Task = {t1, t2}
  NewGoal = {}
  NoTask = NoTask
  MaxGen = 2
  Deviation = {"drop", "ask", "withdraw", "recover.goal", "recover.task"}
  MaxOdd = 1
INVARIANTS SomebodyIsNamed AdvisedActorCanAct StopIsSafe
PROPERTIES AdviceLeadsToDone
CHECK_DEADLOCK FALSE
