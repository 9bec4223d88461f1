SPECIFICATION FairSpec
CONSTANTS
  goal = goal open = open qed = qed
  split = split close = close fails = fails
  good = good needs = needs broken = broken foreign = foreign
  ProofStates = {goal, open, qed}
  Tactics = {split, close}
  Goals <- MCGoals
  Leads <- MCLeads
  Fails = fails
  Agents = {1, 2}
  StepLevel = {2}
  StopOnText = {1}
  MaxTurns = 2
  Slots = {1, 2}
  Codes = {good, needs, broken, foreign}
  Kind <- MCKind
  Clean = {good, needs, broken, foreign}
  Accepted = {good, needs, foreign}
  BodyAccepted = {broken}
  Theorem = goal
  None = None
INVARIANTS ReportsProve ReportEndsLoop
PROPERTIES RunReturns
CHECK_DEADLOCK FALSE
