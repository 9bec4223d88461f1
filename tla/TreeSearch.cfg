SPECIFICATION MCSpec
CONSTANTS
  goal = goal two = two one = one qed = qed
  split = split close = close fails = fails
  ProofStates = {goal, two, one, qed}
  Tactics = {split, close}
  Goals <- MCGoals
  Leads <- MCLeads
  Fails = fails
  RootHolds = {goal}
  OneProcess = FALSE
  Policies = {"best_first", "ucb", "beam"}
  MaxNodes = 4
  MaxDepth = 3
  BeamWidth = 1
  MaxTurns = 2
  Slots = {1, 2}
INVARIANTS TreeInv EdgesSound
PROPERTIES ReturnsOrBarren
CHECK_DEADLOCK FALSE
