SPECIFICATION Spec
CONSTANTS
  goal = goal two = two qed = qed
  split = split close = close fails = fails
  first = first again = again second = second bare = bare
  n1 = n1 n2 = n2 n3 = n3 c1 = c1 c2 = c2
  Submitters = {c1, c2}
  SessionIds = {"session"}
  Texts = {first, again, second, bare}
  NameOf <- MCNameOf
  Needs <- MCNeeds
  Bare = {bare}
  MaxLemmas = 2
  MaxContexts = 2
  Clients = {c1, c2}
  Goods = {"good"}
  Bads = {"bad"}
  Imports = {"import Mathlib"}
  Default = "import Mathlib"
  MaxBatch = 2
  MaxEnvs = 2
  MaxSnapshots = 2
  MaxImports = 2
  ProofStates = {goal, two, qed}
  Tactics = {split, close}
  Goals <- MCGoals
  Leads <- MCLeads
  Fails = fails
  Users = {c1, c2}
  Theorems = {goal}
  Methods = {"goal_tactic", "goal_focus", "goal_have"}
  Local = local
  MaxStates = 3
INVARIANTS ContextsCompile VerdictsOwn HandlesMatch CompletionEarned
SYMMETRY MCSymmetry
CHECK_DEADLOCK FALSE
