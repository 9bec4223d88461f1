SPECIFICATION MctsSpec
CONSTANTS
  s0 = s0
  s1 = s1
  s2 = s2
  done = done
  a = a
  b = b
  first = first
  second = second
  fails = fails
  plain = plain
  opened = opened
  ProofStates = {s0, s1, s2, done}
  Tactics = {a, b}
  Fails = fails
  Problems = {first, second}
  Dataset <- MCDataset
  Preambles = {plain, opened}
  Goals <- MCGoals
  Leads <- MCLeads
  PreambleOf <- MCPreambleOf
  RootIn <- MCRootIn
  MaxRestarts = 1
  MaxFaults = 2
  MaxBeats = 1
  MaxDepth = 2
  MaxCandidates = 2
  MaxNodes = 5
  MaxVisits = 7
  MaxRuns = 2
INVARIANTS TracesReplay GivenUpUnprovable LivePathsProgress
CHECK_DEADLOCK FALSE
