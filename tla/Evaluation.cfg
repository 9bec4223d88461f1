SPECIFICATION MCSpec
CONSTANTS
  good = good odd = odd part = part
  NProblems = 2
  MaxSamples = 2
  Ks = {1, 2}
  Codes = {good, odd, part}
  Proving = {good, odd}
  Partly = {good, odd, part}
  Recognised = {good, part}
  None = None
  MaxAccepted = 2
  MaxRuns = 2
INVARIANTS PassAtKUnbiased SolvedIsProved ResumeKeepsVerdict
CHECK_DEADLOCK FALSE
