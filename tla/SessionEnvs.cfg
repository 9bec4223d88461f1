SPECIFICATION MCSpec
CONSTANTS
  Loaded <- MathlibOnly
  Preambles <- ProofPreambles
  Imports <- ImportCommands
  User = "user"
  Heartbeat = "heartbeat"
  Sharers = {"lemma1", "lemma2"}
  MaxRestarts = 1
  MaxTimeouts = 1
  MaxEnvs = 4
INVARIANTS EnvInv CheckedWhenClean CachedWhenClean SharedStays
CHECK_DEADLOCK FALSE
