SPECIFICATION VerificationSpec
CONSTANTS
  a = a b = b avoid = avoid verified = verified found = found other = other
  plain = plain uses = uses sorry = sorry s1 = s1 s2 = s2
  Senders = {a, b}
  Members = {b}
  Topics = {found, other, avoid, verified}
  Fingerprint <- MCFingerprint
  Shareable = {found, other}
  Priority <- MCPriority
  Size <- MCSize
  MaxChars = 2
  MaxMessages = 2
  MaxHistory = 2
  MaxFresh = 2
  MaxQueue = 2
  Window = 0
  Ttl = 1
  MaxTime = 2
  Tasks = {a}
  Sessions = {s1, s2}
  Proofs = {plain, uses, sorry}
  Filtered = {sorry}
  Valid = {plain, uses}
  UsesLemma = {uses}
  CacheSize = 1
  MaxShares = 1
  Avoid = avoid
  Verified = verified
  Certified = verified
INVARIANTS VerdictCurrent PostedVisible NoRepeats LosesTheLast
SYMMETRY MCSymmetry
CHECK_DEADLOCK FALSE
