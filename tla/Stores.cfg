SPECIFICATION MCSpec
CONSTANTS
  simp = simp goal = goal h = h pc = pc w1 = w1 w2 = w2
  a1 = a1 a2 = a2 a3 = a3 p1 = p1 p2 = p2
  s1 = s1 s2 = s2 th1 = th1 f1 = f1 d1 = d1
  Writers = {w1, w2}
  Keys = {simp}
  Goal <- MCGoal
  Lemmas = {h}
  NoLemma = NoLemma
  Contexts = {pc}
  Attempts <- MCAttempts
  MinSamples = 1
  Few = 2
  Fresh = 1
  Top = 2
  MaxOps = 3
  MaxUpkeep = 2
  Adders = {a1, a2, a3}
  Processes = {p1, p2}
  ProcessOf <- MCProcessOf
  Statements = {s1, s2}
  MaxRows = 3
  Theorems = {th1}
  Files <- MCFiles
  DbRows <- MCDbRows
  Memory = Memory
  NoDialog = NoDialog
  MaxEntries = 2
SYMMETRY MCSymmetry
INVARIANTS CountsAgree LemmaHasTrace NoTwins DialogsSound
CHECK_DEADLOCK FALSE
