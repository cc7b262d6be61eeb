CONSTANTS
  t1 = t1  t2 = t2  t3 = t3  a1 = a1  a2 = a2
  Tasks = {t1, t2}
  Apps = {a1, a2}
  AppOf <- TwoApps
  ES = ES
  MsgIds = {m1}
  Bufs = {b1, b2}
  NULL = NULL
  MaxPipes = 2
  MaxRoutes = 1
  MaxDest = 2
  Depth = 2
  MsgLim = 1
  MaxPipeId = 2
SPECIFICATION Spec
SYMMETRY BufSymmetry
INVARIANT DeletedPipeIsEmpty
CHECK_DEADLOCK FALSE
