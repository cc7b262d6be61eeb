CONSTANTS
  t1 = t1  t2 = t2  t3 = t3  a1 = a1  a2 = a2
  Tasks = {t1, t2, t3}
  Apps = {a1, a2}
  AppOf <- Siblings
  ES = ES
  MsgIds = {m1}
  Bufs = {b1, b2}
  NULL = NULL
  MaxPipes = 2
  MaxRoutes = 1
  MaxDest = 2
  Depth = 1
  MsgLim = 1
  MaxPipeId = 3
SPECIFICATION RaceSpec
SYMMETRY BufSymmetry
INVARIANTS
  UseCountExact
CHECK_DEADLOCK FALSE
