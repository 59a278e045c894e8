CONSTANTS
  None = None
  x1 = x1  x2 = x2
  y1 = y1  y2 = y2
  j1 = j1  j2 = j2  u1 = u1  w1 = w1
  v1 = v1  e1 = e1  d1 = d1
SPECIFICATION Spec
PROPERTIES
  DriftHeals
  NobodyIsLeftWaiting
  JobSettles
  LockFreed
CHECK_DEADLOCK FALSE
