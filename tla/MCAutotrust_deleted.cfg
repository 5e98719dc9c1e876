SPECIFICATION Spec
CONSTANTS
  w1 = w1
  w2 = w2
  k1 = k1
  k2 = k2
  z1 = z1
  None = None
  ProbeWorker = w1
  Worker = {w1, w2}
  Ksk = {k1}
  Zsk = {z1}
  MaxTime = 2
  Interval = 1
  add_holddown = 0
  del_holddown = 0
  keep_missing = 0
  MIN_PENDINGCOUNT = 2
  MaxCount = 2
  MaxAnchors = 1
INVARIANTS NotDeletedInUse
