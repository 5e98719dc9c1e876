CONSTANTS
  t1 = t1  t2 = t2  aa = aa  bb = bb  d1 = d1  d2 = d2
  s1 = s1  s2 = s2  s3 = s3
  Thread = {t1, t2}
  NoThread = NoThread
  Name = {aa, bb}
  Data = {d1}
  Slot = {s1, s2, s3}
  NULL = NULL
  Addr <- AddrMV
  Hash <- HashMV
  Size <- SizeMV
  Proofs = {aa}
  Replies <- OneOrBoth
  space_max = 2
  StartSize = 1
  MaxSize = 2
  MaxId = 3
  Ops = {"store", "read", "remove"}
SPECIFICATION Spec
SYMMETRY ThreadSymmetry
INVARIANTS RefMatches NoDeadlock
