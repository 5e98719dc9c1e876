CONSTANTS
  t1 = t1  t2 = t2  aa = aa  bb = bb  d1 = d1  d2 = d2
  s1 = s1  s2 = s2  s3 = s3
  Thread = {t1, t2}
  NoThread = NoThread
  Name = {aa, bb}
  Data = {d1, d2}
  Slot = {s1, s2, s3}
  NULL = NULL
  Addr <- AddrMV
  Hash <- HashMV
  Size <- SizeMV
  Proofs = {aa}
  Replies <- NoReplies
  space_max = 2
  StartSize = 1
  MaxSize = 4
  MaxId = 3
  Ops = {"get", "edit", "update", "remove", "traverse", "flush", "clear"}
SPECIFICATION Spec
SYMMETRY ThreadSlotSymmetry
INVARIANTS TableExact SpaceExact
PROPERTIES HeldUnchanged RefinesMap
