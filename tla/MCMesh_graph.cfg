CONSTANTS
  q1 = q1  q2 = q2  q3 = q3  c1 = c1  c2 = c2  c3 = c3  k1 = k1
  Query = {q1, q2, q3}
  Client = {c1}
  Callback = {}
  Conn = {}
  UDP = UDP
  ConnOf <- UdpOnly
  NoState = NoState
  NumMods = 1
  max_reply_states = 1
  ReplyAddrFactor = 1
  MESH_MAX_ACTIVATION = 1
  MESH_MAX_RUN_ITER = 2
  ServeExpired = FALSE
  ErrorReporting = TRUE
  OutOfMemory = FALSE
SPECIFICATION Spec
SYMMETRY QuerySymmetry
INVARIANTS TypeOK NoDanglingState SubSuperInSync NoDependencyCycle CountersExact NoStuckState
PROPERTY JostleOrderKept
