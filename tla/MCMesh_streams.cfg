CONSTANTS
  q1 = q1  q2 = q2  q3 = q3  c1 = c1  c2 = c2  c3 = c3  k1 = k1
  Query = {q1, q2}
  Client = {c1, c2, c3}
  Callback = {}
  Conn = {k1}
  UDP = UDP
  ConnOf <- Mixed
  NoState = NoState
  NumMods = 2
  max_reply_states = 1
  ReplyAddrFactor = 1
  MESH_MAX_ACTIVATION = 2
  MESH_MAX_RUN_ITER = 3
  ServeExpired = TRUE
  ErrorReporting = FALSE
  OutOfMemory = TRUE
SPECIFICATION Spec
SYMMETRY StreamSymmetry
INVARIANTS OpenListLive CountersExact ReplyAddrsBounded
