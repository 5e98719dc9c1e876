SPECIFICATION Spec
CONSTANTS
  w1 = w1
  w2 = w2
  h1 = h1
  h2 = h2
  u1 = u1
  n1 = n1
  None = None
  FirstWorker = w1
  Worker = {w1, w2}
  Urls <- NoHosts
  Primaries <- OnePrimary
  AllowNotify <- Block
  IpHosts = {h1}
  Prefixes = {n1}
  do_ip6 = FALSE
  MaxAddrs = 1
  MaxSerial = 1
  MaxChunks = 0
  NumTimeouts = 1
  MaxRetries = 0
  zonemd_check = "off"
  Bad = {}
  zonefile = FALSE
  Happens = {"notify", "auth_zone_transfer", "expiry"}
  Malformed = FALSE
  OutOfMemory = {}
PROPERTIES Expires
INVARIANTS
  TasksGoOn
CHECK_DEADLOCK TRUE
