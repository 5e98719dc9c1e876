INIT Init
NEXT Next
CONSTANTS
  w1 = w1
  w2 = w2
  h1 = h1
  h2 = h2
  u1 = u1
  n1 = n1
  None = None
  FirstWorker = w1
  Worker = {w1, w2}
  Urls <- OneUrl
  Primaries <- OnePrimary
  AllowNotify <- NoHosts
  IpHosts = {u1}
  Prefixes = {}
  do_ip6 = FALSE
  MaxAddrs = 1
  MaxSerial = 2
  MaxChunks = 1
  NumTimeouts = 1
  MaxRetries = 1
  zonemd_check = "lookup"
  Bad = {2}
  zonefile = TRUE
  Happens = {"auth_zone_reload", "reload"}
  Malformed = TRUE
  OutOfMemory = {"timer", "lookup", "fetch", "write"}
PROPERTIES
  ServedDuringRefetch
CHECK_DEADLOCK TRUE
