CONSTANTS
 Worker = {a1, a2}
 QType = {tA}
 UNKNOWN_SERVER_NICENESS = 16
 RTT_MIN_TIMEOUT = 8
 USEFUL_SERVER_TOP_TIMEOUT = 128
 still_useful_timeout = 100
 PROBE_MAXRTO = 64
 TIMEOUT_COUNT_MAX = 1
 host_ttl = 3
 SECOND = 64
 TICK = 32
 Roundtrip = {2}

 RATE_WINDOW = 2
 ratelimit = 1
 wait_limit = 0
 MaxWait = 3
 MaxSecond = 3
 MaxCount = 2
 App = {a1, a2}
 MaxQuery = 2
 PipeSize = 1

 AddrOf <- Addrs
 None = None
 Key = {k1, k2}
 TcpKey = {k2}
 Entry = {a1, a2}
 Port = {c1}
 Pending = {p1, p2}
 Stream = {s1}
 Waiting = {t1, t2}
 Id = {1, 2}
 max_reuse_tcp_queries = 2
 tcp_reuse_max = 1
 OUTBOUND_UDP_RETRY = 1
 delayclose = TRUE
 Faults = TRUE
INIT ComponentInit
NEXT ComponentNext
SYMMETRY Interchangeable
INVARIANTS CallbacksKept  WaitsWhenFull StreamAnswersMatch  ServerTimeouts RatesCounted AsyncQueriesKept
CHECK_DEADLOCK FALSE
