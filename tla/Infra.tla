------------------------------- MODULE Infra -------------------------------
(***************************************************************************)
(* What is remembered of a server (services/cache/infra.c, util/rtt.c): the *)
(* timeout of queries to it, whether it takes EDNS, whether it is lame.     *)
(* Workers that query the server share the entry.  They choose the server   *)
(* if infra_get_lame_rtt says that it is of use, get a timeout with         *)
(* infra_host and report an answer or a timeout with infra_rtt_update.  An  *)
(* action is what is done with the entry locked.                            *)
(*                                                                         *)
(* Times are milliseconds, or some other unit, SECOND of which are a second *)
(* of timenow; the clock ticks every TICK units.  The ttl and the           *)
(* probedelay of the entry are kept as the seconds that are left.           *)
(***************************************************************************)
EXTENDS Integers, FiniteSetsExt

CONSTANTS
  Worker, QType,
  UNKNOWN_SERVER_NICENESS, RTT_MIN_TIMEOUT,
  USEFUL_SERVER_TOP_TIMEOUT,     \* and RTT_MAX_TIMEOUT, which is the same
  still_useful_timeout, PROBE_MAXRTO, TIMEOUT_COUNT_MAX,
  host_ttl,
  SECOND, TICK,
  Roundtrip                      \* the roundtrip times of answers

VARIABLES
  host,    \* the entry, or NoHost
  query,   \* what each worker does
  phase,   \* the time in the current second
  infra_keep_probing,  \* from the configuration
  asked,   \* the longest timeout of a query since the last answer
  probing  \* the worker that sent the last probe of this entry, as a set

vars == <<host, query, phase, infra_keep_probing, asked, probing>>

RTT_MAX_TIMEOUT == USEFUL_SERVER_TOP_TIMEOUT

-----------------------------------------------------------------------------
(* util/rtt.c *)

\* The division of C.
Quotient(a, b) == IF a >= 0 THEN a \div b ELSE -((-a) \div b)

Clamp(rto) ==
  IF rto < RTT_MIN_TIMEOUT THEN RTT_MIN_TIMEOUT
  ELSE IF rto > RTT_MAX_TIMEOUT THEN RTT_MAX_TIMEOUT ELSE rto

calc_rto(r) == Clamp(r.srtt + 4 * r.rttvar)

\* The update functions keep the other fields of the entry.
WithRto(r) == [r EXCEPT !.rto = calc_rto(r)]

rtt_init(r) ==
  WithRto([r EXCEPT !.srtt = 0, !.rttvar = UNKNOWN_SERVER_NICENESS \div 4])

rtt_unclamped(r) ==
  IF calc_rto(r) # r.rto THEN r.rto ELSE r.srtt + 4 * r.rttvar

rtt_update(r, ms) ==
  LET delta == ms - r.srtt
      abs   == IF delta < 0 THEN -delta ELSE delta
  IN  WithRto([r EXCEPT !.srtt = @ + Quotient(delta, 8),
                        !.rttvar = @ + Quotient(abs - @, 4)])

rtt_lost(r, orig) ==
  IF r.rto < orig \/ r.rto > 2 * orig THEN r
  ELSE [r EXCEPT !.rto = IF 2 * orig > RTT_MAX_TIMEOUT THEN RTT_MAX_TIMEOUT
                         ELSE 2 * orig]

-----------------------------------------------------------------------------
(* The entry. *)

NoHost == [ttl |-> -2]

Present == host # NoHost

Expired == host.ttl < 0

data_entry_init ==
  rtt_init([ttl |-> host_ttl, srtt |-> 0, rttvar |-> 0, rto |-> 0,
            probedelay |-> 0, edns_version |-> 0, edns_lame_known |-> FALSE,
            lame |-> {}, timeout |-> [t \in QType |-> 0]])

\* The entry that a handler with the write lock goes on with.
FindOrNew == IF ~Present \/ Expired THEN data_entry_init ELSE host

Idle == [pc |-> "idle", qtype |-> CHOOSE t \in QType : TRUE, orig |-> 0,
         left |-> 0, old |-> NoHost]

\* The timeout of infra_host; longer than PROBE_MAXRTO, the query is a probe.
IsProbe(to, h) ==
  /\ to >= PROBE_MAXRTO
  /\ infra_keep_probing \/ calc_rto(h) * 4 <= to

Left(to) == (to + TICK - 1) \div TICK

Send(w, to) ==
  /\ query' = [query EXCEPT ![w] = [Idle EXCEPT !.pc = "sent", !.orig = to,
                                      !.qtype = query[w].qtype, !.left = Left(to)]]
  /\ asked' = IF to > asked THEN to ELSE asked
  /\ UNCHANGED <<phase, infra_keep_probing>>

\* A faulty variant of the definition below.
Delayed_short(h, to) == [h EXCEPT !.probedelay = (to + SECOND - 1) \div SECOND]

Delayed(h, to) == [h EXCEPT !.probedelay = (to + 2 * SECOND - 1) \div SECOND]

\* infra_get_lame_rtt
Rtt(qtype) ==
  LET r == rtt_unclamped(host)
      full == host.timeout[qtype] >= TIMEOUT_COUNT_MAX
  IN  IF Expired /\ host.rto >= USEFUL_SERVER_TOP_TIMEOUT THEN still_useful_timeout
      ELSE IF host.rto >= PROBE_MAXRTO /\ host.probedelay = 0 /\ infra_keep_probing
      THEN IF r >= USEFUL_SERVER_TOP_TIMEOUT THEN still_useful_timeout ELSE r
      ELSE IF /\ host.rto >= PROBE_MAXRTO /\ host.probedelay > 0
              /\ calc_rto(host) * 4 <= host.rto
      THEN IF full THEN USEFUL_SERVER_TOP_TIMEOUT ELSE still_useful_timeout
      ELSE r

\* iter_filter_unsuitable: without information, or with that of an entry that
\* expired, the server is chosen.
Suitable(qtype) ==
  Present =>
    /\ ~Expired => qtype \notin host.lame
    /\ ~(Expired /\ host.rto < USEFUL_SERVER_TOP_TIMEOUT) =>
          Rtt(qtype) < USEFUL_SERVER_TOP_TIMEOUT

-----------------------------------------------------------------------------
(* Workers. *)

\* A worker chooses the server for a query.
Select(w, qtype) ==
  /\ query[w].pc = "idle"
  /\ Suitable(qtype)
  /\ query' = [query EXCEPT ![w] = [Idle EXCEPT !.pc = "host", !.qtype = qtype]]
  /\ UNCHANGED <<host, phase, infra_keep_probing, asked, probing>>

\* infra_host: the lookup with a read lock.
infra_host(w) ==
  /\ query[w].pc = "host"
  /\ IF ~Present
     THEN /\ host' = data_entry_init
          /\ Send(w, data_entry_init.rto)
          /\ probing' = {}
     ELSE IF Expired
     THEN /\ query' = [query EXCEPT ![w].pc = "reuse", ![w].old = host]
          /\ UNCHANGED <<host, phase, infra_keep_probing, asked, probing>>
     ELSE IF IsProbe(host.rto, host)
     THEN /\ query' = [query EXCEPT ![w].pc = "probe", ![w].orig = host.rto]
          /\ UNCHANGED <<host, phase, infra_keep_probing, asked, probing>>
     ELSE /\ Send(w, host.rto)
          /\ UNCHANGED <<host, probing>>

\* "it expired, try to reuse existing entry", now with a write lock.
Reused(old) ==
  IF old.rto >= USEFUL_SERVER_TOP_TIMEOUT
  THEN [data_entry_init EXCEPT !.rto = USEFUL_SERVER_TOP_TIMEOUT,
                               !.probedelay = old.probedelay,
                               !.timeout = old.timeout]
  ELSE data_entry_init

HostReuse(w) ==
  LET h == IF Present THEN Reused(query[w].old) ELSE data_entry_init
      probe == Present /\ IsProbe(h.rto, h)
  IN  /\ query[w].pc = "reuse"
      /\ host' = IF probe THEN Delayed(h, h.rto) ELSE h
      /\ probing' = IF probe THEN {w} ELSE {}
      /\ Send(w, h.rto)

\* "delay other queries, this is the probe query", with a write lock.
HostProbe(w) ==
  /\ query[w].pc = "probe"
  /\ IF Present
     THEN /\ host' = Delayed(host, query[w].orig)
          /\ probing' = {w}
     ELSE UNCHANGED <<host, probing>>
  /\ Send(w, query[w].orig)

\* The query is over; what is new in the entry is the caller's.
Finish(w) ==
  /\ query' = [query EXCEPT ![w] = Idle]
  /\ UNCHANGED <<phase, infra_keep_probing>>

\* infra_rtt_update, with a roundtrip time,
Answer(w, ms) ==
  LET h == FindOrNew
      i == IF rtt_unclamped(h) >= USEFUL_SERVER_TOP_TIMEOUT THEN rtt_init(h) ELSE h
      others == {query[v].orig : v \in {v \in Worker \ {w} : query[v].pc = "sent"}}
  IN  /\ query[w].pc = "sent"
      /\ host' = [rtt_update(i, ms) EXCEPT !.probedelay = 0,
                                           !.timeout[query[w].qtype] = 0]
      /\ asked' = Max(others \cup {0})
      /\ probing' = {}
      /\ Finish(w)

\* and with -1 for a timeout.
Timeout(w) ==
  LET orig == query[w].orig
      h == IF Present /\ ~Expired THEN host
           ELSE [data_entry_init EXCEPT
                   !.rto = orig,
                   !.probedelay = IF Present THEN host.probedelay ELSE 0]
  IN  /\ query[w].pc = "sent" /\ query[w].left = 0
      /\ host' = [rtt_lost(h, orig) EXCEPT
                    !.timeout[query[w].qtype] =
                      IF @ < TIMEOUT_COUNT_MAX THEN @ + 1 ELSE @]
      /\ probing' = IF Present THEN probing \ {w} ELSE {}
      /\ UNCHANGED asked
      /\ Finish(w)

\* The updates below are made by others, for queries to the same server.
Others == UNCHANGED <<query, phase, infra_keep_probing, asked>>

ProbingOrNew == probing' = IF ~Present THEN {} ELSE IF Expired THEN {} ELSE probing

\* An answer over TCP to a query that fell back to it.
infra_update_tcp_works ==
  /\ Present /\ host.rto >= RTT_MAX_TIMEOUT
  /\ host' = [host EXCEPT !.rto = still_useful_timeout]
  /\ UNCHANGED probing
  /\ Others

infra_edns_update(version) ==
  LET h == FindOrNew
  IN  /\ host' = IF version = -1 /\ h.edns_version # -1 /\ h.edns_lame_known
                 THEN h
                 ELSE [h EXCEPT !.edns_version = version,
                                !.edns_lame_known = TRUE]
      /\ ProbingOrNew
      /\ Others

infra_set_lame(qtype) ==
  /\ host' = [FindOrNew EXCEPT !.lame = @ \cup {qtype}]
  /\ ProbingOrNew
  /\ Others

\* The cache needs the memory.
Evict ==
  /\ Present
  /\ host' = NoHost
  /\ probing' = {}
  /\ Others

\* Timers are run when they are due, and a worker that is at work with the entry
\* is done with it before the next tick.
Tick ==
  LET wraps == phase + TICK >= SECOND
      Down(n, floor) == IF n > floor THEN n - 1 ELSE n
  IN  /\ \A w \in Worker : \/ query[w].pc = "idle"
                           \/ query[w].pc = "sent" /\ query[w].left > 0
      /\ phase' = IF wraps THEN phase + TICK - SECOND ELSE phase + TICK
      /\ query' = [w \in Worker |->
                     [query[w] EXCEPT !.left = IF @ > 0 THEN @ - 1 ELSE 0]]
      /\ host' = IF Present /\ wraps
                 THEN [host EXCEPT !.ttl = Down(@, -1), !.probedelay = Down(@, 0)]
                 ELSE host
      /\ UNCHANGED <<infra_keep_probing, asked, probing>>

Init ==
  /\ host = NoHost
  /\ query = [w \in Worker |-> Idle]
  /\ phase = 0
  /\ infra_keep_probing \in BOOLEAN
  /\ asked = 0
  /\ probing = {}

Next ==
  \/ \E w \in Worker :
       \/ \E qtype \in QType : Select(w, qtype)
       \/ infra_host(w) \/ HostReuse(w) \/ HostProbe(w)
       \/ \E ms \in Roundtrip : Answer(w, ms)
       \/ Timeout(w)
  \/ infra_update_tcp_works
  \/ \E version \in {-1, 0} : infra_edns_update(version)
  \/ \E qtype \in QType : infra_set_lame(qtype)
  \/ Evict
  \/ Tick

-----------------------------------------------------------------------------

TypeOK ==
  /\ Present =>
       /\ host.rto \in RTT_MIN_TIMEOUT .. RTT_MAX_TIMEOUT
       /\ host.ttl \in -1 .. host_ttl
       /\ host.probedelay \in 0 .. (RTT_MAX_TIMEOUT \div SECOND + 2)
       /\ host.edns_version \in {-1, 0}
       /\ host.lame \subseteq QType
       /\ host.timeout \in [QType -> 0 .. TIMEOUT_COUNT_MAX]
  /\ \A w \in Worker : query[w].pc \in {"idle", "host", "reuse", "probe", "sent"}
  /\ probing \subseteq Worker

\* Queries that time out together do not add up: the timeout of the server is
\* what its roundtrip times give, or at most twice that of a query which was sent
\* since, or was out at, the last answer.
NoBurst == Present => host.rto <= calc_rto(host) \/ host.rto <= 2 * asked

\* While the last probe that this entry allowed is out, a server that answers
\* nothing is not selected for a type of query that had its number of timeouts.
ProbeAlone ==
  \A w \in probing, t \in QType :
    /\ query[w].left > 0 /\ ~Expired
    /\ host.rto >= PROBE_MAXRTO /\ 4 * calc_rto(host) <= host.rto
    /\ host.timeout[t] >= TIMEOUT_COUNT_MAX
    => ~Suitable(t)
=============================================================================
