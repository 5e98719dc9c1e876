----------------------------- MODULE Ratelimit -----------------------------
(***************************************************************************)
(* The counters of queries per second, for a domain or for the address of a *)
(* client, and of the replies that wait for a client (services/cache/       *)
(* infra.c).  There is one counter here, kept by several workers: each has  *)
(* its own idea of the current second, that may lag.  The counter is in a   *)
(* cache; a worker that does not find it makes one in a later step.         *)
(***************************************************************************)
EXTENDS Integers, FiniteSetsExt

CONSTANTS
  Worker,
  RATE_WINDOW,
  ratelimit, wait_limit,
  MaxSecond, MaxCount, MaxWait    \* bounds: of time, of queries in a second, of
                                  \* replies that wait

VARIABLES
  rate,      \* the counter: [slot |-> [1 .. RATE_WINDOW -> [timestamp, qps]], mesh_wait]
  making,    \* for each worker, the counter it is about to insert
  allowed,   \* the workers that may add a reply, from infra_wait_limit_allowed
  clock,     \* for each worker, its current second
  setup,     \* [kind |-> "domain" or "ip", backoff |-> BOOLEAN]
  incs, decs,  \* for each second, the queries that were counted and uncounted
  waiting,   \* for each worker, the number of replies that wait
  refused,   \* the second of the last query, if it was over the limit, or 0
  forgot     \* the cache dropped a counter, or replaced it by a new one

vars == <<rate, making, allowed, clock, setup, incs, decs, waiting, refused, forgot>>

Second == 1 .. MaxSecond

Slot == 1 .. RATE_WINDOW

NoRate == [mesh_wait |-> -1]

NewRate(t, wait) ==
  [slot |-> [i \in Slot |-> IF i = 1 THEN [timestamp |-> t, qps |-> 1]
                            ELSE [timestamp |-> 0, qps |-> 0]],
   mesh_wait |-> wait]

\* A faulty variant of the definition below.
Oldest_last(d) == RATE_WINDOW

Oldest(d) ==
  CHOOSE i \in Slot :
    /\ \A j \in Slot : d.slot[i].timestamp <= d.slot[j].timestamp
    /\ \A j \in 1 .. (i - 1) : d.slot[i].timestamp # d.slot[j].timestamp

HasSecond(d, t) == \E i \in Slot : d.slot[i].timestamp = t

\* The index of second t, and the counter with that second in it.
SlotOf(d, t) == CHOOSE i \in Slot : d.slot[i].timestamp = t

infra_rate_give_second(d, t) ==
  IF HasSecond(d, t) THEN d
  ELSE [d EXCEPT !.slot[Oldest(d)] = [timestamp |-> t, qps |-> 0]]

infra_rate_max(d, now, backoff) ==
  LET seconds == IF backoff
                 THEN {i \in Slot : now - d.slot[i].timestamp <= RATE_WINDOW}
                 ELSE {i \in Slot : now = d.slot[i].timestamp}
  IN  Max({d.slot[i].qps : i \in seconds} \cup {0})

-----------------------------------------------------------------------------

Free(w) == making[w] = NoRate

Total(count) == MapThenSumSet(LAMBDA t : count[t], Second)

AllWaiting == MapThenSumSet(LAMBDA w : waiting[w], Worker)

\* infra_ratelimit_inc and infra_ip_ratelimit_inc: with the counter locked, or
\* the worker goes on to make one.
infra_ratelimit_inc(w) ==
  LET t == clock[w]
      d == infra_rate_give_second(rate, t)
      e == [d EXCEPT !.slot[SlotOf(d, t)].qps = @ + 1]
  IN  /\ Free(w) /\ w \notin allowed
      /\ incs[t] < MaxCount
      /\ IF rate = NoRate
         THEN /\ making' = [making EXCEPT ![w] = NewRate(t, 0)]
              /\ UNCHANGED <<rate, incs, refused>>
         ELSE /\ rate' = e
              /\ incs' = [incs EXCEPT ![t] = @ + 1]
              /\ refused' = IF infra_rate_max(e, t, setup.backoff) > ratelimit
                            THEN t ELSE 0
              /\ UNCHANGED making
      /\ UNCHANGED <<allowed, clock, setup, decs, waiting, forgot>>

\* infra_create_ratedata, infra_ip_create_ratedata: an entry that another worker
\* put in meanwhile is replaced.
infra_create_ratedata(w) ==
  /\ ~Free(w)
  /\ rate' = making[w]
  /\ making' = [making EXCEPT ![w] = NoRate]
  /\ incs' = [incs EXCEPT ![clock[w]] = @ + 1]
  /\ forgot' = (forgot \/ rate # NoRate)
  /\ UNCHANGED <<allowed, clock, setup, decs, waiting, refused>>

\* A query that was counted is found to go elsewhere, or could not be sent.
infra_ratelimit_dec(w) ==
  LET t == clock[w]
  IN  /\ Free(w) /\ setup.kind = "domain"
      /\ Total(decs) < Total(incs) /\ decs[t] < MaxCount
      /\ decs' = [decs EXCEPT ![t] = @ + 1]
      /\ rate' = IF rate = NoRate THEN rate
                 ELSE IF ~HasSecond(rate, t) THEN rate
                 ELSE [rate EXCEPT !.slot[SlotOf(rate, t)].qps =
                         IF @ > 0 THEN @ - 1 ELSE 0]
      /\ UNCHANGED <<making, allowed, clock, setup, incs, waiting, refused, forgot>>

infra_wait_limit_allowed(w) ==
  /\ Free(w) /\ setup.kind = "ip" /\ w \notin allowed
  /\ rate # NoRate => rate.mesh_wait <= wait_limit
  /\ allowed' = allowed \cup {w}
  /\ UNCHANGED <<rate, making, clock, setup, incs, decs, waiting, refused, forgot>>

\* mesh_new_client adds the reply.
infra_wait_limit_inc(w) ==
  /\ Free(w) /\ w \in allowed
  /\ AllWaiting < MaxWait
  /\ rate = NoRate => incs[clock[w]] < MaxCount
  /\ waiting' = [waiting EXCEPT ![w] = @ + 1]
  /\ allowed' = allowed \ {w}
  /\ IF rate = NoRate
     THEN /\ making' = [making EXCEPT ![w] = NewRate(clock[w], 1)]
          /\ UNCHANGED rate
     ELSE /\ rate' = [rate EXCEPT !.mesh_wait = @ + 1]
          /\ UNCHANGED making
  /\ UNCHANGED <<clock, setup, incs, decs, refused, forgot>>

\* A reply that waits is sent, or dropped.
infra_wait_limit_dec(w) ==
  /\ Free(w) /\ waiting[w] > 0
  /\ waiting' = [waiting EXCEPT ![w] = @ - 1]
  /\ rate' = IF rate = NoRate THEN rate
             ELSE [rate EXCEPT !.mesh_wait = IF @ > 0 THEN @ - 1 ELSE 0]
  /\ UNCHANGED <<making, allowed, clock, setup, incs, decs, refused, forgot>>

\* The cache needs the memory.
Forget ==
  /\ rate # NoRate
  /\ rate' = NoRate
  /\ forgot' = TRUE
  /\ UNCHANGED <<making, allowed, clock, setup, incs, decs, waiting, refused>>

\* A worker gets the time when its event loop turns.  That no worker is more than
\* a second behind another is assumed: the code does not enforce it, and a worker
\* that lags more would take the slot of a second that is still counted.
Turn(w) ==
  /\ Free(w) /\ w \notin allowed
  /\ clock[w] < MaxSecond
  /\ \A v \in Worker : clock[v] >= clock[w]
  /\ clock' = [clock EXCEPT ![w] = @ + 1]
  /\ UNCHANGED <<rate, making, allowed, setup, incs, decs, waiting, refused, forgot>>

Init ==
  /\ rate = NoRate
  /\ making = [w \in Worker |-> NoRate]
  /\ allowed = {}
  /\ clock = [w \in Worker |-> 1]
  /\ setup \in [kind : {"domain", "ip"}, backoff : BOOLEAN]
  /\ incs = [t \in Second |-> 0]
  /\ decs = [t \in Second |-> 0]
  /\ waiting = [w \in Worker |-> 0]
  /\ refused = 0
  /\ forgot = FALSE

Next ==
  \/ \E w \in Worker :
       \/ infra_ratelimit_inc(w) \/ infra_create_ratedata(w)
       \/ infra_ratelimit_dec(w)
       \/ infra_wait_limit_allowed(w) \/ infra_wait_limit_inc(w)
       \/ infra_wait_limit_dec(w)
       \/ Turn(w)
  \/ Forget

-----------------------------------------------------------------------------

TypeOK ==
  /\ rate.mesh_wait \in -1 .. (MaxWait)
  /\ rate # NoRate =>
       /\ \A i \in Slot : rate.slot[i] \in [timestamp : 0 .. MaxSecond, qps : Nat]
       /\ \A i, j \in Slot :
            i # j /\ rate.slot[i].timestamp = rate.slot[j].timestamp =>
              rate.slot[i].timestamp = 0

\* The counter of a second has no more than the queries of that second, and,
\* as long as no counter was dropped, at least those that were not uncounted,
\* for every second that is the current one of a worker.
RateExact ==
  rate # NoRate =>
    /\ \A i \in Slot : LET t == rate.slot[i].timestamp
                       IN  t # 0 => rate.slot[i].qps <= incs[t]
    /\ ~forgot =>
         \A w \in Worker : LET t == clock[w] IN
           incs[t] > decs[t] =>
             /\ HasSecond(rate, t)
             /\ rate.slot[SlotOf(rate, t)].qps >= incs[t] - decs[t]

\* A query is refused when more than the limit were counted in its second, or,
\* with backoff, in one of the window.
RefusedRightly ==
  LET window == IF setup.backoff THEN (refused - RATE_WINDOW) .. (refused + 1)
                ELSE {refused}
  IN  refused # 0 => \E t \in window \cap Second : incs[t] > ratelimit

\* The count of waiting replies is never more than there are: a client that
\* waits for nothing is never refused.
WaitBounded == rate # NoRate => rate.mesh_wait <= AllWaiting

\* Every worker may have looked before another added its reply, no more: this
\* limits the count, and the replies that wait as long as no counter is dropped.
\* Replies from before a counter was dropped are not counted any more.
WaitLimited ==
  LET limit == wait_limit + Cardinality(Worker)
  IN  /\ rate # NoRate => rate.mesh_wait <= limit
      /\ ~forgot => AllWaiting <= limit
=============================================================================
