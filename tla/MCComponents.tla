---------------------------- MODULE MCComponents ----------------------------
(***************************************************************************)
(* The queries to servers (Outgoing) and the smaller components, model-     *)
(* checked in one run.  They do not interact: a behaviour is that of one of *)
(* them, chosen in the initial state, and the variables of the others stay  *)
(* put.                                                                     *)
(***************************************************************************)
EXTENDS Outgoing, Integers, TLC

CONSTANTS
  Worker,
  QType, UNKNOWN_SERVER_NICENESS, RTT_MIN_TIMEOUT, USEFUL_SERVER_TOP_TIMEOUT,
  still_useful_timeout, PROBE_MAXRTO, TIMEOUT_COUNT_MAX, host_ttl, SECOND, TICK,
  Roundtrip,
  RATE_WINDOW, ratelimit, wait_limit, MaxSecond, MaxCount, MaxWait,
  App, MaxQuery, PipeSize

VARIABLES
  component,
  host, query, phase, infra_keep_probing, asked, probing,
  rate, making, allowed, clock, setup, incs, decs, waiting, refused, forgot,
  ctx, queries, app, rrlock, qq_pipe, rr_pipe, bg, given, called, silenced, lost

I == INSTANCE Infra
R == INSTANCE Ratelimit
U == INSTANCE LibUnbound

infravars == <<host, query, phase, infra_keep_probing, asked, probing>>

ratevars ==
  <<rate, making, allowed, clock, setup, incs, decs, waiting, refused, forgot>>

libvars ==
  <<ctx, queries, app, rrlock, qq_pipe, rr_pipe, bg, given, called, silenced, lost>>

InfraOff ==
  /\ host = 0 /\ query = 0 /\ phase = 0 /\ infra_keep_probing = 0
  /\ asked = 0 /\ probing = 0

RatelimitOff ==
  /\ rate = 0 /\ making = 0 /\ allowed = 0 /\ clock = 0 /\ setup = 0
  /\ incs = 0 /\ decs = 0 /\ waiting = 0 /\ refused = 0 /\ forgot = 0

LibUnboundOff ==
  /\ ctx = 0 /\ queries = 0 /\ app = 0 /\ rrlock = 0 /\ qq_pipe = 0
  /\ rr_pipe = 0 /\ bg = 0 /\ given = 0 /\ called = 0 /\ silenced = 0 /\ lost = 0

\* All keys have the address of one server.
Addrs == [k \in Key |-> 1]

ComponentInit ==
  \/ component = "Outgoing" /\ Init /\ InfraOff /\ RatelimitOff /\ LibUnboundOff
  \/ component = "Infra" /\ I!Init /\ net = 0 /\ RatelimitOff /\ LibUnboundOff
  \/ component = "Ratelimit" /\ R!Init /\ net = 0 /\ InfraOff /\ LibUnboundOff
  \/ component = "LibUnbound" /\ U!Init /\ net = 0 /\ InfraOff /\ RatelimitOff

OutgoingNext ==
  component = "Outgoing" /\ Next /\ UNCHANGED <<component, infravars, ratevars, libvars>>

InfraNext ==
  component = "Infra" /\ I!Next /\ UNCHANGED <<component, net, ratevars, libvars>>

RatelimitNext ==
  component = "Ratelimit" /\ R!Next /\ UNCHANGED <<component, net, infravars, libvars>>

LibUnboundNext ==
  component = "LibUnbound" /\ U!Next /\ UNCHANGED <<component, net, infravars, ratevars>>

ComponentNext == OutgoingNext \/ InfraNext \/ RatelimitNext \/ LibUnboundNext

\* The instance gives Worker, App and Entry the same model values, which no
\* behaviour mixes.
ASSUME SameActors == Worker = App /\ App = Entry

Interchangeable == Permutations(Worker)

-----------------------------------------------------------------------------
(* The properties of the components, each for its behaviours.               *)

\* Outgoing: a callback that a module registered is kept until it is called
\* (serviced_callbacks, outnet_serviced_query_stop).
CallbacksKept == component = "Outgoing" => CallbackKept


\* Outgoing: a query waits for a socket or a stream only when there is none
\* (use_free_buffer, outnet_send_wait_udp).
WaitsWhenFull == component = "Outgoing" => WaitOnlyWhenFull

\* Outgoing: an answer on a stream is for the query that has its id
\* (reuse_tcp_select_id).
StreamAnswersMatch == component = "Outgoing" => AnswersMatch


\* Infra: queries that time out together do not add up in the timeout of the
\* server (rtt_lost), and while the last probe of a server that does not answer
\* is out, no other query is sent to it (infra_host).
ServerTimeouts == component = "Infra" => I!TypeOK /\ I!NoBurst /\ I!ProbeAlone

\* Ratelimit: a second's counter has the queries of that second, though the
\* clocks of workers differ (infra_rate_give_second), a query is refused for the
\* rate of its window only (infra_rate_max), replies that are gone are not
\* counted as waiting (infra_wait_limit_dec), and without a dropped counter no
\* more replies wait than the limit and one for each worker.
RatesCounted ==
  component = "Ratelimit" =>
    /\ R!TypeOK /\ R!RateExact /\ R!RefusedRightly
    /\ R!WaitBounded /\ R!WaitLimited

\* LibUnbound: a query is in one place on its way to its callback, which is called
\* once and not after it was cancelled, and the worker uses no query that was
\* freed (process_answer_detail, libworker_bg_done_cb, ub_ctx_delete).
AsyncQueriesKept ==
  component = "LibUnbound" =>
    /\ U!TypeOK /\ U!CountExact /\ U!QueriesLive /\ U!OnItsWay
    /\ U!CalledOnce /\ U!DeletedWhole
=============================================================================
