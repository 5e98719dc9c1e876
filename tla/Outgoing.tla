------------------------------ MODULE Outgoing ------------------------------
(***************************************************************************)
(* The queries that a worker sends to other servers                        *)
(* (services/outside_network.c).  A serviced query is one question to one  *)
(* address; the modules of several mesh states may wait for it, each with  *)
(* a callback.  It goes over UDP, from a limited number of sockets, or     *)
(* over a limited number of TCP streams, which are shared and used again.  *)
(*                                                                         *)
(* One worker handles one event at a time, but the handlers call the mesh  *)
(* back, and the mesh then stops queries and makes new ones: the handlers  *)
(* are entered again while others are in progress.  So the C stack is part *)
(* of the state.  A frame of net.stack is what is still to be done of a    *)
(* function; a step takes the frame on top, up to the next call back.      *)
(***************************************************************************)
EXTENDS Naturals, Sequences, FiniteSets, SequencesExt

CONSTANTS
  Key,          \* what identifies a serviced query: question and address
  AddrOf,       \* the address of each key
  TcpKey,       \* the keys with tcp_upstream or ssl_upstream
  Entry,        \* outbound entries: the callbacks that modules register
  Port,         \* UDP sockets
  Pending,      \* memory for struct pending,
  Stream,       \* struct pending_tcp
  Waiting,      \* and for struct waiting_tcp
  Id,           \* ids of queries on a stream
  None,
  max_reuse_tcp_queries, tcp_reuse_max, OUTBOUND_UDP_RETRY,
  delayclose,   \* ports stay open for a while after a timeout
  Faults        \* sockets, sends and connects may fail

ASSUME OutgoingAssumption ==
  /\ TcpKey \subseteq Key
  /\ DOMAIN AddrOf = Key
  /\ max_reuse_tcp_queries \in 1 .. Cardinality(Id)
  /\ tcp_reuse_max \in Nat
  /\ OUTBOUND_UDP_RETRY \in Nat
  /\ {delayclose, Faults} \subseteq BOOLEAN

VARIABLE net

vars == net

\* A query that calls back may still exist when the mesh makes the same again.
Sq == Key \X {0, 1}

UdpStatus == {"UDP_EDNS", "UDP", "UDP_EDNS_FRAG", "UDP_EDNS_fallback"}

Status == {"initial", "TCP_EDNS", "TCP", "TCP_EDNS_fallback"} \cup UdpStatus

-----------------------------------------------------------------------------
(* Objects.  Memory that is not in use has these values. *)

NoServiced ==
  [alive |-> FALSE, tree |-> FALSE, status |-> "initial", retry |-> 0,
   cblist |-> <<>>, pending |-> None, busy |-> FALSE,
   to_be_deleted |-> FALSE, timer |-> FALSE]

\* cb is the serviced query that is called back, or None when cb is NULL.
NoPending == [alive |-> FALSE, cb |-> None, pc |-> None]

NoWaiting ==
  [alive |-> FALSE, key |-> None, id |-> None, cb |-> None, stream |-> None,
   on_tcp_waiting_list |-> FALSE, write_wait_queued |-> FALSE,
   timer |-> FALSE, error_count |-> 0, in_cb_and_decommission |-> FALSE]

\* tree is whether it is in the tree of streams to reuse; wire has the queries
\* that the server has been sent and has not answered.
NoStream ==
  [tree |-> FALSE, addr |-> None, query |-> None, tree_by_id |-> {},
   write_wait |-> <<>>, wire |-> {}]

Frame(op, x) == [op |-> op, x |-> x]

Call(N, f) == [N EXCEPT !.stack = <<f>> \o @]

Return(N) == [N EXCEPT !.stack = Tail(@)]

Drop(s, x) == SelectSeq(s, LAMBDA y : y # x)

-----------------------------------------------------------------------------
(* Serviced queries and their callbacks. *)

lookup_serviced(N, k) == {q \in Sq : q[1] = k /\ N.sq[q].tree}

\* The deletion from the tree compares keys.
rbtree_delete(N, q) ==
  [N EXCEPT !.sq = [r \in Sq |-> IF r[1] = q[1] THEN [@[r] EXCEPT !.tree = FALSE]
                                 ELSE @[r]]]

serviced_node_del(N, q) == [N EXCEPT !.sq[q] = NoServiced]

-----------------------------------------------------------------------------
(* UDP. *)

portcomm_loweruse(N, c) ==
  [N EXCEPT !.num_outstanding[c] = @ - 1,
            !.unused_fds = IF N.num_outstanding[c] = 1 THEN @ \cup {c} ELSE @]

pending_delete(N, p) ==
  [N EXCEPT !.udp[p] = NoPending, !.udp_wait = Drop(@, p)]

\* randomize_and_send_udp: c is the port, None if it fails. A port is an unused
\* one, or one that is open already.
PortChoice == Port \cup IF Faults THEN {None} ELSE {}

randomize_and_send_udp(N, p, c) ==
  [N EXCEPT !.udp[p].pc = c,
            !.num_outstanding[c] = @ + 1,
            !.unused_fds = @ \ {c}]

\* sq->pending is the result, None on failure: no memory, or no way to send.
pending_udp_query(N, q, c) ==
  LET p == CHOOSE p \in Pending : ~N.udp[p].alive
      M == [N EXCEPT !.udp[p] = [alive |-> TRUE, cb |-> q, pc |-> None],
                     !.sq[q].pending = p]
  IN  IF \A x \in Pending : N.udp[x].alive THEN N
      ELSE IF N.unused_fds = {} THEN [M EXCEPT !.udp_wait = Append(@, p)]
      ELSE IF c = None THEN [N EXCEPT !.sq[q].busy = TRUE]
      ELSE randomize_and_send_udp(M, p, c)

-----------------------------------------------------------------------------
(* TCP streams. *)

InUse(N) == {s \in Stream : N.strm[s].tree}

reuse_tcp_insert(N, s) ==
  IF s \in Range(N.lru) THEN N
  ELSE [N EXCEPT !.strm[s].tree = TRUE, !.lru = <<s>> \o @]

reuse_tcp_lru_touch(N, s) == [N EXCEPT !.lru = <<s>> \o Drop(@, s)]

reuse_tcp_remove_tree_list(N, s) ==
  [N EXCEPT !.strm[s].tree = FALSE, !.lru = Drop(@, s)]

\* reuse_tcp_find: the streams that may be first in the tree.
reuse_tcp_find(N, addr) ==
  {s \in InUse(N) :
     /\ N.strm[s].addr = addr
     /\ Cardinality(N.strm[s].tree_by_id) < max_reuse_tcp_queries}

\* tcp_select_id: an id that is not on the stream, s = None for a new one.
tcp_select_id(N, s) ==
  IF s = None THEN Id
  ELSE Id \ {N.wtcp[w].id : w \in N.strm[s].tree_by_id}

reuse_tree_by_id_delete(N, s, w) == [N EXCEPT !.strm[s].tree_by_id = @ \ {w}]

reuse_write_wait_remove(N, s, w) ==
  [N EXCEPT !.strm[s].write_wait = Drop(@, w),
            !.wtcp[w].write_wait_queued = FALSE]

outnet_waiting_tcp_list_remove(N, w) ==
  [N EXCEPT !.tcp_wait = Drop(@, w), !.wtcp[w].on_tcp_waiting_list = FALSE]

\* outnet_waiting_tcp_list_add, with the timer set.
outnet_waiting_tcp_list_add(N, w) ==
  [N EXCEPT !.tcp_wait = Append(@, w),
            !.wtcp[w] = [@ EXCEPT !.on_tcp_waiting_list = TRUE,
                                  !.stream = None, !.timer = TRUE]]

waiting_tcp_delete(N, w) == [N EXCEPT !.wtcp[w] = NoWaiting]

\* A query goes on a stream that is open, to be written now or later.
PutOnStream(N, w, s, id) ==
  LET M == [reuse_tcp_lru_touch(N, s) EXCEPT
              !.strm[s].tree_by_id = @ \cup {w},
              !.wtcp[w].stream = s, !.wtcp[w].id = id]
  IN  IF N.strm[s].query = None
      THEN [M EXCEPT !.strm[s].query = w, !.wtcp[w].timer = TRUE]
      ELSE [M EXCEPT !.strm[s].write_wait = Append(@, w),
                     !.wtcp[w].write_wait_queued = TRUE,
                     !.wtcp[w].timer = FALSE]

\* outnet_tcp_take_into_use, when it succeeds.
outnet_tcp_take_into_use(N, w, id) ==
  LET s == Head(N.tcp_free)
      M == [N EXCEPT
              !.tcp_free = Tail(@),
              !.strm[s] = [NoStream EXCEPT !.addr = AddrOf[N.wtcp[w].key],
                                           !.query = w, !.tree_by_id = {w}],
              !.wtcp[w].stream = s, !.wtcp[w].id = id, !.wtcp[w].timer = TRUE]
  IN  reuse_tcp_insert(M, s)

decommission_pending_tcp(N, s) ==
  LET M == IF N.strm[s].tree THEN reuse_tcp_remove_tree_list(N, s) ELSE N
      f == N.tcp_free
  IN  [M EXCEPT !.strm[s] = NoStream,
                !.tcp_free = IF f # <<>> /\ Head(f) = s THEN f ELSE <<s>> \o f]


\* mark_for_cb_and_decommission, for the queries that were on the stream.
mark_for_cb_and_decommission(N, store) ==
  LET called == {N.wtcp[w].cb : w \in store}
  IN  [N EXCEPT
         !.wtcp = [w \in Waiting |->
                     IF w \in store
                     THEN [@[w] EXCEPT !.in_cb_and_decommission = TRUE]
                     ELSE @[w]],
         !.sq = [q \in Sq |-> IF q \in called
                              THEN [@[q] EXCEPT !.to_be_deleted = TRUE]
                              ELSE @[q]]]

\* The frame has the queries still to be called, in the order of their ids,
\* and all of them, which are deleted at the end.
reuse_cb_and_decommission(N, s) ==
  LET store == N.strm[s].tree_by_id
      order == SetToSortSeq(store, LAMBDA v, w : N.wtcp[v].id < N.wtcp[w].id)
  IN  Call(mark_for_cb_and_decommission(decommission_pending_tcp(N, s), store),
           Frame("reuse_cb_readwait", <<order, store>>))

\* A faulty variant of the definition below.
CloseStream_idle(N, s) == reuse_cb_and_decommission(N, s)

\* With the use_free_buffer that follows it.
CloseStream(N, s) ==
  reuse_cb_and_decommission(Call(N, Frame("use_free_buffer", None)), s)


\* The first query of those that wait to be written on the stream.
WriteNext(N, s) ==
  LET wait == N.strm[s].write_wait
      w    == Head(wait)
  IN  IF wait = <<>> THEN [N EXCEPT !.strm[s].query = None]
      ELSE [N EXCEPT !.strm[s].query = w, !.strm[s].write_wait = Tail(@),
                     !.wtcp[w].write_wait_queued = FALSE,
                     !.wtcp[w].timer = TRUE]

-----------------------------------------------------------------------------
(* Calls of serviced_udp_callback and serviced_tcp_callback, which begin by  *)
(* setting sq->pending to NULL.                                              *)

pending_udp_callback(N, p, err) ==
  LET q == N.udp[p].cb
  IN  IF q = None THEN N
      ELSE Call([N EXCEPT !.udp[p].cb = None, !.sq[q].pending = None],
                Frame("serviced_udp_callback", <<q, err>>))

waiting_tcp_callback(N, w, err) ==
  LET q == N.wtcp[w].cb
  IN  IF q = None THEN N
      ELSE Call([N EXCEPT !.wtcp[w].cb = None, !.sq[q].pending = None],
                Frame("serviced_tcp_callback", <<q, err>>))

-----------------------------------------------------------------------------
(* The end of a serviced query. *)

\* A faulty variant of the definition below.
RemoveFromStream_free(N, q, w) ==
  LET s == N.wtcp[w].stream
  IN  IF N.strm[s].tree
      THEN serviced_node_del(
             waiting_tcp_delete(
               IF N.strm[s].query = w THEN WriteNext(reuse_tree_by_id_delete(N, s, w), s)
               ELSE reuse_tree_by_id_delete(N, s, w), w), q)
      ELSE serviced_node_del([N EXCEPT !.wtcp[w].cb = None], q)

\* Of a query that is written, or being written: it stays on its stream without
\* its callback, so that its id is not used for another.
RemoveFromStream(N, q, w) ==
  LET s == N.wtcp[w].stream
      M == [N EXCEPT !.wtcp[w].cb = None]
      C == Call(M, Frame("serviced_node_del", q))
  IN  IF N.strm[s].tree THEN serviced_node_del(M, q)
      ELSE IF N.strm[s].addr # None /\ Cardinality(InUse(N)) < tcp_reuse_max
      THEN serviced_node_del(reuse_tcp_insert(M, s), q)
      ELSE IF N.wtcp[w].in_cb_and_decommission
      THEN Call(C, Frame("use_free_buffer", None))
      ELSE CloseStream(C, s)

\* Unless its stream is about to be given up, with its queries.
Forget(N, w) ==
  IF N.wtcp[w].in_cb_and_decommission THEN N ELSE waiting_tcp_delete(N, w)

serviced_delete(N, q) ==
  LET x == N.sq[q].pending
  IN  IF x = None THEN serviced_node_del(N, q)
      ELSE IF N.sq[q].status \in UdpStatus
      THEN LET c == N.udp[x].pc
               M == pending_delete(
                      IF c = None THEN N ELSE portcomm_loweruse(N, c), x)
           IN  Call(Call([M EXCEPT !.sq[q].pending = None],
                         Frame("serviced_node_del", q)),
                    Frame("outnet_send_wait_udp", None))
      ELSE IF N.wtcp[x].write_wait_queued
      THEN LET s == N.wtcp[x].stream
               M == IF N.wtcp[x].in_cb_and_decommission THEN N
                    ELSE reuse_tree_by_id_delete(N, s, x)
           IN  serviced_node_del(Forget(reuse_write_wait_remove(M, s, x), x), q)
      ELSE IF N.wtcp[x].on_tcp_waiting_list
      THEN serviced_node_del(
             Forget(outnet_waiting_tcp_list_remove(N, x), x), q)
      ELSE RemoveFromStream([N EXCEPT !.sq[q].pending = None], q, x)

\* The callbacks, one by one: the mesh is at work, and when it returns there is
\* the next; after the last the query is deleted.
NextCallback(N, q) ==
  LET e == Head(N.sq[q].cblist)
  IN  IF N.sq[q].cblist = <<>> THEN serviced_delete(N, q)
      ELSE Call([N EXCEPT !.sq[q].cblist = Tail(@), !.qsent[e] = None],
                Frame("mesh", q))

serviced_callbacks(N, q) ==
  NextCallback([rbtree_delete(N, q) EXCEPT !.sq[q].to_be_deleted = TRUE], q)

\* With what its callers do on failure.
serviced_udp_send(N, q, status, c) ==
  LET M == pending_udp_query([N EXCEPT !.sq[q].status = status], q, c)
  IN  IF M.sq[q].pending = None THEN serviced_callbacks(M, q) ELSE M

-----------------------------------------------------------------------------
(* Sending over TCP. *)

Succeeds == IF Faults THEN BOOLEAN ELSE {TRUE}

\* What is chosen for a query: a stream to reuse if there is one, an id, and
\* whether the memory and the connection are to be had.
TcpChoice(N, k) ==
  LET found == reuse_tcp_find(N, AddrOf[k])
      s     == IF found = {} THEN {None} ELSE found
  IN  {c \in [s : s, id : Id, ok : Succeeds] : c.id \in tcp_select_id(N, c.s)}

\* The rest of pending_tcp_query, and what serviced_tcp_send and
\* serviced_tcp_initiate do when it fails.
StoreTcpQuery(N, q, c) ==
  LET free == {w \in Waiting : ~N.wtcp[w].alive}
      w    == CHOOSE w \in free : TRUE
      I    == [N EXCEPT !.sq[q].busy = FALSE]
      M    == [I EXCEPT !.wtcp[w] = [NoWaiting EXCEPT !.alive = TRUE, !.id = c.id,
                                                      !.key = q[1], !.cb = q],
                        !.sq[q].pending = w]
  IN  IF free = {} \/ ~c.ok THEN serviced_callbacks(I, q)
      ELSE IF c.s # None THEN PutOnStream(M, w, c.s, c.id)
      ELSE IF N.tcp_free # <<>> THEN outnet_tcp_take_into_use(M, w, c.id)
      ELSE outnet_waiting_tcp_list_add(M, w)

\* If there is no stream to reuse and none is free, the oldest is closed.
pending_tcp_query(N, q, c) ==
  IF c.s # None \/ N.tcp_free # <<>> \/ N.lru = <<>> THEN StoreTcpQuery(N, q, c)
  ELSE reuse_cb_and_decommission(
         Call([N EXCEPT !.sq[q].busy = TRUE], Frame("pending_tcp_query", q)),
         Last(N.lru))

\* serviced_tcp_send and serviced_tcp_initiate
SendTcp(N, q, status, c) ==
  pending_tcp_query([N EXCEPT !.sq[q].status = status], q, c)

-----------------------------------------------------------------------------
(* Calls from the mesh: while it handles an event, or inside a callback.     *)

InMesh == net.stack # <<>> => Head(net.stack).op = "mesh"

outnet_serviced_query(e, k) ==
  LET new == CHOOSE q \in {k} \X {0, 1} : ~net.sq[q].alive
      q   == IF lookup_serviced(net, k) = {} THEN new
             ELSE CHOOSE r \in lookup_serviced(net, k) : TRUE
      S   == IF lookup_serviced(net, k) # {} THEN net.sq[q]
             ELSE [NoServiced EXCEPT !.alive = TRUE, !.tree = TRUE,
                                     !.timer = TRUE]
  IN  /\ InMesh
      /\ net.qsent[e] = None
      /\ net' = [net EXCEPT !.qsent[e] = q,
                            !.sq[q] = [S EXCEPT !.cblist = <<e>> \o @]]

\* A faulty variant of the definition below.
outnet_serviced_query_stop_shared(e) ==
  LET q == net.qsent[e]
      N == [net EXCEPT !.qsent[e] = None, !.sq[q].cblist = Drop(@, e)]
  IN  /\ InMesh
      /\ q # None
      /\ net' = IF ~N.sq[q].busy /\ ~N.sq[q].to_be_deleted
                THEN serviced_delete(rbtree_delete(N, q), q)
                ELSE N

outnet_serviced_query_stop(e) ==
  LET q == net.qsent[e]
      N == [net EXCEPT !.qsent[e] = None, !.sq[q].cblist = Drop(@, e)]
  IN  /\ InMesh
      /\ q # None
      /\ net' = IF /\ N.sq[q].cblist = <<>>
                   /\ ~N.sq[q].busy /\ ~N.sq[q].to_be_deleted
                THEN serviced_delete(rbtree_delete(N, q), q)
                ELSE N

-----------------------------------------------------------------------------
(* Frames. *)

At(op) == net.stack # <<>> /\ Head(net.stack).op = op

Arg == Head(net.stack).x

MeshReturns ==
  /\ At("mesh")
  /\ net' = NextCallback(Return(net), Arg)

NodeDel ==
  /\ At("serviced_node_del")
  /\ net' = serviced_node_del(Return(net), Arg)

\* reuse_cb_readwait_for_failure calls the queries of a closed stream one by
\* one, and reuse_del_readwait deletes them.
ReadwaitNext ==
  /\ At("reuse_cb_readwait")
  /\ Arg[1] # <<>>
  /\ net' = waiting_tcp_callback([net EXCEPT !.stack[1].x[1] = Tail(@)],
                                 Head(Arg[1]), "error")

ReadwaitEnd ==
  /\ At("reuse_cb_readwait")
  /\ Arg[1] = <<>>
  /\ net' = [Return(net) EXCEPT
               !.wtcp = [w \in Waiting |->
                           IF w \in Arg[2] THEN NoWaiting ELSE @[w]]]

\* A query that was stored after the oldest stream was closed for it.
TcpQueryStored ==
  /\ At("pending_tcp_query")
  /\ \E c \in [s : {None}, id : Id, ok : Succeeds] :
       net' = StoreTcpQuery(Return(net), Arg, c)

\* One query of the waiting list, if there is a stream for it.
use_free_buffer ==
  LET w == Head(net.tcp_wait)
      N == outnet_waiting_tcp_list_remove(net, w)
  IN  /\ At("use_free_buffer")
      /\ net.tcp_wait # <<>>
      /\ \E c \in TcpChoice(N, net.wtcp[w].key) :
           /\ c.s # None \/ net.tcp_free # <<>>
           /\ net' = IF c.s # None THEN PutOnStream(N, w, c.s, c.id)
                     ELSE IF c.ok THEN outnet_tcp_take_into_use(N, w, c.id)
                     ELSE waiting_tcp_callback(
                            Call(N, Frame("waiting_tcp_delete", w)), w, "error")

FreeBufferUsed ==
  /\ At("use_free_buffer")
  /\ net.tcp_wait # <<>> =>
       /\ net.tcp_free = <<>>
       /\ reuse_tcp_find(net, AddrOf[net.wtcp[Head(net.tcp_wait)].key]) = {}
  /\ net' = Return(net)

WaitingDelete ==
  /\ At("waiting_tcp_delete")
  /\ net' = waiting_tcp_delete(Return(net), Arg)

\* One query of the list that waits for UDP sockets.
outnet_send_wait_udp ==
  LET p == Head(net.udp_wait)
      q == net.udp[p].cb
      N == [net EXCEPT !.udp_wait = Tail(@)]
  IN  /\ At("outnet_send_wait_udp")
      /\ net.udp_wait # <<>> /\ net.unused_fds # {}
      /\ \E c \in PortChoice :
           net' = IF c # None THEN randomize_and_send_udp(N, p, c)
                  ELSE pending_udp_callback(
                         Call([N EXCEPT !.sq[q].busy = TRUE],
                              Frame("pending_delete", p)), p, "closed")

SendWaitEnds ==
  /\ At("outnet_send_wait_udp")
  /\ net.udp_wait = <<>> \/ net.unused_fds = {}
  /\ net' = Return(net)

PendingDelete ==
  /\ At("pending_delete")
  /\ net' = pending_delete(Return(net), Arg)

\* The end of outnet_udp_cb and of the timer handlers.
PortDone(N, p) ==
  Call(pending_delete(portcomm_loweruse(N, N.udp[p].pc), p),
       Frame("outnet_send_wait_udp", None))

UdpDone ==
  /\ At("udp_done")
  /\ net' = PortDone(Return(net), Arg)

TimeoutDone ==
  /\ At("timeout_done")
  /\ net' = IF delayclose /\ net.udp_wait = <<>> THEN Return(net)
            ELSE PortDone(Return(net), Arg)

\* After a fallback from EDNS the answer may turn the status to UDP.
TcpFor(status) ==
  CASE status = "UDP" -> {"TCP"}
    [] status = "UDP_EDNS_fallback" -> {"TCP", "TCP_EDNS"}
    [] OTHER -> {"TCP_EDNS"}

\* serviced_udp_callback, for an error, a timeout or an answer: one that the
\* server did not understand EDNS, that is truncated, or that is an answer.
serviced_udp_callback ==
  LET q   == Arg[1]
      err == Arg[2]
      st  == net.sq[q].status
      N   == Return(net)
      R   == [N EXCEPT !.sq[q].retry = @ + 1]
      edns == IF st = "UDP_EDNS_FRAG" THEN "UDP_EDNS" ELSE st
  IN  /\ At("serviced_udp_callback")
      /\ \/ /\ err = "timeout"
            /\ \E c \in PortChoice :
                 \/ st = "UDP_EDNS"                  \* "try edns1xx2"
                    /\ net' = serviced_udp_send(N, q, "UDP_EDNS_FRAG", c)
                 \/ net' = IF R.sq[q].retry < OUTBOUND_UDP_RETRY
                           THEN serviced_udp_send(R, q, edns, c)
                           ELSE serviced_callbacks(R, q)
         \/ /\ err = "formerr" /\ st \in {"UDP_EDNS", "UDP_EDNS_FRAG"}
            /\ \E c \in PortChoice :
                 net' = serviced_udp_send([N EXCEPT !.sq[q].retry = 0], q,
                                          "UDP_EDNS_fallback", c)
         \/ /\ err = "tc"
            /\ \E c \in TcpChoice(N, q[1]), tcp \in TcpFor(st) :
                 net' = SendTcp(N, q, tcp, c)
         \/ /\ \/ err \in {"closed", "ok"}
               \/ err = "formerr" /\ st \notin {"UDP_EDNS", "UDP_EDNS_FRAG"}
            /\ net' = serviced_callbacks(N, q)

serviced_tcp_callback ==
  LET q == Arg[1]
      N == Return(net)
      fallback == Arg[2] = "formerr" /\ net.sq[q].status = "TCP_EDNS"
  IN  /\ At("serviced_tcp_callback")
      /\ \E c \in TcpChoice(N, q[1]) :
           net' = IF fallback THEN SendTcp(N, q, "TCP_EDNS_fallback", c)
                  ELSE serviced_callbacks(N, q)

\* The end of outnet_tcp_cb after a reply: the stream is kept if it is in the
\* tree.
TcpReplyDone ==
  LET N == waiting_tcp_delete(Return(net), Arg[2])
  IN  /\ At("tcp_reply_done")
      /\ net' = IF N.strm[Arg[1]].tree THEN N ELSE CloseStream(N, Arg[1])

-----------------------------------------------------------------------------
(* Events. *)

Idle == net.stack = <<>>

\* The first network action of a query; edns is what the infra cache knows.
serviced_timer_cb(q) ==
  LET N == [net EXCEPT !.sq[q].timer = FALSE]
  IN  /\ Idle /\ net.sq[q].timer
      /\ IF q[1] \in TcpKey
         THEN \E c \in TcpChoice(N, q[1]), st \in {"TCP_EDNS", "TCP"} :
                net' = IF N.sq[q].cblist = <<>> THEN serviced_callbacks(N, q)
                       ELSE SendTcp(N, q, st, c)
         ELSE \E c \in PortChoice, st \in {"UDP_EDNS", "UDP"} :
                net' = IF N.sq[q].cblist = <<>> THEN serviced_callbacks(N, q)
                       ELSE serviced_udp_send(N, q, st, c)

Sent(p) == net.udp[p].alive /\ net.udp[p].pc # None

\* A reply to a pending query; if its port was only kept open, there is no
\* callback any more.
outnet_udp_cb(p, kind) ==
  /\ Idle /\ Sent(p)
  /\ net' = pending_udp_callback(Call(net, Frame("udp_done", p)), p, kind)

pending_udp_timer_cb(p) ==
  /\ Idle /\ Sent(p) /\ net.udp[p].cb # None
  /\ net' = pending_udp_callback(Call(net, Frame("timeout_done", p)), p, "timeout")

pending_udp_timer_delay_cb(p) ==
  /\ Idle /\ Sent(p) /\ net.udp[p].cb = None
  /\ net' = PortDone(net, p)

outnet_tcptimer(w) ==
  LET N == [net EXCEPT !.wtcp[w].timer = FALSE]
      M == Call(Call(outnet_waiting_tcp_list_remove(N, w),
                     Frame("use_free_buffer", None)),
                Frame("waiting_tcp_delete", w))
  IN  /\ Idle /\ net.wtcp[w].timer
      /\ net' = IF net.wtcp[w].on_tcp_waiting_list
                THEN waiting_tcp_callback(M, w, "error")
                ELSE CloseStream(N, net.wtcp[w].stream)

\* outnet_tcp_cb, with NETEVENT_PKT_WRITTEN,
TcpWritten(s) ==
  LET w == net.strm[s].query
      r == [id |-> net.wtcp[w].id, key |-> net.wtcp[w].key]
  IN  /\ Idle /\ w # None
      /\ net' = WriteNext([net EXCEPT !.strm[s].wire = @ \cup {r}], s)

\* with NETEVENT_TIMEOUT, which is ignored while something is written,
TcpTimeout(s) ==
  /\ Idle /\ net.strm[s].tree /\ net.strm[s].query = None
  /\ net' = CloseStream(reuse_tcp_remove_tree_list(net, s), s)

\* What was not written goes to another stream, the query that was being
\* written only once.
MoveAway(N, s, w) ==
  outnet_waiting_tcp_list_add(
    reuse_tree_by_id_delete(
      [N EXCEPT !.wtcp[w].write_wait_queued = FALSE], s, w), w)

reuse_move_writewait_away(N, s) ==
  LET w == N.strm[s].query
      moves == w # None /\ N.wtcp[w].error_count = 0
      M == IF moves
           THEN MoveAway([N EXCEPT !.strm[s].query = None,
                                   !.wtcp[w].error_count = @ + 1], s, w)
           ELSE N
  IN  [FoldLeft(LAMBDA x, v : MoveAway(x, s, v), M, N.strm[s].write_wait)
         EXCEPT !.strm[s].write_wait = <<>>]

\* with an error,
TcpError(s) ==
  /\ Idle /\ net.strm[s].tree
  /\ net' = CloseStream(reuse_move_writewait_away(net, s), s)

\* An assumption on servers, that the handler does not check: the ids of replies
\* are those of queries that were sent and not answered before, each once, or are
\* unknown to the stream, or of queries that still wait to be written.  So no reply
\* comes to the query that is being written.  The id 0 is that of a packet without
\* one.
ServerReplies(s) ==
  {r.id : r \in net.strm[s].wire}
  \cup {id \in Id \cup {0} : \A w \in net.strm[s].tree_by_id :
                               net.wtcp[w].id = id => net.wtcp[w].write_wait_queued}

\* with a reply: of a query on the stream that does not wait to be written, or the
\* stream is closed.
TcpReply(s, id, kind) ==
  LET found == {w \in net.strm[s].tree_by_id :
                  net.wtcp[w].id = id /\ ~net.wtcp[w].write_wait_queued}
      w == CHOOSE v \in found : TRUE
      N == [net EXCEPT !.strm[s].wire = {r \in @ : r.id # id}]
      M == IF Cardinality(InUse(N)) < tcp_reuse_max THEN reuse_tcp_insert(N, s) ELSE N
  IN  /\ Idle /\ net.strm[s].tree
      /\ id \in ServerReplies(s)
      /\ net' = IF found = {} THEN CloseStream(net, s)
                ELSE waiting_tcp_callback(
                       Call(reuse_tree_by_id_delete(M, s, w),
                            Frame("tcp_reply_done", <<s, w>>)), w, kind)

Init ==
  net = [sq |-> [q \in Sq |-> NoServiced],
         qsent |-> [e \in Entry |-> None],
         udp |-> [p \in Pending |-> NoPending], udp_wait |-> <<>>,
         num_outstanding |-> [c \in Port |-> 0], unused_fds |-> Port,
         strm |-> [s \in Stream |-> NoStream],
         wtcp |-> [w \in Waiting |-> NoWaiting],
         tcp_free |-> SetToSeq(Stream), lru |-> <<>>, tcp_wait |-> <<>>,
         stack |-> <<>>]

Mesh ==
  \/ \E e \in Entry, k \in Key : outnet_serviced_query(e, k)
  \/ \E e \in Entry : outnet_serviced_query_stop(e)

Resume ==
  \/ MeshReturns \/ NodeDel
  \/ ReadwaitNext \/ ReadwaitEnd \/ TcpQueryStored
  \/ use_free_buffer \/ FreeBufferUsed \/ WaitingDelete
  \/ outnet_send_wait_udp \/ SendWaitEnds \/ PendingDelete
  \/ UdpDone \/ TimeoutDone \/ TcpReplyDone
  \/ serviced_udp_callback \/ serviced_tcp_callback

Timers ==
  \/ \E q \in Sq : serviced_timer_cb(q)
  \/ \E p \in Pending : pending_udp_timer_cb(p) \/ pending_udp_timer_delay_cb(p)
  \/ \E w \in Waiting : outnet_tcptimer(w)
  \/ \E s \in Stream : TcpTimeout(s)

Network ==
  \/ \E p \in Pending, kind \in {"ok", "formerr", "tc"} : outnet_udp_cb(p, kind)
  \/ \E s \in Stream :
       \/ TcpWritten(s) \/ TcpError(s)
       \/ \E id \in Id \cup {0}, kind \in {"ok", "formerr"} : TcpReply(s, id, kind)

Next == Mesh \/ Resume \/ Timers \/ Network

Spec == Init /\ [][Next]_vars

-----------------------------------------------------------------------------
(* Properties. *)

\* The fields of struct outside_network and of what it owns have their types,
\* and the kind of sq->pending is the one that sq->status says.
TypeOK ==
  /\ \A q \in Sq :
       LET S == net.sq[q]
       IN  /\ S.status \in Status
           /\ S.retry \in 0 .. OUTBOUND_UDP_RETRY
           /\ S.cblist \in Seq(Entry)
           /\ S.pending = None \/ (IF S.status \in UdpStatus
                                   THEN S.pending \in Pending
                                   ELSE S.pending \in Waiting)
  /\ net.num_outstanding \in [Port -> 0 .. Cardinality(Pending)]
  /\ \A w \in Waiting : net.wtcp[w].error_count \in 0 .. 1
  /\ net.tcp_wait \in Seq(Waiting) /\ net.udp_wait \in Seq(Pending)

\* A module that registered a callback has it called, unless it takes it off:
\* until then it is in the list of a query that exists, and between events that
\* query is the one that lookup_serviced finds, although two of the same key may
\* exist during the callbacks (serviced_callbacks, "should have been present").
CallbackKept ==
  \A e \in Entry : net.qsent[e] # None =>
    LET q == net.qsent[e]
    IN  /\ net.sq[q].alive
        /\ e \in Range(net.sq[q].cblist)
        /\ Idle => net.sq[q].tree

\* What the handlers still have to do.
Frames == Range(net.stack)

\* Nothing refers to memory that was freed: not the lists and trees, not the
\* callback arguments, and not the frames of handlers that are in progress
\* while the mesh stops queries and starts others.  That the query being written
\* is one of the stream rests on ServerReplies: outnet_tcp_cb frees the query that
\* a reply is for, and does not look whether pend->query is that one.
NoDangling ==
  /\ TypeOK
  /\ \A q \in Sq : net.sq[q].pending # None =>
       IF net.sq[q].status \in UdpStatus THEN net.udp[net.sq[q].pending].cb = q
       ELSE net.wtcp[net.sq[q].pending].cb = q
  /\ \A p \in Pending : net.udp[p].cb # None => net.sq[net.udp[p].cb].pending = p
  /\ \A w \in Waiting : net.wtcp[w].cb # None => net.sq[net.wtcp[w].cb].pending = w
  /\ \A s \in Stream :
       LET S == net.strm[s]
       IN  /\ \A w \in S.tree_by_id : net.wtcp[w].alive /\ net.wtcp[w].stream = s
           /\ Range(S.write_wait) \subseteq S.tree_by_id
           /\ S.query # None => S.query \in S.tree_by_id
  /\ \A w \in Range(net.tcp_wait) : net.wtcp[w].on_tcp_waiting_list
  /\ \A p \in Range(net.udp_wait) : net.udp[p].alive
  /\ \A f \in Frames :
       /\ f.op \in {"mesh", "serviced_node_del", "pending_tcp_query"}
            => net.sq[f.x].alive
       /\ f.op \in {"serviced_udp_callback", "serviced_tcp_callback"}
            => net.sq[f.x[1]].alive
       /\ f.op \in {"udp_done", "timeout_done", "pending_delete"}
            => net.udp[f.x].alive
       /\ f.op = "waiting_tcp_delete" => net.wtcp[f.x].alive
       /\ f.op = "tcp_reply_done" => net.wtcp[f.x[2]].alive
       /\ f.op = "reuse_cb_readwait" => \A w \in f.x[2] : net.wtcp[w].alive

\* A stream is in the free list once, or it is open and in the tree and the LRU
\* list (decommission_pending_tcp, "A certain code path can lead here twice").
StreamsExact ==
  /\ IsInjective(net.tcp_free) /\ IsInjective(net.lru)
  /\ \A s \in Range(net.tcp_free) : net.strm[s] = NoStream
  /\ InUse(net) = Range(net.lru)
  /\ Idle => InUse(net) = Stream \ Range(net.tcp_free)

\* A socket is open exactly while queries, or the wait for late answers, use it.
PortsExact ==
  \A c \in Port :
    /\ net.num_outstanding[c] = Cardinality({p \in Pending : net.udp[p].pc = c})
    /\ c \in net.unused_fds <=> net.num_outstanding[c] = 0

\* Streams and sockets are accounted for, and queries wait for one only while
\* there is none to be had (outnet_send_wait_udp, use_free_buffer).
WaitOnlyWhenFull ==
  /\ StreamsExact /\ PortsExact
  /\ Idle => /\ net.udp_wait # <<>> => net.unused_fds = {}
             /\ net.tcp_wait # <<>> => net.tcp_free = <<>>

\* Whatever the server still answers on a stream has the id of one query of the
\* stream, and it is the query that the server answers, also after some of the
\* queries were stopped and others took their place (reuse_tcp_select_id), for
\* servers that answer what they were sent (ServerReplies).
AnswersMatch ==
  \A s \in Stream : \A r \in net.strm[s].wire :
    \E w \in net.strm[s].tree_by_id :
      /\ net.wtcp[w].id = r.id /\ net.wtcp[w].key = r.key
      /\ ~net.wtcp[w].write_wait_queued /\ net.strm[s].query # w
      /\ \A v \in net.strm[s].tree_by_id \ {w} : net.wtcp[v].id # r.id

\* No query is left to wait for ever: each has a timer of its own, or waits for
\* something in use that has one: one that waits to be written has the timer of
\* the query being written (for servers as in ServerReplies).
EveryQueryTimed ==
  Idle => \A q \in Sq : net.sq[q].alive =>
    LET x == net.sq[q].pending
        w == net.wtcp[x]
    IN  IF x = None THEN net.sq[q].timer
        ELSE IF net.sq[q].status \in UdpStatus
        THEN Sent(x) \/ (x \in Range(net.udp_wait) /\ net.unused_fds = {})
        ELSE \/ w.timer
             \/ w.write_wait_queued /\ net.wtcp[net.strm[w.stream].query].timer
=============================================================================
