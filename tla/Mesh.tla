-------------------------------- MODULE Mesh --------------------------------
(***************************************************************************)
(* The mesh of query states of one worker (services/mesh.c, mesh.h), with  *)
(* the part of the stream connections (services/listen_dnsport.c) that     *)
(* reaches into it.                                                        *)
(*                                                                         *)
(* A worker runs one event loop.  Between events the mesh is idle          *)
(* (cur = NoState); an event may start mesh_run, during which the module   *)
(* at the current state's position operates (and calls back into the mesh: *)
(* attach_sub, add_sub, detach_subs, kill_sub) and exits with an extended  *)
(* state that mesh_continue interprets.  Every C function that changes the *)
(* mesh is an operator from mesh records to mesh records, with the name of *)
(* the C function, so that a handler is the composition of the functions   *)
(* it calls.                                                               *)
(***************************************************************************)
EXTENDS Integers, FiniteSets

CONSTANTS
  Query,                \* the keys of query states (qinfo, flags, unique)
  Client,               \* client queries that can wait for an answer
  Callback,             \* internal mesh_cb registrations
  Conn,                 \* stream connections
  UDP,                  \* the "connection" of a client query over UDP
  ConnOf,               \* the connection a client query arrived on
  NoState,              \* the null mesh_state pointer
  NumMods,              \* number of modules in the stack
  max_reply_states,     \* num-queries-per-thread
  ReplyAddrFactor,      \* the 16 in mesh_new_client's limit of reply addresses
  MESH_MAX_ACTIVATION,  \* activations of one state before it is stopped
  MESH_MAX_RUN_ITER,    \* module runs in one mesh_run before it is stopped
  ServeExpired,         \* serve-expired with a client timeout is configured
  ErrorReporting,       \* dns-error-reporting is configured
  OutOfMemory           \* allocations may fail

Waiter == Client \cup Callback

ASSUME MeshAssumption ==
  /\ IsFiniteSet(Query) /\ IsFiniteSet(Client) /\ IsFiniteSet(Callback)
  /\ NoState \notin Query
  /\ Client \cap Callback = {}
  /\ UDP \notin Conn
  /\ ConnOf \in [Client -> Conn \cup {UDP}]
  /\ NumMods \in Nat \ {0}
  /\ max_reply_states \in Nat /\ ReplyAddrFactor \in Nat
  /\ MESH_MAX_ACTIVATION \in Nat /\ MESH_MAX_RUN_ITER \in Nat
  /\ ServeExpired \in BOOLEAN /\ ErrorReporting \in BOOLEAN
  /\ OutOfMemory \in BOOLEAN

VARIABLES
  mesh,    \* the mesh area and the states in it
  cur,     \* the state mesh_run is running, NoState when the loop is idle
  numrun   \* iterations of the current mesh_run

vars == <<mesh, cur, numrun>>

MeshRecord ==
  [all     : SUBSET Query,                    \* mesh_area.all
   run     : SUBSET Query,                    \* mesh_area.run
   sub     : [Query -> SUBSET Query],         \* mesh_state.sub_set
   super   : [Query -> SUBSET Query],         \* mesh_state.super_set
   at      : [Waiter -> Query \cup {NoState}],\* whose reply_list or cb_list
   list    : [Query -> {"no", "forever", "jostle"}],   \* list_select
   first   : Query \cup {NoState},            \* jostle_first
   last    : Query \cup {NoState},            \* jostle_last
   next    : [Query -> Query \cup {NoState}], \* links of the jostle list
   prev    : [Query -> Query \cup {NoState}],
   age     : [Query -> {"none", "fresh", "old"}],  \* of first_reply_time
   num_reply_addrs     : Int,
   num_reply_states    : Int,
   num_detached_states : Int,
   num_forever_states  : Int,
   curmod  : [Query -> Nat],
   num_activated : [Query -> Nat],
   outbound: [Query -> BOOLEAN],    \* a query to a server is outstanding
   timer   : [Query -> BOOLEAN],    \* the serve-expired timer is set
   blacklist : [Query -> BOOLEAN],  \* the cache is not to be used
   up      : SUBSET Conn,           \* connections that are established
   open    : [Conn -> SUBSET Query] \* tcp_req_info.open_req_list
  ]

max_forever_states == (max_reply_states + 1) \div 2

-----------------------------------------------------------------------------
(* Reading a mesh record. *)

ReplyList(M, q) == {c \in Client : M.at[c] = q}

Waiters(M, q) == {w \in Waiter : M.at[w] = q}

IsReplyState(M, q) == \E w \in Waiter : M.at[w] = q

IsDetached(M, q) == ~IsReplyState(M, q) /\ M.super[q] = {}

\* The stream connections of the replies in q's reply list.
ConnsOf(M, q) == {ConnOf[c] : c \in ReplyList(M, q)} \ {UDP}

\* A faulty variant: only the direct subs are looked at.
NotInSubsub_direct(M, from, tofind) ==
  from # tofind /\ tofind \notin M.sub[from]

\* find_in_subsub(from, tofind) finds nothing: a set of states holds from and
\* the subs of its members, and does not hold tofind.
NotInSubsub(M, from, tofind) ==
  \E D \in SUBSET Query :
    from \in D /\ tofind \notin D /\ \A x \in D : M.sub[x] \subseteq D

-----------------------------------------------------------------------------
(* Leaving reply lists and callback lists, and closing connections. *)

\* The replies and callbacks W are taken off their lists: each is counted off,
\* and a state whose lists become empty stops being a reply state and is
\* detached when no other state depends on it.
mesh_state_remove_reply(M, W) ==
  LET R == [M EXCEPT !.at = [w \in Waiter |-> IF w \in W THEN NoState
                                              ELSE M.at[w]]]
      emptied == {q \in Query : IsReplyState(M, q) /\ ~IsReplyState(R, q)}
  IN [R EXCEPT
        !.num_reply_addrs = @ - Cardinality(W),
        !.num_reply_states = @ - Cardinality(emptied),
        !.num_detached_states =
           @ + Cardinality({q \in emptied : M.super[q] = {}})]

\* The connections K are closed: tcp_req_info_clear takes their replies off
\* the states that its open request list names.
tcp_req_info_clear(M, K) ==
  LET R == mesh_state_remove_reply(M,
             {c \in Client : /\ ConnOf[c] \in K
                             /\ M.at[c] \in M.open[ConnOf[c]]})
  IN [R EXCEPT !.up = @ \ K,
               !.open = [k \in Conn |-> IF k \in K THEN {} ELSE M.open[k]]]

\* A faulty variant: the open request list is forgotten.
tcp_req_info_remove_mesh_state_none(M, K, q) == M

\* The state q is taken off the open request lists of the connections K.
tcp_req_info_remove_mesh_state(M, K, q) ==
  [M EXCEPT !.open = [k \in Conn |-> IF k \in K THEN M.open[k] \ {q}
                                     ELSE M.open[k]]]

-----------------------------------------------------------------------------
(* The jostle list, oldest first.  The forever list is only ever inserted   *)
(* into and removed from, so its membership (list) is all there is to it.   *)

mesh_list_insert(M, q) ==
  [M EXCEPT !.prev[q] = M.last,
            !.next = [x \in Query |-> IF x = q THEN NoState
                                      ELSE IF x = M.last THEN q
                                      ELSE M.next[x]],
            !.first = IF M.last = NoState THEN q ELSE @,
            !.last = q]

\* The links of the removed state are left as they are in the code; the state
\* is deleted, so they are reset here.
mesh_list_remove(M, q) ==
  [M EXCEPT !.next = [x \in Query |-> IF x = q THEN NoState
                                      ELSE IF x = M.prev[q] THEN M.next[q]
                                      ELSE M.next[x]],
            !.prev = [x \in Query |-> IF x = q THEN NoState
                                      ELSE IF x = M.next[q] THEN M.prev[q]
                                      ELSE M.prev[x]],
            !.first = IF M.prev[q] = NoState THEN M.next[q] ELSE @,
            !.last = IF M.next[q] = NoState THEN M.prev[q] ELSE @]

\* A faulty variant: a new reply moves the state to the end of the jostle list.
SelectList_again(M, q) ==
  CASE M.list[q] = "jostle" -> mesh_list_insert(mesh_list_remove(M, q), q)
    [] M.list[q] = "forever" -> M
    [] OTHER ->
         IF M.num_forever_states < max_forever_states
         THEN [M EXCEPT !.num_forever_states = @ + 1, !.list[q] = "forever"]
         ELSE [mesh_list_insert(M, q) EXCEPT !.list[q] = "jostle"]

\* A state on no list goes to the forever list while there is room, and to the
\* end of the jostle list after that.
SelectList(M, q) ==
  IF M.list[q] # "no" THEN M
  ELSE IF M.num_forever_states < max_forever_states
  THEN [M EXCEPT !.num_forever_states = @ + 1, !.list[q] = "forever"]
  ELSE [mesh_list_insert(M, q) EXCEPT !.list[q] = "jostle"]

\* A faulty variant: the state stays on its list.
UnselectList_none(M, q) == M

UnselectList(M, q) ==
  CASE M.list[q] = "forever" ->
         [M EXCEPT !.num_forever_states = @ - 1, !.list[q] = "no"]
    [] M.list[q] = "jostle" ->
         [mesh_list_remove(M, q) EXCEPT !.list[q] = "no"]
    [] OTHER -> M

-----------------------------------------------------------------------------
(* Creating and deleting states. *)

\* mesh_state_create, the insertion in all and the count of a state that
\* nothing waits for yet.  A deleted state has its fields reset.
mesh_state_create(M, q) ==
  [M EXCEPT !.all = @ \cup {q}, !.num_detached_states = @ + 1]

\* A faulty variant: the super_set of the subs is forgotten.
mesh_detach_subs_oneway(M, q) == [M EXCEPT !.sub[q] = {}]

mesh_detach_subs(M, q) ==
  LET R == [M EXCEPT !.super = [s \in Query |-> IF s \in M.sub[q]
                                                THEN M.super[s] \ {q}
                                                ELSE M.super[s]],
                     !.sub[q] = {}]
  IN [R EXCEPT !.num_detached_states =
        @ + Cardinality({s \in M.sub[q] : IsDetached(R, s)})]

\* Unsent replies are dropped, which closes their stream connections and with
\* them the replies that other states hold for those connections; callbacks
\* are called with an error; the modules clear what they hold for the state.
mesh_state_cleanup(M, q) ==
  LET K == ConnsOf(M, q)
      R == [tcp_req_info_remove_mesh_state(M, K, q) EXCEPT
              !.at = [w \in Waiter |-> IF M.at[w] = q THEN NoState
                                       ELSE M.at[w]],
              !.num_reply_addrs = @ - Cardinality(Waiters(M, q)),
              !.timer[q] = FALSE, !.outbound[q] = FALSE, !.curmod[q] = 0,
              !.num_activated[q] = 0, !.age[q] = "none",
              !.blacklist[q] = FALSE]
  IN tcp_req_info_clear(R, K)

mesh_state_delete(M, q) ==
  LET L == UnselectList(mesh_detach_subs(M, q), q)
      R == [L EXCEPT
              !.num_detached_states = IF IsDetached(L, q) THEN @ - 1 ELSE @,
              !.num_reply_states = IF IsReplyState(L, q) THEN @ - 1 ELSE @,
              !.sub = [p \in Query |-> IF p \in L.super[q]
                                       THEN L.sub[p] \ {q} ELSE L.sub[p]],
              !.super[q] = {},
              !.run = @ \ {q},
              !.all = @ \ {q}]
  IN mesh_state_cleanup(R, q)

\* A faulty variant: the supers are told, but not made runnable.
mesh_walk_supers_none(M, q) == M

\* The supers of q become runnable.  What inform_super does to the module
\* state of the super is not part of the mesh.
mesh_walk_supers(M, q) == [M EXCEPT !.run = @ \cup M.super[q]]

-----------------------------------------------------------------------------
(* Making room, and adding replies, callbacks and dependencies. *)

\* mesh_make_new_space returns true: there is room, or the first state of the
\* jostle list has waited longer than the jostle timeout (or never had a
\* client).
HasSpace(M) ==
  \/ M.num_reply_states < max_reply_states
  \/ /\ M.first # NoState
     /\ M.list[M.first] = "jostle"
     /\ M.age[M.first] # "fresh"

\* What mesh_make_new_space does when it returns true.
mesh_make_new_space(M) ==
  IF M.num_reply_states < max_reply_states THEN M
  ELSE mesh_state_delete(mesh_walk_supers(M, M.first), M.first)

\* The waiter w, a reply or a callback, is put on q's list and counted.
AddWaiter(M, q, w) ==
  [M EXCEPT !.at[w] = q,
            !.num_reply_addrs = @ + 1,
            !.num_reply_states = IF IsReplyState(M, q) THEN @ ELSE @ + 1,
            !.num_detached_states = IF IsDetached(M, q) THEN @ - 1 ELSE @,
            !.timer[q] = @ \/ ServeExpired]

mesh_state_add_reply(M, q, c) ==
  [AddWaiter(M, q, c) EXCEPT
     !.age[q] = IF @ = "none" THEN "fresh" ELSE @,
     !.open = [k \in Conn |-> IF k = ConnOf[c] THEN M.open[k] \cup {q}
                              ELSE M.open[k]]]

\* The state for q exists, or is created and made runnable.
mesh_add_sub(M, q) ==
  IF q \in M.all THEN M
  ELSE [mesh_state_create(M, q) EXCEPT !.run = @ \cup {q}]

\* Faulty variants: the sub is not counted as attached; it is counted every
\* time.
mesh_state_attachment_uncounted(M, q, s) ==
  [M EXCEPT !.sub[q] = @ \cup {s}, !.super[s] = @ \cup {q}]

mesh_state_attachment_recounted(M, q, s) ==
  [M EXCEPT !.sub[q] = @ \cup {s}, !.super[s] = @ \cup {q},
            !.num_detached_states = @ - 1]

\* A state that had no super and no waiter is no longer detached.
mesh_state_attachment(M, q, s) ==
  [M EXCEPT !.sub[q] = @ \cup {s},
            !.super[s] = @ \cup {q},
            !.num_detached_states = IF IsDetached(M, s) THEN @ - 1 ELSE @]

\* Everyone waiting for q gets an answer or is dropped.  Sending (or dropping)
\* closes the connections K, a subset of those of q's replies.  The code takes
\* q off the open list of the others as it goes.
AnswerAll(M, q, K) ==
  LET R == mesh_state_remove_reply(M,
             Waiters(M, q) \cup {c \in Client :
                                   /\ ConnOf[c] \in K
                                   /\ M.at[c] \in M.open[ConnOf[c]]})
      closed == [R EXCEPT !.up = @ \ K,
                          !.open = [k \in Conn |-> IF k \in K THEN {}
                                                   ELSE M.open[k]]]
  IN tcp_req_info_remove_mesh_state(closed, ConnsOf(M, q), q)

\* report is the query of a DNS error report, NoState when none is made.
mesh_query_done(M, q, K, report) ==
  LET R == IF report = NoState THEN M ELSE mesh_add_sub(M, report)
  IN [AnswerAll(R, q, K) EXCEPT !.timer[q] = FALSE]

\* mesh_new_prefetch for a query that has no state, when there is space.
mesh_schedule_prefetch(M, q) ==
  [SelectList(mesh_state_create(mesh_make_new_space(M), q), q) EXCEPT
     !.blacklist[q] = TRUE]

-----------------------------------------------------------------------------
(* Events: the event loop is idle. *)

\* The empty area, with the connections up and their open request lists.
mesh_create(up, open) ==
  [all |-> {}, run |-> {},
   sub |-> [q \in Query |-> {}], super |-> [q \in Query |-> {}],
   at |-> [w \in Waiter |-> NoState],
   list |-> [q \in Query |-> "no"],
   first |-> NoState, last |-> NoState,
   next |-> [q \in Query |-> NoState], prev |-> [q \in Query |-> NoState],
   age |-> [q \in Query |-> "none"],
   num_reply_addrs |-> 0, num_reply_states |-> 0,
   num_detached_states |-> 0, num_forever_states |-> 0,
   curmod |-> [q \in Query |-> 0], num_activated |-> [q \in Query |-> 0],
   outbound |-> [q \in Query |-> FALSE], timer |-> [q \in Query |-> FALSE],
   blacklist |-> [q \in Query |-> FALSE],
   up |-> up, open |-> open]

Init ==
  /\ mesh = mesh_create({}, [k \in Conn |-> {}])
  /\ cur = NoState
  /\ numrun = 0

Idle == cur = NoState

\* mesh_run is called for q with the mesh M.
StartRun(M, q) == mesh' = M /\ cur' = q /\ numrun' = 0

\* The handler ends without a mesh_run.
NoRun(M) == mesh' = M /\ UNCHANGED <<cur, numrun>>

\* mesh_new_client has to find or make room: the query is not yet a reply
\* state on a list.
NeedsSpace(q) == q \notin mesh.all \/ mesh.list[q] = "no"

\* The mesh in which mesh_new_client looks for, or creates, the state.
SpaceFor(q) == IF NeedsSpace(q) THEN mesh_make_new_space(mesh) ELSE mesh

\* The state of mesh_new_client and mesh_new_callback: found or created.
FindOrCreate(M, q) == IF q \in mesh.all THEN M ELSE mesh_state_create(M, q)

\* A faulty variant: a state that is on a list takes any number of replies.
Admitted_unbounded(q) == NeedsSpace(q) => HasSpace(mesh)

Admitted(q) ==
  IF NeedsSpace(q) THEN HasSpace(mesh)
  ELSE mesh.num_reply_addrs <= max_reply_states * ReplyAddrFactor

\* The query c can arrive: it is not waiting and its connection is up.
Arrives(c) == mesh.at[c] = NoState /\ ConnOf[c] \in mesh.up \cup {UDP}

mesh_new_client(c, q) ==
  /\ Idle /\ Arrives(c) /\ Admitted(q)
  /\ LET R == SelectList(
                mesh_state_add_reply(FindOrCreate(SpaceFor(q), q), q, c), q)
     IN IF q \in mesh.all THEN NoRun(R) ELSE StartRun(R, q)

\* Too many queries, or too many reply addresses: the query is dropped, which
\* closes the stream connection it came on.
mesh_new_client_dropped(c, q) ==
  /\ Idle /\ Arrives(c) /\ ~Admitted(q)
  /\ NoRun(tcp_req_info_clear(mesh, {ConnOf[c]} \ {UDP}))

\* A faulty variant: the reply that was counted is not counted off.
mesh_new_client_nomem_counted(c, q) ==
  /\ OutOfMemory
  /\ Idle /\ Arrives(c) /\ Admitted(q)
  /\ NoRun([SpaceFor(q) EXCEPT !.num_reply_addrs = @ + 1])

\* An allocation fails: room has been made, but a new state is not made (or is
\* deleted again), and the reply is not kept.  The time of the first reply may
\* have been noted before the failure.
mesh_new_client_nomem(c, q) ==
  /\ OutOfMemory
  /\ Idle /\ Arrives(c) /\ Admitted(q)
  /\ \/ NoRun(SpaceFor(q))
     \/ q \in mesh.all /\ mesh.age[q] = "none"
        /\ NoRun([SpaceFor(q) EXCEPT !.age[q] = "fresh"])

\* The allocation that fails is the last one, for the serve-expired timer: the
\* rollback also takes the state off the open list of the connection.
mesh_new_client_notimer(c, q) ==
  /\ OutOfMemory /\ ServeExpired
  /\ Idle /\ Arrives(c) /\ Admitted(q)
  /\ ~mesh.timer[q]
  /\ NoRun([tcp_req_info_remove_mesh_state(SpaceFor(q), {ConnOf[c]} \ {UDP}, q)
              EXCEPT !.age[q] = IF q \in mesh.all /\ @ = "none" THEN "fresh"
                                ELSE @])

mesh_new_callback(b, q) ==
  /\ Idle /\ mesh.at[b] = NoState
  /\ LET R == AddWaiter(FindOrCreate(mesh, q), q, b)
     IN IF q \in mesh.all THEN NoRun(R) ELSE StartRun(R, q)

mesh_remove_callback(b) ==
  /\ Idle /\ mesh.at[b] # NoState
  /\ NoRun(mesh_state_remove_reply(mesh, {b}))

mesh_new_prefetch(q) ==
  /\ Idle
  /\ \/ q \in mesh.all /\ NoRun([mesh EXCEPT !.blacklist[q] = TRUE])
     \/ /\ q \notin mesh.all /\ HasSpace(mesh)
        /\ StartRun(mesh_schedule_prefetch(mesh, q), q)
     \/ /\ q \notin mesh.all /\ HasSpace(mesh) /\ OutOfMemory
        /\ NoRun(mesh_make_new_space(mesh))

\* An answer, an error or a timeout for a query that was sent to a server;
\* more tells if other such queries of this state are outstanding.
mesh_report_reply(q) ==
  /\ Idle /\ mesh.outbound[q]
  /\ \E more \in BOOLEAN : StartRun([mesh EXCEPT !.outbound[q] = more], q)

\* The serve-expired timer of q goes off.  If the cache has an answer, even
\* one that is expired, everyone waiting for q is answered; the query goes on.
mesh_serve_expired_callback(q) ==
  /\ Idle /\ mesh.timer[q]
  /\ LET R == [mesh EXCEPT !.timer[q] = FALSE]
     IN \/ NoRun(R)
        \/ \E K \in SUBSET ConnsOf(mesh, q) : NoRun(AnswerAll(R, q, K))

\* q's first reply becomes older than the jostle timeout.
TimePasses(q) ==
  /\ Idle /\ mesh.age[q] = "fresh"
  /\ NoRun([mesh EXCEPT !.age[q] = "old"])

Accept(k) ==
  /\ Idle /\ k \notin mesh.up
  /\ NoRun([mesh EXCEPT !.up = @ \cup {k}])

\* The other side closes the connection, or it times out.
comm_point_close(k) ==
  /\ Idle /\ k \in mesh.up
  /\ NoRun(tcp_req_info_clear(mesh, {k}))

\* Every state is deleted, and the area reset (reload, worker stop, and some
\* remote control commands).
mesh_delete_all ==
  /\ Idle /\ mesh.all # {}
  /\ LET K == {ConnOf[c] : c \in {d \in Client : mesh.at[d] # NoState}} \ {UDP}
     IN NoRun(mesh_create(mesh.up \ K,
                [k \in Conn |-> IF k \in K THEN {} ELSE mesh.open[k]]))

-----------------------------------------------------------------------------
(* Inside mesh_run: the current module of the state cur operates. *)

Running == cur # NoState /\ numrun <= MESH_MAX_RUN_ITER

\* mesh_attach_sub for a query that has no state, or whose state does not
\* depend on cur; it is refused otherwise.  Without memory the new state may
\* be left unattached.
mesh_attach_sub(s) ==
  /\ Running
  /\ s \notin mesh.all \/ NotInSubsub(mesh, s, cur)
  /\ \/ NoRun(mesh_state_attachment(mesh_add_sub(mesh, s), cur, s))
     \/ OutOfMemory /\ NoRun(mesh_add_sub(mesh, s))

\* The initialisation of a state that was just attached fails: kill_sub.
KillSub(s) ==
  /\ Running
  /\ s \in mesh.sub[cur] \cap mesh.run
  /\ mesh.super[s] = {cur} /\ mesh.sub[s] = {} /\ mesh.num_activated[s] = 0
  /\ ~IsReplyState(mesh, s) /\ mesh.list[s] = "no"
  /\ NoRun(mesh_state_delete(mesh, s))

DetachSubs ==
  /\ Running /\ mesh.sub[cur] # {}
  /\ NoRun(mesh_detach_subs(mesh, cur))

\* cachedb answers the waiting clients with expired data and goes on.
mesh_respond_serve_expired ==
  /\ Running /\ IsReplyState(mesh, cur)
  /\ \E K \in SUBSET ConnsOf(mesh, cur) :
       NoRun([AnswerAll(mesh, cur, K) EXCEPT !.timer[cur] = FALSE])

\* mesh_run continues with another runnable state, if there is one.
RunNext(M) ==
  \/ M.run = {} /\ mesh' = M /\ cur' = NoState /\ numrun' = 0
  \/ \E q \in M.run : /\ mesh' = [M EXCEPT !.run = @ \ {q}]
                      /\ cur' = q
                      /\ numrun' = numrun + 1

\* mesh_run continues with the same state at another module.
RunOn(M) == mesh' = M /\ cur' = cur /\ numrun' = numrun + 1

\* The module exits, and mesh_continue counts the activation.
Activated == [mesh EXCEPT !.num_activated[cur] = @ + 1]

Looping == mesh.num_activated[cur] + 1 > MESH_MAX_ACTIVATION

AtLastModule == mesh.curmod[cur] + 1 = NumMods

\* The module waits for an answer from a server, having sent a query.
WaitReply ==
  /\ Running /\ ~Looping
  /\ RunNext([Activated EXCEPT !.outbound[cur] = TRUE])

\* A faulty variant: the state may wait without a subquery to wait for.
WaitSubquery_unguarded ==
  /\ Running /\ ~Looping
  /\ RunNext(Activated)

WaitSubquery ==
  /\ Running /\ ~Looping /\ mesh.sub[cur] # {}
  /\ RunNext(Activated)

\* wait_module and restart_next; the latter clears the modules after this one,
\* and with them the outstanding queries.
PassToNext ==
  /\ Running /\ ~Looping /\ ~AtLastModule
  /\ \E restart \in BOOLEAN :
       RunOn([Activated EXCEPT
                !.curmod[cur] = @ + 1,
                !.outbound[cur] = @ /\ ~restart])

PassBack ==
  /\ Running /\ ~Looping /\ mesh.curmod[cur] > 0
  /\ RunOn([Activated EXCEPT !.curmod[cur] = @ - 1])

\* The state is done, by an error (of the module, of passing on at the last
\* module, of waiting for no subquery, or of looping) or by finishing at the
\* first module: the waiting clients are answered, the supers told, the state
\* deleted.
Done(K, report) ==
  mesh_state_delete(
    mesh_walk_supers(mesh_query_done(Activated, cur, K, report), cur), cur)

\* The query that reports an error to the reporting agent, or none.
Reports ==
  {NoState} \cup
  {q \in Query : ErrorReporting /\ ReplyList(mesh, cur) # {}}

mesh_continue_done ==
  /\ Running
  /\ \E K \in SUBSET ConnsOf(mesh, cur), report \in Reports :
       RunNext(Done(K, report))

\* A faulty variant: the refetch is itself refetched.
mesh_continue_refetch_again ==
  /\ Running /\ ~Looping /\ mesh.curmod[cur] = 0
  /\ LET R == Done({}, NoState)
     IN /\ HasSpace(R)
        /\ \E p \in Query \ R.all : StartRun(mesh_schedule_prefetch(R, p), p)

\* Finished at the first module, with an answer from the subnet cache that is
\* to be refetched (it has clients, and did use the cache): a prefetch state,
\* of a unique key, is made and run in a mesh_run of its own.
mesh_continue_refetch ==
  /\ Running /\ ~Looping /\ mesh.curmod[cur] = 0
  /\ ~mesh.blacklist[cur] /\ ReplyList(mesh, cur) # {}
  /\ \E K \in SUBSET ConnsOf(mesh, cur), report \in Reports :
       LET R == Done(K, report)
       IN /\ HasSpace(R)
          /\ \/ \E p \in Query \ R.all :
                  StartRun(mesh_schedule_prefetch(R, p), p)
             \/ OutOfMemory /\ RunNext(mesh_make_new_space(R))

\* Too many iterations: every runnable state, and every state that depends on
\* one, is deleted.
mesh_run_stop ==
  /\ cur # NoState /\ numrun > MESH_MAX_RUN_ITER
  /\ LET R == mesh_state_delete(mesh_walk_supers(mesh, cur), cur)
     IN \/ R.run = {} /\ mesh' = R /\ cur' = NoState /\ numrun' = 0
        \/ \E q \in R.run : /\ mesh' = [R EXCEPT !.run = @ \ {q}]
                            /\ cur' = q /\ UNCHANGED numrun

-----------------------------------------------------------------------------
Event ==
  \/ \E c \in Client, q \in Query : \/ mesh_new_client(c, q)
                                    \/ mesh_new_client_dropped(c, q)
                                    \/ mesh_new_client_nomem(c, q)
                                    \/ mesh_new_client_notimer(c, q)
  \/ \E b \in Callback, q \in Query : mesh_new_callback(b, q)
  \/ \E b \in Callback : mesh_remove_callback(b)
  \/ \E q \in Query : \/ mesh_new_prefetch(q)
                      \/ mesh_report_reply(q)
                      \/ mesh_serve_expired_callback(q)
                      \/ TimePasses(q)
  \/ \E k \in Conn : Accept(k) \/ comm_point_close(k)
  \/ mesh_delete_all

Operate ==
  \/ \E s \in Query : mesh_attach_sub(s) \/ KillSub(s)
  \/ DetachSubs
  \/ mesh_respond_serve_expired

Exit ==
  \/ WaitReply \/ WaitSubquery \/ PassToNext \/ PassBack
  \/ mesh_continue_done \/ mesh_continue_refetch
  \/ mesh_run_stop

Next == Event \/ Operate \/ Exit

Spec == Init /\ [][Next]_vars

-----------------------------------------------------------------------------
(* Fairness.  A module that operates returns, so that mesh_run goes on; every *)
(* query to a server ends in an answer or a timeout, which the event loop     *)
(* reports although other events keep it busy at times.  The first conjunct   *)
(* is WF_vars(Exit) written out: Exit is enabled exactly while cur # NoState. *)

Fairness ==
  /\ []<>(cur = NoState) \/ []<><<Exit>>_vars
  /\ \A q \in Query : SF_vars(mesh_report_reply(q))

FairSpec == Spec /\ Fairness

-----------------------------------------------------------------------------
(* Properties. *)

\* The fields of the mesh area and of the loop in mesh_run keep their types:
\* none of the counters, which are size_t in the code, goes below zero.
TypeOK ==
  /\ mesh \in MeshRecord
  /\ {mesh.num_reply_addrs, mesh.num_reply_states,
      mesh.num_detached_states, mesh.num_forever_states} \subseteq Nat
  /\ cur \in Query \cup {NoState}
  /\ numrun \in Nat

\* Nothing refers to a state that mesh_state_delete freed: the runnable tree,
\* the jostle list, the reply and callback lists, the timers, the outstanding
\* queries and the state mesh_run works on are all of states in mesh_area.all.
NoDanglingState ==
  /\ mesh.run \subseteq mesh.all
  /\ cur \in mesh.all \cup {NoState}
  /\ \A w \in Waiter : mesh.at[w] \in mesh.all \cup {NoState}
  /\ \A q \in Query \ mesh.all :
       /\ mesh.list[q] = "no" /\ mesh.age[q] = "none"
       /\ ~mesh.outbound[q] /\ ~mesh.timer[q]

\* sub_set and super_set are each other's inverse and relate existing states:
\* mesh_state_attachment and mesh_detach_subs assert this ("unless they are out
\* of sync"), and mesh_state_delete relies on it to leave no reference behind.
SubSuperInSync ==
  \A p, s \in Query : /\ s \in mesh.sub[p] <=> p \in mesh.super[s]
                      /\ s \in mesh.sub[p] => p \in mesh.all /\ s \in mesh.all

\* No states wait for each other: every nonempty set of states has one whose
\* subs are all outside it.  mesh_detect_cycle_found refuses the attachments
\* that would break this.
NoDependencyCycle ==
  \A S \in SUBSET mesh.all :
    S # {} => \E x \in S : mesh.sub[x] \cap S = {}

\* The four counters of the area are what a count of the states and of the
\* reply and callback lists gives, after any sequence of attachments, closed
\* connections, timers, jostled queries and failures.
CountersExact ==
  /\ mesh.num_reply_addrs = Cardinality({w \in Waiter : mesh.at[w] # NoState})
  /\ mesh.num_reply_states = Cardinality({q \in Query : IsReplyState(mesh, q)})
  /\ mesh.num_detached_states =
       Cardinality({q \in mesh.all : IsDetached(mesh, q)})
  /\ mesh.num_forever_states =
       Cardinality({q \in Query : mesh.list[q] = "forever"})

\* The states on the jostle list.
Jostle(M) == {q \in Query : M.list[q] = "jostle"}

\* The jostle list is a doubly linked list of exactly the states whose
\* list_select says so: a walk along the next pointers from jostle_first sees
\* each of them once and ends at jostle_last (mesh_list_insert, mesh_list_remove).
JostleListLinked ==
  /\ mesh.first = NoState <=> Jostle(mesh) = {}
  /\ mesh.last = NoState <=> Jostle(mesh) = {}
  /\ {mesh.first, mesh.last} \subseteq Jostle(mesh) \cup {NoState}
  /\ \A q \in Jostle(mesh) :
       /\ mesh.next[q] \in Jostle(mesh) \cup {NoState}
       /\ mesh.prev[q] \in Jostle(mesh) \cup {NoState}
       /\ mesh.next[q] = NoState <=> q = mesh.last
       /\ mesh.prev[q] = NoState <=> q = mesh.first
       /\ mesh.next[q] # NoState => mesh.prev[mesh.next[q]] = q
       /\ mesh.prev[q] # NoState => mesh.next[mesh.prev[q]] = q
  /\ \A S \in SUBSET Jostle(mesh) :
       /\ mesh.first \in S
       /\ \A q \in S : mesh.next[q] \in S \cup {NoState}
       => S = Jostle(mesh)

\* x comes before y on the jostle list of M: y cannot be left out of a set
\* that holds what follows x and is closed under next.
Before(M, x, y) ==
  M.next[x] # NoState /\ \A S \in SUBSET Jostle(M) :
    /\ M.next[x] \in S
    /\ \A q \in S : M.next[q] \in S \cup {NoState}
    => y \in S

\* mesh_make_new_space takes the first of the jostle list as the oldest: every
\* step leaves the list linked, and two states that stay on it never change
\* places.  (The state being run may be deleted and made again, for a refetch,
\* in one step.)
JostleOrderKept ==
  [][/\ JostleListLinked'
     /\ \A x, y \in (Jostle(mesh) \cap Jostle(mesh')) \ {cur} :
          Before(mesh, x, y) <=> Before(mesh', x, y)]_vars

\* Every state that is not being run waits for something that will run it: an
\* outstanding query, a subquery, or its turn in the runnable tree.  A state for
\* which this fails is never run again and holds its clients for ever.
NoStuckState ==
  \A q \in mesh.all \ {cur} :
    mesh.outbound[q] \/ mesh.sub[q] # {} \/ q \in mesh.run

\* Every entry of the open request list of a connection names a state that exists
\* and holds a reply for that connection: deleting a state leaves no entry that
\* points to it, however it is deleted, and closing the connection finds no state
\* that is gone (tcp_req_info_remove_mesh_state, tcp_req_info_clear).
OpenListLive ==
  \A k \in Conn :
    mesh.open[k] \subseteq {mesh.at[c] : c \in {d \in Client : /\ ConnOf[d] = k
                                                           /\ mesh.at[d] # NoState}}

\* "Then the mesh state has been cleared" and "the reply has been dropped, stream
\* has been closed" (tcp_req_info_handle_readdone): when a connection is closed no
\* reply waits for it.
NoReplyOnClosedConn ==
  \A c \in Client :
    mesh.at[c] # NoState /\ ConnOf[c] # UDP => ConnOf[c] \in mesh.up

\* "protect our memory usage from storing reply addresses": beyond the first
\* reply of each state, which is free, the client replies are within the limit.
ReplyAddrsBounded ==
  Cardinality({c \in Client : mesh.at[c] # NoState}) <=
    max_reply_states * ReplyAddrFactor
      + Cardinality({q \in Query : ReplyList(mesh, q) # {}})

\* Every mesh_run ends: the modules cannot keep each other active for ever.
MeshRunEnds == cur # NoState ~> cur = NoState

\* States are in the runnable tree and nothing runs the mesh.
LeftRunnable == cur = NoState /\ mesh.run # {}

\* Every client that waits gets an answer, or is dropped, unless from some time on
\* states are left in the runnable tree and no event runs the mesh again: mesh_run
\* is called by mesh_report_reply and by what makes a new state, and by no other
\* event.
ClientsServed ==
  \A c \in Client :
    mesh.at[c] # NoState ~> (mesh.at[c] = NoState \/ []LeftRunnable)

=============================================================================
