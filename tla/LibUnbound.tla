----------------------------- MODULE LibUnbound -----------------------------
(***************************************************************************)
(* Asynchronous queries of an application (libunbound/libunbound.c,         *)
(* context.c, libworker.c) to a background worker that is a thread of the   *)
(* application, or a process forked from it.  The worker and the threads of *)
(* the application talk through two pipes (util/tube.c) and, with a thread, *)
(* share the tree of queries under cfglock.                                 *)
(*                                                                         *)
(* An action is what is done with cfglock held, or with a pipe.  rrlock is  *)
(* kept by ub_wait from step to step.  A forked worker is used by one       *)
(* thread.                                                                  *)
(***************************************************************************)
EXTENDS Naturals, Sequences, FiniteSetsExt, SequencesExt

CONSTANTS
  App,        \* the threads of the application
  MaxQuery,   \* bound on the queries it makes
  PipeSize    \* messages that a pipe holds

VARIABLES
  ctx,      \* [dothread, created_bg, num_async, next_querynum, deleted]
  queries,  \* the tree of the application: id -> [cancelled]
  app,      \* what each thread does: [pc, id]
  rrlock,   \* the thread that has rrpipe_lock, or "none"
  qq_pipe, rr_pipe,
  bg,       \* the worker: [pc, id, num_async, tree, mesh, res_list]
  given,    \* the ids that ub_resolve_async returned
  called,   \* the ids of which the callback was called, in order
  silenced, \* the ids that ub_cancel accepted
  lost      \* the ids of which the request or the answer could not be written

vars == <<ctx, queries, app, rrlock, qq_pipe, rr_pipe, bg, given, called, silenced, lost>>

QueryNum == 1 .. MaxQuery

Msg(cmd, id) == [cmd |-> cmd, id |-> id]

Quit == Msg("QUIT", 0)

\* Trees of queries are functions from ids; a query is what this model needs of
\* it, whether it was cancelled.
Insert(tree, id) == [i \in DOMAIN tree \cup {id} |-> IF i = id THEN FALSE ELSE tree[i]]

Delete(tree, id) == [i \in DOMAIN tree \ {id} |-> tree[i]]

Goto(a, pc, id) == app' = [app EXCEPT ![a] = [pc |-> pc, id |-> id]]

\* The thread may make a call: the application makes none after ub_ctx_delete.
Usable(a) ==
  /\ ~ctx.deleted /\ app[a].pc = "idle"
  /\ \A b \in App : app[b].pc \notin {"stop", "join"}

-----------------------------------------------------------------------------
(* The application. *)

\* ub_resolve_async: the first starts the worker.
ub_resolve_async(a) ==
  /\ Usable(a)
  /\ ctx.next_querynum + Cardinality({b \in App : app[b].pc \in {"bg", "new"}})
       < MaxQuery
  /\ ctx' = [ctx EXCEPT !.created_bg = TRUE]
  /\ Goto(a, IF ctx.created_bg THEN "new" ELSE "bg", 0)
  /\ UNCHANGED <<queries, rrlock, qq_pipe, rr_pipe, bg, given, called, silenced, lost>>

\* libworker_bg: the worker runs, or cannot be set up; or it is created and
\* libworker_dobg ends for want of an event, which the application is not told.
libworker_bg(a, outcome) ==
  /\ app[a].pc = "bg"
  /\ IF outcome = "fail"
     THEN /\ ctx' = [ctx EXCEPT !.created_bg = FALSE]
          /\ Goto(a, "idle", 0)
          /\ UNCHANGED bg
     ELSE /\ bg' = [bg EXCEPT !.pc = outcome]
          /\ Goto(a, "new", 0)
          /\ UNCHANGED ctx
  /\ UNCHANGED <<queries, rrlock, qq_pipe, rr_pipe, given, called, silenced, lost>>

\* A new id, and the query in the tree; nobody knows the id yet.
context_new(a) ==
  LET id == ctx.next_querynum + 1
  IN  /\ app[a].pc = "new"
      /\ ctx' = [ctx EXCEPT !.next_querynum = id, !.num_async = @ + 1]
      /\ queries' = Insert(queries, id)
      /\ Goto(a, "newquery", id)
      /\ UNCHANGED <<rrlock, qq_pipe, rr_pipe, bg, given, called, silenced, lost>>

\* A request waits for room in the pipe.  With UB_PIPE the query stays in the tree
\* and in num_async, and the application has its id.
WriteNewQuery(a, outcome) ==
  /\ app[a].pc = "newquery"
  /\ outcome = "sent" => Len(qq_pipe) < PipeSize
  /\ LET id == app[a].id
     IN  /\ given' = IF outcome = "nomem" THEN given ELSE given \cup {id}
         /\ CASE outcome = "sent" ->
                   /\ qq_pipe' = Append(qq_pipe, Msg("NEWQUERY", id))
                   /\ UNCHANGED <<ctx, queries, lost>>
              [] outcome = "nomem" ->
                   /\ queries' = Delete(queries, id)
                   /\ ctx' = [ctx EXCEPT !.num_async = @ - 1]
                   /\ UNCHANGED <<qq_pipe, lost>>
              [] outcome = "pipe" ->
                   /\ lost' = lost \cup {id}
                   /\ UNCHANGED <<ctx, queries, qq_pipe>>
  /\ Goto(a, "idle", 0)
  /\ UNCHANGED <<rrlock, rr_pipe, bg, called, silenced>>

\* ub_cancel of an id that is not there does nothing.  A forked worker has to be
\* told.
ub_cancel(a, id) ==
  /\ Usable(a) /\ id \in given
  /\ id \in DOMAIN queries
  /\ silenced' = silenced \cup {id}
  /\ IF ctx.dothread
     THEN /\ queries' = [queries EXCEPT ![id] = TRUE]
          /\ UNCHANGED <<ctx, app>>
     ELSE /\ queries' = Delete(queries, id)
          /\ ctx' = [ctx EXCEPT !.num_async = @ - 1]
          /\ Goto(a, "cancel", id)
  /\ UNCHANGED <<rrlock, qq_pipe, rr_pipe, bg, given, called, lost>>

\* A worker that cannot be told of it answers the query; its id is unknown then.
WriteCancel(a, sent) ==
  /\ app[a].pc = "cancel"
  /\ sent => Len(qq_pipe) < PipeSize
  /\ qq_pipe' = IF sent THEN Append(qq_pipe, Msg("CANCEL", app[a].id)) ELSE qq_pipe
  /\ Goto(a, "idle", 0)
  /\ UNCHANGED <<ctx, queries, rrlock, rr_pipe, bg, given, called, silenced, lost>>

\* ub_process: takes a message, or ends its loop when there is none.
ub_process(a) ==
  /\ Usable(a)
  /\ rrlock = "none"
  /\ rr_pipe # <<>>
  /\ rr_pipe' = Tail(rr_pipe)
  /\ Goto(a, "process", Head(rr_pipe).id)
  /\ UNCHANGED <<ctx, queries, rrlock, qq_pipe, bg, given, called, silenced, lost>>

\* ub_wait: with rrpipe_lock, and with a look at num_async.
ub_wait(a) ==
  /\ Usable(a) \/ app[a].pc = "again"
  /\ rrlock = "none"
  /\ IF ctx.num_async = 0
     THEN Goto(a, "idle", 0) /\ UNCHANGED rrlock
     ELSE Goto(a, "wait", 0) /\ rrlock' = a
  /\ UNCHANGED <<ctx, queries, qq_pipe, rr_pipe, bg, given, called, silenced, lost>>

\* It has a message.
WaitRead(a) ==
  /\ app[a].pc = "wait"
  /\ rr_pipe # <<>>
  /\ rr_pipe' = Tail(rr_pipe)
  /\ Goto(a, "waitanswer", Head(rr_pipe).id)
  /\ UNCHANGED <<ctx, queries, rrlock, qq_pipe, bg, given, called, silenced, lost>>

\* A faulty variant of the definition below.
process_answer_detail_silenced(a) ==
  LET id == app[a].id
      next == IF app[a].pc = "process" THEN "idle" ELSE "again"
  IN  /\ app[a].pc \in {"process", "waitanswer"}
      /\ rrlock' = IF rrlock = a THEN "none" ELSE rrlock
      /\ IF id \notin DOMAIN queries
         THEN Goto(a, next, 0) /\ UNCHANGED <<ctx, queries>>
         ELSE /\ queries' = Delete(queries, id)
              /\ ctx' = [ctx EXCEPT !.num_async = @ - 1]
              /\ Goto(a, "callback-" \o next, id)
      /\ UNCHANGED <<qq_pipe, rr_pipe, bg, given, called, silenced, lost>>

\* The query of an answer is deleted; the callback of one that was not cancelled
\* is called after the locks are released.
process_answer_detail(a) ==
  LET id == app[a].id
      next == IF app[a].pc = "process" THEN "idle" ELSE "again"
  IN  /\ app[a].pc \in {"process", "waitanswer"}
      /\ rrlock' = IF rrlock = a THEN "none" ELSE rrlock
      /\ IF id \notin DOMAIN queries
         THEN Goto(a, next, 0) /\ UNCHANGED <<ctx, queries>>
         ELSE /\ queries' = Delete(queries, id)
              /\ ctx' = [ctx EXCEPT !.num_async = @ - 1]
              /\ IF queries[id] THEN Goto(a, next, 0) ELSE Goto(a, "callback-" \o next, id)
      /\ UNCHANGED <<qq_pipe, rr_pipe, bg, given, called, silenced, lost>>

Callback(a) ==
  /\ app[a].pc \in {"callback-idle", "callback-again"}
  /\ called' = Append(called, app[a].id)
  /\ Goto(a, IF app[a].pc = "callback-idle" THEN "idle" ELSE "again", 0)
  /\ UNCHANGED <<ctx, queries, rrlock, qq_pipe, rr_pipe, bg, given, silenced, lost>>

\* ub_ctx_delete, when no other thread uses the context: ub_stop_bg, that does not
\* look whether its command was written,
ub_ctx_delete(a, sent) ==
  /\ \A b \in App : Usable(b)
  /\ IF ctx.created_bg
     THEN /\ sent => Len(qq_pipe) < PipeSize
          /\ qq_pipe' = IF sent THEN Append(qq_pipe, Quit) ELSE qq_pipe
          /\ Goto(a, "stop", 0)
          /\ UNCHANGED <<ctx, queries>>
     ELSE /\ ctx' = [ctx EXCEPT !.deleted = TRUE]
          /\ queries' = << >>
          /\ UNCHANGED <<qq_pipe, app>>
  /\ UNCHANGED <<rrlock, rr_pipe, bg, given, called, silenced, lost>>

\* which discards results, until the worker confirms or, when it was a process that
\* ended, the pipe is closed,
StopRead(a) ==
  /\ app[a].pc = "stop"
  /\ \/ /\ rr_pipe # <<>>
        /\ rr_pipe' = Tail(rr_pipe)
        /\ Goto(a, IF Head(rr_pipe) = Quit THEN "join" ELSE "stop", 0)
     \/ /\ bg.pc = "dead" /\ ~ctx.dothread
        /\ Goto(a, "join", 0)
        /\ UNCHANGED rr_pipe
  /\ UNCHANGED <<ctx, queries, rrlock, qq_pipe, bg, given, called, silenced, lost>>

\* and waits for it to exit; then all is freed.
StopJoin(a) ==
  /\ app[a].pc = "join" /\ bg.pc \in {"none", "dead"}
  /\ ctx' = [ctx EXCEPT !.deleted = TRUE, !.created_bg = FALSE]
  /\ queries' = << >>
  /\ Goto(a, "idle", 0)
  /\ UNCHANGED <<rrlock, qq_pipe, rr_pipe, bg, given, called, silenced, lost>>

-----------------------------------------------------------------------------
(* The worker.  With fork it has its own tree and count. *)

\* The answer is put on the list to be written, or there is no memory for it; with
\* fork the query goes.
add_bg_result(b, id, ok) ==
  LET c == [b EXCEPT !.res_list = IF ok THEN Append(@, Msg("ANSWER", id)) ELSE @,
                     !.pc = "run", !.id = 0]
  IN  IF ctx.dothread THEN c
      ELSE [c EXCEPT !.tree = Delete(@, id), !.num_async = @ - 1]

\* handle_newq: the answer is known at once, or an error, or the mesh gets it.
handle_newq(id, now, ok) ==
  LET b == IF ctx.dothread THEN bg
           ELSE [bg EXCEPT !.tree = Insert(@, id), !.num_async = @ + 1]
  IN  IF ctx.dothread /\ id \notin DOMAIN queries THEN bg
      ELSE IF now THEN add_bg_result(b, id, ok)
      ELSE [b EXCEPT !.mesh = @ \cup {id}]

handle_cancel(id) ==
  IF id \in DOMAIN bg.tree THEN [bg EXCEPT !.tree[id] = TRUE] ELSE bg

libworker_do_cmd(now, ok) ==
  /\ bg.pc = "run"
  /\ qq_pipe # <<>>
  /\ qq_pipe' = Tail(qq_pipe)
  /\ LET m == Head(qq_pipe)
     IN  /\ bg' = CASE m.cmd = "NEWQUERY" -> handle_newq(m.id, now, ok)
                    [] m.cmd = "CANCEL"   -> handle_cancel(m.id)
                    [] m.cmd = "QUIT"     -> [bg EXCEPT !.pc = "quit"]
         /\ lost' = IF m.cmd = "NEWQUERY" /\ now /\ ~ok THEN lost \cup {m.id} ELSE lost
  /\ UNCHANGED <<ctx, queries, app, rrlock, rr_pipe, given, called, silenced>>

\* The mesh has the answer.  "cancelled" is read without the lock.
libworker_bg_done_cb(id) ==
  /\ bg.pc = "run" /\ id \in bg.mesh
  /\ LET cancelled == IF ctx.dothread THEN queries[id] ELSE bg.tree[id]
     IN  bg' = [bg EXCEPT !.mesh = @ \ {id}, !.id = id,
                          !.pc = IF ~cancelled THEN "result"
                                 ELSE IF ctx.dothread THEN "drop" ELSE "run"]
  /\ UNCHANGED <<ctx, queries, app, rrlock, qq_pipe, rr_pipe, given, called, silenced, lost>>

BgResult(ok) ==
  /\ bg.pc = "result"
  /\ bg' = add_bg_result(bg, bg.id, ok)
  /\ lost' = IF ok THEN lost ELSE lost \cup {bg.id}
  /\ UNCHANGED <<ctx, queries, app, rrlock, qq_pipe, rr_pipe, given, called, silenced>>

BgDrop ==
  /\ bg.pc = "drop"
  /\ queries' = Delete(queries, bg.id)
  /\ ctx' = [ctx EXCEPT !.num_async = @ - 1]
  /\ bg' = [bg EXCEPT !.pc = "run", !.id = 0]
  /\ UNCHANGED <<app, rrlock, qq_pipe, rr_pipe, given, called, silenced, lost>>

tube_handle_write ==
  /\ bg.pc = "run" /\ bg.res_list # <<>>
  /\ Len(rr_pipe) < PipeSize
  /\ rr_pipe' = Append(rr_pipe, Head(bg.res_list))
  /\ bg' = [bg EXCEPT !.res_list = Tail(@)]
  /\ UNCHANGED <<ctx, queries, app, rrlock, qq_pipe, given, called, silenced, lost>>

\* libworker_dobg after the event loop: results that were not written are
\* dropped, libworker_delete has the mesh call every query back, and those of a
\* thread are deleted.
BgCleanup ==
  /\ bg.pc = "quit"
  /\ bg' = [bg EXCEPT !.pc = "bye", !.res_list = <<>>, !.mesh = {}, !.tree = << >>,
                      !.num_async = 0]
  /\ IF ctx.dothread
     THEN /\ queries' = Restrict(queries, DOMAIN queries \ bg.mesh)
          /\ ctx' = [ctx EXCEPT !.num_async = @ - Cardinality(bg.mesh)]
     ELSE UNCHANGED <<ctx, queries>>
  /\ UNCHANGED <<app, rrlock, qq_pipe, rr_pipe, given, called, silenced, lost>>

BgExit ==
  /\ bg.pc = "bye"
  /\ Len(rr_pipe) < PipeSize
  /\ rr_pipe' = Append(rr_pipe, Quit)
  /\ bg' = [bg EXCEPT !.pc = "none"]
  /\ UNCHANGED <<ctx, queries, app, rrlock, qq_pipe, given, called, silenced, lost>>

-----------------------------------------------------------------------------

Init ==
  /\ ctx \in [dothread : BOOLEAN, created_bg : {FALSE}, num_async : {0},
              next_querynum : {0}, deleted : {FALSE}]
  /\ queries = << >>
  /\ app = [a \in App |-> [pc |-> "idle", id |-> 0]]
  /\ rrlock = "none"
  /\ qq_pipe = <<>> /\ rr_pipe = <<>>
  /\ bg = [pc |-> "none", id |-> 0, num_async |-> 0, tree |-> << >>, mesh |-> {},
           res_list |-> <<>>]
  /\ given = {} /\ called = <<>> /\ silenced = {} /\ lost = {}

\* A forked worker is used by one thread.
User == IF ctx.dothread THEN App ELSE {CHOOSE a \in App : TRUE}

Next ==
  \/ \E a \in User :
       \/ ub_resolve_async(a)
       \/ \E outcome \in {"run", "fail", "dead"} : libworker_bg(a, outcome)
       \/ context_new(a)
       \/ \E outcome \in {"sent", "nomem", "pipe"} : WriteNewQuery(a, outcome)
       \/ \E id \in given : ub_cancel(a, id)
       \/ \E sent \in BOOLEAN : WriteCancel(a, sent)
       \/ ub_process(a) \/ ub_wait(a) \/ WaitRead(a)
       \/ process_answer_detail(a) \/ Callback(a)
       \/ \E sent \in BOOLEAN : ub_ctx_delete(a, sent)
       \/ StopRead(a) \/ StopJoin(a)
  \/ \E now, ok \in BOOLEAN : libworker_do_cmd(now, ok)
  \/ \E id \in bg.mesh : libworker_bg_done_cb(id)
  \/ \E ok \in BOOLEAN : BgResult(ok)
  \/ BgDrop \/ tube_handle_write \/ BgCleanup \/ BgExit

-----------------------------------------------------------------------------

TypeOK ==
  /\ ctx.num_async \in 0 .. MaxQuery
  /\ ctx.next_querynum \in 0 .. MaxQuery
  /\ DOMAIN queries \subseteq QueryNum /\ DOMAIN bg.tree \subseteq QueryNum
  /\ bg.mesh \subseteq QueryNum
  /\ rrlock \in App \cup {"none"}
  /\ Len(qq_pipe) <= PipeSize /\ Len(rr_pipe) <= PipeSize
  /\ Len(bg.res_list) <= MaxQuery
  /\ rrlock # "none" => app[rrlock].pc \in {"wait", "waitanswer"}

\* num_async, on which ub_wait decides that all is done, counts the queries in
\* the tree; so does the count of a forked worker.
CountExact ==
  /\ ~ctx.deleted => ctx.num_async = Cardinality(DOMAIN queries)
  /\ bg.num_async = Cardinality(DOMAIN bg.tree)

\* The worker that is a thread uses no query that the application freed.
QueriesLive ==
  ctx.dothread /\ bg.pc \notin {"none", "dead"} =>
    /\ bg.mesh \subseteq DOMAIN queries
    /\ bg.pc \in {"result", "drop"} => bg.id \in DOMAIN queries

Requests(id) == SelectSeq(qq_pipe, LAMBDA m : m = Msg("NEWQUERY", id))
Answers(id) == SelectSeq(rr_pipe \o bg.res_list, LAMBDA m : m = Msg("ANSWER", id))

\* Until the context is deleted, a query in the tree is in one place on its way: it
\* is not answered twice, and it is nowhere only when its request or its answer
\* could not be written (UB_PIPE, or no memory for the answer).  Such a query stays
\* counted, and ub_wait waits for it.
OnItsWay ==
  (\A a \in App : app[a].pc \notin {"stop", "join"}) =>
    \A id \in DOMAIN queries :
      Len(Requests(id)) + Len(Answers(id))
      + (IF id \in bg.mesh THEN 1 ELSE 0)
      + (IF bg.pc \in {"result", "drop"} /\ bg.id = id THEN 1 ELSE 0)
      + Cardinality({a \in App : app[a].id = id})
      = IF id \in lost THEN 0 ELSE 1

\* A callback is called once at most, and not after ub_cancel returned no error.
CalledOnce ==
  /\ IsInjective(called)
  /\ Range(called) \cap silenced = {}

\* When the context is gone, the worker does not run.
DeletedWhole == ctx.deleted => bg.pc \in {"none", "dead"} /\ queries = << >>
=============================================================================
