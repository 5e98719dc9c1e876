----------------------------- MODULE MeshEvents -----------------------------
(***************************************************************************)
(* The events of the event loop keep the inductive invariant, for any sets *)
(* of queries, clients, callbacks and connections, any limits, and with or *)
(* without serve-expired, error reports and failures.                      *)
(***************************************************************************)
EXTENDS MeshDelete

\* The inductive invariant: that of the mesh record, the state being run
\* exists, and every state that is not being run waits for something.
IInv ==
  /\ Inv(mesh)
  /\ cur \in mesh.all \cup {NoState}
  /\ numrun \in Nat
  /\ Waits(mesh, {cur})

-----------------------------------------------------------------------------
(* The operators that are compositions of others. *)

LEMMA MoreWaits ==
  ASSUME NEW M, NEW X, NEW Y, Waits(M, X), X \subseteq Y
  PROVE  Waits(M, Y)
  BY DEF Waits

LEMMA NewSpaceInv ==
  ASSUME NEW M, Inv(M), HasSpace(M)
  PROVE  LET R == mesh_make_new_space(M)
         IN /\ Inv(R)
            /\ R.all \subseteq M.all
            /\ \A q \in M.all : M.list[q] = "no" => q \in R.all
            /\ Waiting(R) \subseteq Waiting(M)
            /\ \A X : Waits(M, X) => Waits(R, X)
<1> DEFINE R == mesh_make_new_space(M)
<1>1. CASE M.num_reply_states < max_reply_states
  <2>1. R = M
    BY <1>1 DEF mesh_make_new_space
  <2>2. QED
    BY <2>1
<1>2. CASE ~(M.num_reply_states < max_reply_states)
  <2> DEFINE q == M.first
             W == mesh_walk_supers(M, q)
  <2>1. q \in Query /\ M.list[q] = "jostle"
    BY <1>2 DEF HasSpace, Inv, MeshRecord
  <2>2. q \in M.all
    BY <2>1 DEF Inv, Inside
  <2>3. R = mesh_state_delete(W, q)
    BY <1>2 DEF mesh_make_new_space
  <2> HIDE DEF q
  <2>4. /\ Inv(W)
        /\ W.all = M.all /\ W.run = M.run \cup M.super[q]
        /\ W.sub = M.sub /\ W.super = M.super /\ SameWait(M, W)
        /\ W.at = M.at
    BY <2>1, WalkSupersInv
  <2> HIDE DEF W
  <2>5. /\ Inv(mesh_state_delete(W, q))
        /\ mesh_state_delete(W, q).all = W.all \ {q}
        /\ Waiting(mesh_state_delete(W, q)) \subseteq Waiting(W)
    BY <2>2, <2>4, DeleteInv
  <2> HIDE DEF R
  <2>6. ASSUME NEW X, Waits(M, X)
        PROVE  Waits(R, X)
    <3>1. Waits(W, X)
      BY <2>4, <2>6, KeepWaits DEF SameWait
    <3>2. Waits(W, X \cup {q})
      BY <3>1, MoreWaits
    <3>3. W.super[q] \subseteq W.run \cup X
      BY <2>4
    <3>4. QED
      BY SMTT(30), <2>2, <2>3, <2>4, <3>2, <3>3, DeleteWaits
  <2>7. \A p \in M.all : M.list[p] = "no" => p \in R.all
    BY <2>1, <2>3, <2>4, <2>5
  <2>8. Waiting(R) \subseteq Waiting(M)
    BY <2>3, <2>4, <2>5 DEF Waiting
  <2>9. QED
    BY SMTT(30), <2>3, <2>4, <2>5, <2>6, <2>7, <2>8 DEF R
<1>3. QED
  BY <1>1, <1>2

LEMMA SchedulePrefetchInv ==
  ASSUME NEW M, Inv(M), HasSpace(M), NEW q \in Query \ M.all
  PROVE  LET R == mesh_schedule_prefetch(M, q)
         IN /\ Inv(R)
            /\ q \in R.all
            /\ \A X : Waits(M, X) => Waits(R, X \cup {q})
<1> DEFINE N == mesh_make_new_space(M)
           C == mesh_state_create(N, q)
           S == SelectList(C, q)
           R == mesh_schedule_prefetch(M, q)
<1>1. /\ Inv(N) /\ N.all \subseteq M.all
      /\ \A X : Waits(M, X) => Waits(N, X)
  BY NewSpaceInv
<1> HIDE DEF N
<1>2. /\ Inv(C)
      /\ C.all = N.all \cup {q} /\ C.run = N.run /\ C.sub = N.sub
      /\ SameWait(N, C)
  BY <1>1, CreateInv
<1> HIDE DEF C
<1>3. Inv(S) /\ SameGraph(C, S) /\ SameWait(C, S)
  BY <1>2, SelectInv
<1> HIDE DEF S
<1>4. R = [S EXCEPT !.blacklist[q] = TRUE]
  BY DEF mesh_schedule_prefetch, S, C, N
<1>5. Tweaked(S, R, q) /\ R.outbound = S.outbound
  BY <1>3, <1>4, SetBlacklist DEF Inv
<1> HIDE DEF R
<1>6. q \in S.all
  BY <1>2, <1>3 DEF SameGraph
<1>7. Inv(R) /\ SameGraph(S, R)
  BY <1>3, <1>5, <1>6, TweakedInv
<1>8. ASSUME NEW X, Waits(M, X)
      PROVE  Waits(R, X \cup {q})
  <2>1. Waits(N, X \cup {q})
    BY <1>1, <1>8, MoreWaits
  <2>2. /\ R.sub = N.sub /\ R.outbound = N.outbound /\ R.run = N.run
        /\ R.all = N.all \cup {q}
    BY <1>2, <1>3, <1>5, <1>7 DEF SameGraph, SameWait
  <2>3. QED
    BY <2>1, <2>2, KeepWaits
<1>9. QED
  BY <1>6, <1>7, <1>8 DEF R, SameGraph

LEMMA QueryDoneInv ==
  ASSUME NEW M, Inv(M), NEW q \in Query, NEW K \in SUBSET Conn,
         NEW report \in Query \cup {NoState}
  PROVE  LET R == mesh_query_done(M, q, K, report)
         IN /\ Inv(R)
            /\ M.all \subseteq R.all
            /\ \A X : Waits(M, X) => Waits(R, X)
<1> DEFINE A == IF report = NoState THEN M ELSE mesh_add_sub(M, report)
           B == AnswerAll(A, q, K)
           R == mesh_query_done(M, q, K, report)
<1>1. /\ Inv(A) /\ M.all \subseteq A.all
      /\ A.sub = M.sub /\ A.outbound = M.outbound /\ M.run \subseteq A.run
      /\ A.all \ M.all \subseteq A.run
  <2>1. CASE report = NoState
    BY <2>1
  <2>2. CASE report # NoState
    <3> DEFINE D == mesh_add_sub(M, report)
    <3>1. /\ Inv(D) /\ D.all = M.all \cup {report} /\ M.run \subseteq D.run
          /\ report \notin M.all => report \in D.run
          /\ D.sub = M.sub /\ SameWait(M, D)
      BY <2>2, AddSubInv
    <3>2. A = D
      BY <2>2
    <3> HIDE DEF D, A
    <3>3. QED
      BY <3>1, <3>2 DEF SameWait
  <2>3. QED
    BY <2>1, <2>2
<1> HIDE DEF A
<1>2. Inv(B) /\ SameGraph(A, B) /\ SameWait(A, B)
  BY <1>1, AnswerAllInv
<1> HIDE DEF B
<1>3. R = [B EXCEPT !.timer[q] = FALSE]
  BY DEF mesh_query_done, A, B
<1>4. Inv(R) /\ SameGraph(B, R) /\ R.outbound = B.outbound
  BY <1>2, <1>3, SetTimerInv
<1> HIDE DEF R
<1>5. /\ R.sub = M.sub /\ R.outbound = M.outbound /\ M.run \subseteq R.run
      /\ R.all \ M.all \subseteq R.run /\ M.all \subseteq R.all
  BY <1>1, <1>2, <1>4 DEF SameGraph, SameWait
<1>6. QED
  BY <1>4, <1>5, KeepWaits DEF R

-----------------------------------------------------------------------------
(* How a handler ends. *)

LEMMA RemoveMeshStateInv ==
  ASSUME NEW M, Inv(M), NEW K, NEW q \in Query
  PROVE  LET R == tcp_req_info_remove_mesh_state(M, K, q)
         IN Inv(R) /\ SameGraph(M, R) /\ SameWait(M, R)
<1> DEFINE R == tcp_req_info_remove_mesh_state(M, K, q)
<1>1. /\ R \in MeshRecord
      /\ SameGraph(M, R) /\ SameList(M, R) /\ SameModule(M, R)
      /\ SameWait(M, R) /\ SameReply(M, R) /\ SameDetached(M, R)
  BY RemoveMeshStateFields DEF Inv
<1> HIDE DEF R
<1>2. Core(M, R) /\ Quiet(R) /\ R.run \subseteq R.all
  BY <1>1 DEF Core, SameGraph, SameList, SameReply, SameDetached, Inv,
              Inside, Quiet, SameModule, SameWait
<1>3. Inv(R)
  BY SMTT(30), <1>1, <1>2, CoreInv
<1>4. QED
  BY <1>1, <1>3 DEF R

\* The invariant of the next state, when its mesh is known.
LEMMA PrimedInv ==
  ASSUME NEW R, mesh' = R, Inv(R), cur' \in R.all \cup {NoState},
         numrun' \in Nat, Waits(R, {cur'})
  PROVE  IInv'
  BY DEF IInv, Inv, Waits, Inside, Quiet, InSync, Acyclic, Counted,
         Waiting, ReplyStates, Detached, Forever, IsReplyState, IsDetached

LEMMA StartRunInv ==
  ASSUME NEW R, NEW q \in R.all, Inv(R), Waits(R, {q}), StartRun(R, q)
  PROVE  IInv'
  BY PrimedInv DEF StartRun

LEMMA NoRunInv ==
  ASSUME NEW R, IInv, Inv(R), cur \in R.all \cup {NoState}, Waits(R, {cur}),
         NoRun(R)
  PROVE  IInv'
  BY PrimedInv DEF NoRun, IInv

\* A state is taken off the runnable tree to be run.
LEMMA PopRun ==
  ASSUME NEW M, Inv(M), NEW q \in M.run, Waits(M, {})
  PROVE  LET R == [M EXCEPT !.run = @ \ {q}]
         IN Inv(R) /\ q \in R.all /\ Waits(R, {q})
<1> DEFINE r == M.run \ {q}
           R == [M EXCEPT !.run = @ \ {q}]
<1>0. M \in MeshRecord /\ q \in M.all
  BY DEF Inv, Inside
<1>1. r \in SUBSET Query
  BY <1>0 DEF MeshRecord
<1>2. R = [M EXCEPT !.run = r]
  OBVIOUS
<1>3. r \subseteq M.run
  OBVIOUS
<1>4. \A p \in M.run : p # q => p \in r
  OBVIOUS
<1> HIDE DEF r, R
<1>5. R \in MeshRecord
  BY <1>0, <1>1, <1>2, ZenonT(40) DEF MeshRecord
<1>6. /\ Core(M, R) /\ R.run = r /\ R.age = M.age
      /\ R.outbound = M.outbound /\ R.timer = M.timer
  BY <1>0, <1>2 DEF MeshRecord, Core
<1>7. Quiet(R) /\ R.run \subseteq R.all
  BY <1>3, <1>6 DEF Inv, Quiet, Inside, Core
<1>8. Inv(R)
  BY <1>5, <1>6, <1>7, CoreInv
<1>9. Waits(R, {q})
  BY <1>4, <1>6 DEF Waits, Core
<1>10. QED
  BY <1>0, <1>6, <1>8, <1>9 DEF R, Core

LEMMA RunNextInv ==
  ASSUME NEW R, numrun \in Nat, Inv(R), Waits(R, {}), RunNext(R)
  PROVE  IInv'
<1>1. CASE R.run = {} /\ mesh' = R /\ cur' = NoState /\ numrun' = 0
  BY <1>1, PrimedInv, MoreWaits
<1>2. CASE \E q \in R.run : /\ mesh' = [R EXCEPT !.run = @ \ {q}]
                            /\ cur' = q
                            /\ numrun' = numrun + 1
  <2>1. PICK q \in R.run : /\ mesh' = [R EXCEPT !.run = @ \ {q}]
                           /\ cur' = q
                           /\ numrun' = numrun + 1
    BY ZenonT(40), <1>2
  <2> DEFINE P == [R EXCEPT !.run = @ \ {q}]
  <2>2. Inv(P) /\ q \in P.all /\ Waits(P, {q})
    BY PopRun
  <2>3. mesh' = P
    BY <2>1
  <2> HIDE DEF P
  <2>4. QED
    BY <2>1, <2>2, <2>3, PrimedInv
<1>3. QED
  BY <1>1, <1>2 DEF RunNext

-----------------------------------------------------------------------------
(* Events. *)

\* The mesh in which mesh_new_client looks for, or makes, the state.
LEMMA SpaceForInv ==
  ASSUME IInv, Idle, NEW q \in Query, Admitted(q)
  PROVE  LET R == SpaceFor(q)
         IN /\ Inv(R)
            /\ R.all \subseteq mesh.all
            /\ q \in mesh.all => q \in R.all
            /\ Waiting(R) \subseteq Waiting(mesh)
            /\ Waits(R, {NoState})
<1>1. Waits(mesh, {NoState}) /\ Inv(mesh)
  BY DEF IInv, Idle
<1>2. CASE NeedsSpace(q)
  <2>1. HasSpace(mesh) /\ SpaceFor(q) = mesh_make_new_space(mesh)
    BY <1>2 DEF Admitted, SpaceFor
  <2>2. q \in mesh.all => mesh.list[q] = "no"
    BY <1>2 DEF NeedsSpace
  <2>3. QED
    BY <1>1, <2>1, <2>2, NewSpaceInv
<1>3. CASE ~NeedsSpace(q)
  BY <1>1, <1>3 DEF SpaceFor
<1>4. QED
  BY <1>2, <1>3

LEMMA FindOrCreateInv ==
  ASSUME NEW M, Inv(M), NEW q \in Query, M.all \subseteq mesh.all,
         q \in mesh.all => q \in M.all, Waits(M, {NoState})
  PROVE  LET R == FindOrCreate(M, q)
         IN /\ Inv(R)
            /\ R.all = M.all \cup {q} /\ R.run = M.run /\ R.sub = M.sub
            /\ R.outbound = M.outbound /\ Waiting(R) = Waiting(M)
            /\ Waits(R, {q})
            /\ q \in mesh.all => Waits(R, {NoState})
<1>1. CASE q \in mesh.all
  <2>1. FindOrCreate(M, q) = M
    BY <1>1 DEF FindOrCreate
  <2>2. NoState \notin M.all
    BY MeshAssumption DEF Inv, MeshRecord
  <2>3. QED
    BY <1>1, <2>1, <2>2 DEF Waits
<1>2. CASE q \notin mesh.all
  <2> DEFINE R == mesh_state_create(M, q)
  <2>1. FindOrCreate(M, q) = R
    BY <1>2 DEF FindOrCreate
  <2>2. /\ Inv(R)
        /\ R.all = M.all \cup {q} /\ R.run = M.run /\ R.sub = M.sub
        /\ R.super = M.super /\ R.at = M.at /\ SameWait(M, R)
    BY <1>2, CreateInv
  <2> HIDE DEF R
  <2>3. NoState \notin M.all
    BY MeshAssumption DEF Inv, MeshRecord
  <2>4. QED
    BY SMTT(30), <1>2, <2>1, <2>2, <2>3 DEF Waits, Waiting, SameWait
<1>3. QED
  BY <1>1, <1>2

LEMMA NewClientInv ==
  ASSUME IInv, NEW c \in Client, NEW q \in Query, mesh_new_client(c, q)
  PROVE  IInv'
<1> DEFINE S == SpaceFor(q)
           F == FindOrCreate(S, q)
           A == mesh_state_add_reply(F, q, c)
           R == SelectList(A, q)
<1>0. Idle /\ Arrives(c) /\ Admitted(q)
  BY DEF mesh_new_client
<1>1. /\ Inv(S)
      /\ S.all \subseteq mesh.all /\ (q \in mesh.all => q \in S.all)
      /\ Waiting(S) \subseteq Waiting(mesh) /\ Waits(S, {NoState})
  BY ZenonT(40), <1>0, SpaceForInv
<1> HIDE DEF S
<1>2. /\ Inv(F)
      /\ F.all = S.all \cup {q} /\ F.run = S.run /\ F.sub = S.sub
      /\ Waiting(F) = Waiting(S)
      /\ Waits(F, {q}) /\ (q \in mesh.all => Waits(F, {NoState}))
  BY ZenonT(40), <1>1, FindOrCreateInv
<1> HIDE DEF F
<1>3. c \in Client \ Waiting(F) /\ q \in F.all
  BY <1>0, <1>1, <1>2 DEF Arrives, Waiting
<1>4. Inv(A) /\ SameGraph(F, A) /\ A.outbound = F.outbound
  BY <1>2, <1>3, AddReplyInv
<1> HIDE DEF A
<1>5. Inv(R) /\ SameGraph(A, R) /\ SameWait(A, R)
  BY <1>3, <1>4, SelectInv DEF SameGraph
<1>6. /\ R.sub = F.sub /\ R.run = F.run /\ R.all = F.all
      /\ R.outbound = F.outbound
  BY <1>4, <1>5 DEF SameGraph, SameWait
<1>7. IF q \in mesh.all THEN NoRun(R) ELSE StartRun(R, q)
  BY DEF mesh_new_client, S, F, A
<1> HIDE DEF R
<1>8. CASE q \in mesh.all
  <2>1. Waits(R, {NoState})
    BY SMTT(30), <1>2, <1>6, <1>8, KeepWaits
  <2>2. QED
    BY SMTT(30), <1>0, <1>5, <1>7, <1>8, <2>1, NoRunInv DEF Idle
<1>9. CASE q \notin mesh.all
  <2>1. Waits(R, {q})
    BY <1>2, <1>6, KeepWaits
  <2>2. QED
    BY SMTT(30), <1>3, <1>5, <1>6, <1>7, <1>9, <2>1, StartRunInv
<1>10. QED
  BY <1>8, <1>9

LEMMA DroppedInv ==
  ASSUME IInv, NEW c \in Client, NEW q \in Query, mesh_new_client_dropped(c, q)
  PROVE  IInv'
<1> DEFINE K == {ConnOf[c]} \ {UDP}
           R == tcp_req_info_clear(mesh, K)
<1>1. K \in SUBSET Conn
  BY MeshAssumption
<1>2. Idle /\ NoRun(R)
  BY DEF mesh_new_client_dropped
<1> HIDE DEF K
<1>3. Inv(R) /\ SameGraph(mesh, R) /\ SameWait(mesh, R)
  BY <1>1, ReqInfoClearInv DEF IInv
<1> HIDE DEF R
<1>4. Waits(R, {cur})
  BY <1>3, KeepWaits DEF IInv, SameGraph, SameWait
<1>5. QED
  BY <1>2, <1>3, <1>4, NoRunInv DEF Idle

\* A state that has no place on a list is still there when room was made.
LEMMA SpaceForKeeps ==
  ASSUME IInv, Idle, NEW q \in Query, Admitted(q)
  PROVE  LET R == SpaceFor(q)
         IN Inv(R) /\ Waits(R, {cur}) /\ (q \in mesh.all => q \in R.all)
  BY SMTT(30), SpaceForInv DEF Idle

LEMMA NoMemInv ==
  ASSUME IInv, NEW c \in Client, NEW q \in Query, mesh_new_client_nomem(c, q)
  PROVE  IInv'
<1> DEFINE S == SpaceFor(q)
           R == [S EXCEPT !.age[q] = "fresh"]
<1>0. Idle /\ Admitted(q)
  BY DEF mesh_new_client_nomem
<1>1. Inv(S) /\ Waits(S, {cur}) /\ (q \in mesh.all => q \in S.all)
  BY <1>0, SpaceForKeeps
<1>2. NoRun(S) \/ (q \in mesh.all /\ NoRun(R))
  BY DEF mesh_new_client_nomem
<1> HIDE DEF S
<1>3. CASE NoRun(S)
  BY SMTT(30), <1>0, <1>1, <1>3, NoRunInv DEF Idle
<1>4. CASE q \in mesh.all /\ NoRun(R)
  <2>1. Tweaked(S, R, q) /\ R.outbound = S.outbound
    BY ZenonT(40), <1>1, SetAge DEF Inv
  <2> HIDE DEF R
  <2>2. Inv(R) /\ SameGraph(S, R)
    BY <1>1, <1>4, <2>1, TweakedInv
  <2>3. Waits(R, {cur})
    BY <1>1, <2>1, <2>2, KeepWaits DEF SameGraph
  <2>4. QED
    BY SMTT(30), <1>0, <1>4, <2>2, <2>3, NoRunInv DEF Idle
<1>5. QED
  BY <1>2, <1>3, <1>4

LEMMA NoTimerInv ==
  ASSUME IInv, NEW c \in Client, NEW q \in Query, mesh_new_client_notimer(c, q)
  PROVE  IInv'
<1> DEFINE S == SpaceFor(q)
           K == {ConnOf[c]} \ {UDP}
           T == tcp_req_info_remove_mesh_state(S, K, q)
           a == IF q \in mesh.all /\ T.age[q] = "none" THEN "fresh" ELSE T.age[q]
           R == [T EXCEPT !.age[q] = a]
<1>0. Idle /\ Admitted(q)
  BY DEF mesh_new_client_notimer
<1>1. Inv(S) /\ Waits(S, {cur}) /\ (q \in mesh.all => q \in S.all)
  BY <1>0, SpaceForKeeps
<1>2. NoRun(R)
  BY DEF mesh_new_client_notimer
<1>3. K \in SUBSET Conn
  BY MeshAssumption
<1> HIDE DEF S, K
<1>4. Inv(T) /\ SameGraph(S, T) /\ SameWait(S, T)
  BY SMTT(30), <1>1, <1>3, RemoveMeshStateInv
<1> HIDE DEF T
<1>5. a \in {"none", "fresh", "old"} /\ T \in MeshRecord
  BY <1>4 DEF Inv, MeshRecord
<1>6. q \notin mesh.all => a = T.age[q]
  OBVIOUS
<1> HIDE DEF a
<1>7. Tweaked(T, R, q) /\ R.outbound = T.outbound
  BY ZenonT(40), <1>5, SetAge
<1>8. CASE q \in mesh.all
  <2>1. q \in T.all
    BY <1>1, <1>4, <1>8 DEF SameGraph
  <2> HIDE DEF R
  <2>2. Inv(R) /\ SameGraph(T, R)
    BY <1>4, <1>7, <2>1, TweakedInv
  <2>3. Waits(R, {cur})
    BY SMTT(30), <1>1, <1>4, <1>7, <2>2, KeepWaits DEF SameGraph, SameWait
  <2>4. QED
    BY <1>0, <1>2, <2>2, <2>3, NoRunInv DEF Idle
<1>9. CASE q \notin mesh.all
  <2>1. R = T
    BY SMTT(30), <1>5, <1>6, <1>9 DEF MeshRecord
  <2>2. Waits(T, {cur})
    BY SMTT(30), <1>1, <1>4, KeepWaits DEF SameGraph, SameWait
  <2> HIDE DEF R
  <2>3. QED
    BY SMTT(30), <1>0, <1>2, <1>4, <2>1, <2>2, NoRunInv DEF Idle
<1>10. QED
  BY <1>8, <1>9

LEMMA NewCallbackInv ==
  ASSUME IInv, NEW b \in Callback, NEW q \in Query, mesh_new_callback(b, q)
  PROVE  IInv'
<1> DEFINE F == FindOrCreate(mesh, q)
           R == AddWaiter(F, q, b)
<1>0. Idle /\ mesh.at[b] = NoState
  BY DEF mesh_new_callback
<1>1. Inv(mesh) /\ Waits(mesh, {NoState})
  BY <1>0 DEF IInv, Idle
<1>2. /\ Inv(F)
      /\ F.all = mesh.all \cup {q} /\ Waiting(F) = Waiting(mesh)
      /\ Waits(F, {q}) /\ (q \in mesh.all => Waits(F, {NoState}))
  BY <1>1, FindOrCreateInv
<1> HIDE DEF F
<1>3. b \in Waiter \ Waiting(F) /\ q \in F.all
  BY <1>0, <1>2 DEF Waiting, Waiter
<1>4. Inv(R) /\ SameGraph(F, R) /\ R.outbound = F.outbound
  BY SMTT(30), <1>2, <1>3, AddWaiterInv
<1>5. IF q \in mesh.all THEN NoRun(R) ELSE StartRun(R, q)
  BY DEF mesh_new_callback, F
<1> HIDE DEF R
<1>6. /\ R.sub = F.sub /\ R.run = F.run /\ R.all = F.all
      /\ R.outbound = F.outbound
  BY <1>4 DEF SameGraph
<1>7. CASE q \in mesh.all
  <2>1. Waits(R, {NoState})
    BY SMTT(30), <1>2, <1>6, <1>7, KeepWaits
  <2>2. QED
    BY SMTT(30), <1>0, <1>4, <1>5, <1>7, <2>1, NoRunInv DEF Idle
<1>8. CASE q \notin mesh.all
  <2>1. Waits(R, {q})
    BY SMTT(30), <1>2, <1>6, KeepWaits
  <2>2. QED
    BY SMTT(30), <1>3, <1>4, <1>5, <1>6, <1>8, <2>1, StartRunInv
<1>9. QED
  BY <1>7, <1>8

LEMMA RemoveCallbackInv ==
  ASSUME IInv, NEW b \in Callback, mesh_remove_callback(b)
  PROVE  IInv'
<1> DEFINE R == mesh_state_remove_reply(mesh, {b})
<1>1. Idle /\ NoRun(R) /\ {b} \in SUBSET Waiting(mesh)
  BY DEF mesh_remove_callback, Waiting, Waiter
<1>2. Inv(R)
  BY SMTT(30), <1>1, RemoveReplyInv DEF IInv
<1>3. SameGraph(mesh, R) /\ SameWait(mesh, R)
  BY ZenonT(40), <1>1, RemoveReplyFields DEF IInv, Inv, Waiting
<1> HIDE DEF R
<1>4. Waits(R, {cur})
  BY <1>3, KeepWaits DEF IInv, SameGraph, SameWait
<1>5. QED
  BY SMTT(30), <1>1, <1>2, <1>4, NoRunInv DEF Idle

LEMMA NewPrefetchInv ==
  ASSUME IInv, NEW q \in Query, mesh_new_prefetch(q)
  PROVE  IInv'
<1>0. Idle /\ Inv(mesh) /\ Waits(mesh, {cur})
  BY DEF mesh_new_prefetch, IInv
<1>1. CASE q \in mesh.all /\ NoRun([mesh EXCEPT !.blacklist[q] = TRUE])
  <2> DEFINE R == [mesh EXCEPT !.blacklist[q] = TRUE]
  <2>1. Tweaked(mesh, R, q) /\ R.outbound = mesh.outbound
    BY <1>0, SetBlacklist DEF Inv
  <2>2. NoRun(R)
    BY <1>1
  <2> HIDE DEF R
  <2>3. Inv(R) /\ SameGraph(mesh, R)
    BY SMTT(30), <1>0, <1>1, <2>1, TweakedInv
  <2>4. Waits(R, {cur})
    BY SMTT(30), <1>0, <2>1, <2>3, KeepWaits DEF SameGraph
  <2>5. QED
    BY <1>0, <2>2, <2>3, <2>4, NoRunInv DEF Idle
<1>2. CASE /\ q \notin mesh.all /\ HasSpace(mesh)
           /\ StartRun(mesh_schedule_prefetch(mesh, q), q)
  <2> DEFINE R == mesh_schedule_prefetch(mesh, q)
  <2>1. Inv(R) /\ q \in R.all /\ \A X : Waits(mesh, X) => Waits(R, X \cup {q})
    BY SMTT(30), <1>0, <1>2, SchedulePrefetchInv
  <2>2. StartRun(R, q)
    BY SMTT(30), <1>2
  <2>3. Waits(mesh, {})
    BY SMTT(60), <1>0, MeshAssumption DEF Idle, Inv, MeshRecord, Waits
  <2> HIDE DEF R
  <2>4. Waits(R, {q})
    <3>1. Waits(R, {} \cup {q})
      BY <2>1, <2>3
    <3>2. {} \cup {q} = {q}
      OBVIOUS
    <3>3. QED
      BY <3>1, <3>2
  <2>5. QED
    BY SMTT(30), <2>1, <2>2, <2>4, StartRunInv
<1>3. CASE HasSpace(mesh) /\ NoRun(mesh_make_new_space(mesh))
  <2> DEFINE R == mesh_make_new_space(mesh)
  <2>1. Inv(R) /\ Waits(R, {cur}) /\ NoRun(R)
    BY SMTT(30), <1>0, <1>3, NewSpaceInv
  <2> HIDE DEF R
  <2>2. QED
    BY SMTT(30), <1>0, <2>1, NoRunInv DEF Idle
<1>4. QED
  BY <1>1, <1>2, <1>3 DEF mesh_new_prefetch

LEMMA ReportReplyInv ==
  ASSUME IInv, NEW q \in Query, mesh_report_reply(q)
  PROVE  IInv'
<1>1. PICK more \in BOOLEAN : StartRun([mesh EXCEPT !.outbound[q] = more], q)
  BY DEF mesh_report_reply
<1> DEFINE R == [mesh EXCEPT !.outbound[q] = more]
<1>2. StartRun(R, q)
  BY <1>1
<1>3. Tweaked(mesh, R, q)
  BY SetOutbound DEF IInv, Inv
<1> HIDE DEF R
<1>4. Idle /\ q \in mesh.all
  BY DEF mesh_report_reply, IInv, Inv, Quiet
<1>5. Inv(R) /\ SameGraph(mesh, R)
  BY SMTT(30), <1>3, <1>4, TweakedInv DEF IInv
<1>6. Waits(R, {q})
  <2>1. NoState \notin mesh.all /\ mesh.all \subseteq Query
    BY MeshAssumption DEF IInv, Inv, MeshRecord
  <2>2. QED
    BY SMTT(30), <1>3, <1>4, <1>5, <2>1
       DEF IInv, Idle, Waits, SameGraph, Tweaked
<1>7. QED
  BY SMTT(30), <1>2, <1>4, <1>5, <1>6, StartRunInv DEF SameGraph

LEMMA ServeExpiredInv ==
  ASSUME IInv, NEW q \in Query, mesh_serve_expired_callback(q)
  PROVE  IInv'
<1> DEFINE T == [mesh EXCEPT !.timer[q] = FALSE]
<1>0. Idle /\ Inv(mesh) /\ Waits(mesh, {cur})
  BY DEF mesh_serve_expired_callback, IInv
<1>1. \/ NoRun(T)
      \/ \E K \in SUBSET ConnsOf(mesh, q) : NoRun(AnswerAll(T, q, K))
  BY ZenonT(40) DEF mesh_serve_expired_callback
<1>2. Inv(T) /\ SameGraph(mesh, T) /\ T.outbound = mesh.outbound
  BY <1>0, SetTimerInv
<1> HIDE DEF T
<1>3. Waits(T, {cur})
  BY <1>0, <1>2, KeepWaits DEF SameGraph
<1>4. CASE NoRun(T)
  BY SMTT(30), <1>0, <1>2, <1>3, <1>4, NoRunInv DEF Idle
<1>5. ASSUME NEW K \in SUBSET ConnsOf(mesh, q), NoRun(AnswerAll(T, q, K))
      PROVE  IInv'
  <2> DEFINE R == AnswerAll(T, q, K)
  <2>1. K \in SUBSET Conn
    BY ConnsOfType
  <2>2. Inv(R) /\ SameGraph(T, R) /\ SameWait(T, R)
    BY <1>2, <2>1, AnswerAllInv
  <2>3. NoRun(R)
    BY <1>5
  <2> HIDE DEF R
  <2>4. Waits(R, {cur})
    BY <1>3, <2>2, KeepWaits DEF SameGraph, SameWait
  <2>5. QED
    BY SMTT(30), <1>0, <2>2, <2>3, <2>4, NoRunInv DEF Idle
<1>6. QED
  BY <1>1, <1>4, <1>5

LEMMA TimePassesInv ==
  ASSUME IInv, NEW q \in Query, TimePasses(q)
  PROVE  IInv'
<1> DEFINE R == [mesh EXCEPT !.age[q] = "old"]
<1>1. NoRun(R)
  BY DEF TimePasses
<1>2. Tweaked(mesh, R, q) /\ R.outbound = mesh.outbound
  BY ZenonT(40), SetAge DEF IInv, Inv
<1> HIDE DEF R
<1>3. Idle /\ q \in mesh.all
  BY DEF TimePasses, IInv, Inv, Quiet
<1>4. Inv(R) /\ SameGraph(mesh, R)
  BY SMTT(30), <1>2, <1>3, TweakedInv DEF IInv
<1>5. Waits(R, {cur})
  BY <1>2, <1>4, KeepWaits DEF IInv, SameGraph
<1>6. QED
  BY SMTT(30), <1>1, <1>3, <1>4, <1>5, NoRunInv DEF Idle

LEMMA AcceptInv ==
  ASSUME IInv, NEW k \in Conn, Accept(k)
  PROVE  IInv'
<1> DEFINE u == mesh.up \cup {k}
           R == [mesh EXCEPT !.up = @ \cup {k}]
<1>0. Idle /\ NoRun(R) /\ Inv(mesh) /\ Waits(mesh, {cur}) /\ mesh \in MeshRecord
  BY DEF Accept, IInv, Inv
<1>1. u \in SUBSET Conn
  BY <1>0 DEF MeshRecord
<1>2. R = [mesh EXCEPT !.up = u]
  OBVIOUS
<1> HIDE DEF u, R
<1>3. R \in MeshRecord
  BY <1>0, <1>1, <1>2, ZenonT(40) DEF MeshRecord
<1>4. /\ Core(mesh, R) /\ R.run = mesh.run /\ R.age = mesh.age
      /\ R.outbound = mesh.outbound /\ R.timer = mesh.timer
  BY SMTT(30), <1>0, <1>2 DEF MeshRecord, Core
<1>5. Quiet(R) /\ R.run \subseteq R.all
  BY <1>0, <1>4 DEF Inv, Quiet, Inside, Core
<1>6. Inv(R)
  BY SMTT(30), <1>0, <1>3, <1>4, <1>5, CoreInv
<1>7. Waits(R, {cur})
  BY SMTT(30), <1>0, <1>4, KeepWaits DEF Core
<1>8. QED
  BY <1>0, <1>6, <1>7, NoRunInv DEF Idle

LEMMA CloseInv ==
  ASSUME IInv, NEW k \in Conn, comm_point_close(k)
  PROVE  IInv'
<1> DEFINE R == tcp_req_info_clear(mesh, {k})
<1>1. Idle /\ NoRun(R)
  BY DEF comm_point_close
<1>2. Inv(R) /\ SameGraph(mesh, R) /\ SameWait(mesh, R)
  BY ReqInfoClearInv DEF IInv
<1> HIDE DEF R
<1>3. Waits(R, {cur})
  BY SMTT(30), <1>2, KeepWaits DEF IInv, SameGraph, SameWait
<1>4. QED
  BY SMTT(30), <1>1, <1>2, <1>3, NoRunInv DEF Idle

\* The empty mesh.
LEMMA CreateMeshInv ==
  ASSUME NEW up \in SUBSET Conn, NEW open \in [Conn -> SUBSET Query]
  PROVE  LET R == mesh_create(up, open)
         IN Inv(R) /\ \A X : Waits(R, X)
<1> DEFINE R == mesh_create(up, open)
<1>1. R \in MeshRecord
  <2>1. /\ {} \in SUBSET Query /\ NoState \in Query \cup {NoState}
        /\ [q \in Query |-> {}] \in [Query -> SUBSET Query]
        /\ [w \in Waiter |-> NoState] \in [Waiter -> Query \cup {NoState}]
        /\ [q \in Query |-> "no"] \in [Query -> {"no", "forever", "jostle"}]
        /\ [q \in Query |-> NoState] \in [Query -> Query \cup {NoState}]
        /\ [q \in Query |-> "none"] \in [Query -> {"none", "fresh", "old"}]
        /\ [q \in Query |-> FALSE] \in [Query -> BOOLEAN]
    BY ZenonT(60)
  <2>2. 0 \in Int /\ [q \in Query |-> 0] \in [Query -> Nat]
    BY SMTT(30)
  <2>3. QED
    BY ZenonT(60), <2>1, <2>2 DEF mesh_create, MeshRecord
<1>2. /\ R.all = {} /\ R.run = {}
      /\ R.sub = [q \in Query |-> {}] /\ R.super = [q \in Query |-> {}]
      /\ R.at = [w \in Waiter |-> NoState]
      /\ R.list = [q \in Query |-> "no"]
      /\ R.age = [q \in Query |-> "none"]
      /\ R.num_reply_addrs = 0 /\ R.num_reply_states = 0
      /\ R.num_detached_states = 0 /\ R.num_forever_states = 0
      /\ R.outbound = [q \in Query |-> FALSE]
      /\ R.timer = [q \in Query |-> FALSE]
  BY ZenonT(40) DEF mesh_create
<1> HIDE DEF R
<1>3. Inside(R) /\ Quiet(R) /\ InSync(R) /\ Acyclic(R)
  BY SMTT(30), <1>2, MeshAssumption DEF Inside, Quiet, InSync, Acyclic
<1>4. Counted(R)
  <2>1. /\ Waiting(R) = {} /\ ReplyStates(R) = {} /\ Detached(R) = {}
        /\ Forever(R) = {}
    <3>1. Waiting(R) = {}
      BY SMTT(30), <1>2 DEF Waiting
    <3>2. Detached(R) = {} /\ \A q \in Query : ~IsReplyState(R, q)
      BY SMTT(30), <1>2, MeshAssumption DEF Detached, IsReplyState, Waiters
    <3>3. Forever(R) = {}
      BY <1>2 DEF Forever
    <3>4. QED
      BY SMTT(30), <3>1, <3>2, <3>3 DEF ReplyStates
  <2>2. Cardinality({}) = 0
    BY FS_EmptySet
  <2>3. QED
    BY ZenonT(60), <1>2, <2>1, <2>2 DEF Counted
<1>5. QED
  BY ZenonT(60), <1>1, <1>2, <1>3, <1>4 DEF R, Inv, Waits

LEMMA DeleteAllInv ==
  ASSUME IInv, mesh_delete_all
  PROVE  IInv'
<1> DEFINE K == {ConnOf[c] : c \in {d \in Client : mesh.at[d] # NoState}} \ {UDP}
           u == mesh.up \ K
           o == [k \in Conn |-> IF k \in K THEN {} ELSE mesh.open[k]]
           R == mesh_create(u, o)
<1>1. Idle /\ NoRun(R)
  BY ZenonT(60) DEF mesh_delete_all
<1> HIDE DEF K
<1>2. u \in SUBSET Conn /\ o \in [Conn -> SUBSET Query]
  BY DEF IInv, Inv, MeshRecord
<1> HIDE DEF u, o
<1>3. Inv(R) /\ Waits(R, {cur})
  BY <1>2, CreateMeshInv
<1> HIDE DEF R
<1>4. QED
  BY SMTT(30), <1>1, <1>3, NoRunInv DEF Idle

LEMMA InitInv ==
  ASSUME Init
  PROVE  IInv
<1> DEFINE R == mesh_create({}, [k \in Conn |-> {}])
<1>1. Inv(R) /\ \A X : Waits(R, X)
  BY CreateMeshInv
<1>2. mesh = R /\ cur = NoState /\ numrun = 0
  BY DEF Init
<1> HIDE DEF R
<1>3. QED
  BY <1>1, <1>2 DEF IInv

=============================================================================
