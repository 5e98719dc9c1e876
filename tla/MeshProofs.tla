----------------------------- MODULE MeshProofs -----------------------------
(***************************************************************************)
(* Theorems about the mesh: every action of Mesh keeps the invariant, for  *)
(* any sets of queries, clients, callbacks and connections, any limits,    *)
(* and with or without serve-expired, error reports and failures.          *)
(***************************************************************************)
EXTENDS MeshEvents

-----------------------------------------------------------------------------
(* A module operates. *)

LEMMA AttachSubInv ==
  ASSUME IInv, NEW s \in Query, mesh_attach_sub(s)
  PROVE  IInv'
<1> DEFINE A == mesh_add_sub(mesh, s)
           R == mesh_state_attachment(A, cur, s)
<1>0. /\ cur # NoState /\ (s \notin mesh.all \/ NotInSubsub(mesh, s, cur))
      /\ NoRun(R) \/ NoRun(A)
  BY DEF mesh_attach_sub, Running
<1>1. /\ Inv(mesh) /\ cur \in mesh.all /\ Waits(mesh, {cur})
      /\ mesh \in MeshRecord
  BY <1>0 DEF IInv, Inv
<1>2. /\ Inv(A)
      /\ A.all = mesh.all \cup {s} /\ mesh.run \subseteq A.run
      /\ s \notin mesh.all => s \in A.run
      /\ A.sub = mesh.sub /\ A.super = mesh.super /\ SameWait(mesh, A)
  BY <1>1, AddSubInv
<1> HIDE DEF A
<1>3. Waits(A, {cur})
  BY <1>1, <1>2, KeepWaits DEF SameWait
<1>4. NotInSubsub(A, s, cur)
  <2>1. CASE s \notin mesh.all
    <3>1. mesh.sub[s] = {} /\ s # cur
      BY <1>1, <2>1 DEF Inv, InSync, MeshRecord
    <3>2. /\ {s} \in SUBSET Query /\ s \in {s} /\ cur \notin {s}
          /\ \A x \in {s} : A.sub[x] \subseteq {s}
      BY <1>2, <3>1
    <3>3. QED
      BY <3>2, Zenon DEF NotInSubsub
  <2>2. CASE NotInSubsub(mesh, s, cur)
    BY <1>2, <2>2 DEF NotInSubsub
  <2>3. QED
    BY <1>0, <2>1, <2>2
<1>5. /\ Inv(R)
      /\ R.all = A.all /\ R.run = A.run /\ SameWait(A, R)
      /\ \A x \in Query : A.sub[x] \subseteq R.sub[x]
  BY SMTT(30), <1>1, <1>2, <1>4, AttachmentInv
<1> HIDE DEF R
<1>6. Waits(R, {cur})
  BY SMTT(30), <1>2, <1>3, <1>5 DEF Waits, SameWait, Inv, MeshRecord
<1>7. CASE NoRun(R)
  BY SMTT(30), <1>1, <1>2, <1>5, <1>6, <1>7, NoRunInv
<1>8. CASE NoRun(A)
  BY SMTT(30), <1>1, <1>2, <1>3, <1>8, NoRunInv
<1>9. QED
  BY <1>0, <1>7, <1>8

LEMMA KillSubInv ==
  ASSUME IInv, NEW s \in Query, KillSub(s)
  PROVE  IInv'
<1> DEFINE R == mesh_state_delete(mesh, s)
<1>0. /\ cur # NoState /\ s \in mesh.sub[cur] /\ mesh.super[s] = {cur}
      /\ NoRun(R)
  BY DEF KillSub, Running
<1>1. Inv(mesh) /\ cur \in mesh.all /\ cur \in Query
  BY <1>0 DEF IInv, Inv, MeshRecord
<1>2. s # cur /\ s \in mesh.all
  BY <1>0, <1>1, NoSelfSub DEF Inv, InSync
<1>3. Inv(R) /\ R.all = mesh.all \ {s}
  BY <1>1, <1>2, DeleteInv
<1>4. Waits(mesh, {cur} \cup {s})
  BY MoreWaits DEF IInv
<1>5. Waits(R, {cur})
  BY SMTT(30), <1>0, <1>1, <1>2, <1>4, DeleteWaits
<1> HIDE DEF R
<1>6. QED
  BY SMTT(30), <1>0, <1>1, <1>2, <1>3, <1>5, NoRunInv

LEMMA DetachSubsInv ==
  ASSUME IInv, DetachSubs
  PROVE  IInv'
<1> DEFINE R == mesh_detach_subs(mesh, cur)
<1>0. cur # NoState /\ NoRun(R)
  BY DEF DetachSubs, Running
<1>1. Inv(mesh) /\ cur \in mesh.all /\ cur \in Query /\ mesh \in MeshRecord
  BY <1>0 DEF IInv, Inv, MeshRecord
<1>2. /\ Inv(R)
      /\ R.all = mesh.all /\ R.run = mesh.run /\ SameWait(mesh, R)
      /\ R.sub = [mesh.sub EXCEPT ![cur] = {}]
  BY <1>1, DetachInv
<1> HIDE DEF R
<1>3. Waits(R, {cur})
  BY SMTT(30), <1>1, <1>2 DEF IInv, Waits, SameWait, MeshRecord
<1>4. QED
  BY <1>0, <1>1, <1>2, <1>3, NoRunInv

LEMMA RespondExpiredInv ==
  ASSUME IInv, mesh_respond_serve_expired
  PROVE  IInv'
<1>0. /\ Inv(mesh) /\ cur \in mesh.all /\ cur \in Query
      /\ Waits(mesh, {cur})
  BY DEF IInv, Inv, MeshRecord, mesh_respond_serve_expired, Running
<1>1. PICK K \in SUBSET ConnsOf(mesh, cur) :
        NoRun([AnswerAll(mesh, cur, K) EXCEPT !.timer[cur] = FALSE])
  BY ZenonT(40) DEF mesh_respond_serve_expired
<1> DEFINE A == AnswerAll(mesh, cur, K)
           R == [A EXCEPT !.timer[cur] = FALSE]
<1>2. K \in SUBSET Conn
  BY ConnsOfType
<1>3. Inv(A) /\ SameGraph(mesh, A) /\ SameWait(mesh, A)
  BY <1>0, <1>2, AnswerAllInv
<1>4. NoRun(R)
  BY <1>1
<1> HIDE DEF A
<1>5. Inv(R) /\ SameGraph(A, R) /\ R.outbound = A.outbound
  BY <1>0, <1>3, SetTimerInv
<1> HIDE DEF R
<1>6. Waits(R, {cur})
  BY <1>0, <1>3, <1>5, KeepWaits DEF SameGraph, SameWait
<1>7. QED
  BY ZenonT(60), <1>0, <1>3, <1>4, <1>5, <1>6, NoRunInv DEF SameGraph

-----------------------------------------------------------------------------
(* A module exits. *)

\* The activation is counted; nothing else changes.
LEMMA ActivatedInv ==
  ASSUME IInv, cur # NoState
  PROVE  /\ Inv(Activated) /\ SameGraph(mesh, Activated)
         /\ Activated.outbound = mesh.outbound
         /\ Activated.curmod = mesh.curmod
         /\ cur \in Activated.all /\ cur \in Query
         /\ Waits(Activated, {cur})
<1> DEFINE n == mesh.num_activated[cur] + 1
           R == [mesh EXCEPT !.num_activated[cur] = n]
<1>1. /\ Inv(mesh) /\ mesh \in MeshRecord /\ cur \in mesh.all /\ cur \in Query
      /\ Waits(mesh, {cur})
  BY DEF IInv, Inv, MeshRecord
<1>2. n \in Nat
  BY <1>1 DEF MeshRecord
<1>3. Activated = R
  BY DEF Activated
<1> HIDE DEF n
<1>4. /\ Tweaked(mesh, R, cur)
      /\ R.outbound = mesh.outbound /\ R.curmod = mesh.curmod
  BY <1>1, <1>2, SetActivated
<1> HIDE DEF R
<1>5. Inv(R) /\ SameGraph(mesh, R)
  BY <1>1, <1>4, TweakedInv
<1>6. Waits(R, {cur})
  BY <1>1, <1>4, <1>5, KeepWaits DEF SameGraph
<1>7. QED
  BY SMTT(30), <1>1, <1>3, <1>4, <1>5, <1>6 DEF SameGraph

LEMMA WaitReplyInv ==
  ASSUME IInv, WaitReply
  PROVE  IInv'
<1> DEFINE A == Activated
           R == [A EXCEPT !.outbound[cur] = TRUE]
<1>0. cur # NoState /\ numrun \in Nat /\ RunNext(R)
  BY DEF WaitReply, Running, IInv
<1>1. Inv(A) /\ cur \in A.all /\ cur \in Query /\ Waits(A, {cur})
  BY <1>0, ActivatedInv
<1> HIDE DEF A
<1>2. Tweaked(A, R, cur) /\ R.outbound[cur] = TRUE
  BY ZenonT(40), <1>1, SetOutbound DEF Inv
<1> HIDE DEF R
<1>3. Inv(R) /\ SameGraph(A, R)
  BY <1>1, <1>2, TweakedInv
<1>4. Waits(R, {})
  <2>1. A.all \subseteq Query
    BY <1>1 DEF Inv, MeshRecord
  <2>2. QED
    BY <1>1, <1>2, <1>3, <2>1 DEF Waits, SameGraph, Tweaked
<1>5. QED
  BY SMTT(30), <1>0, <1>3, <1>4, RunNextInv

LEMMA WaitSubqueryInv ==
  ASSUME IInv, WaitSubquery
  PROVE  IInv'
<1> DEFINE A == Activated
<1>0. cur # NoState /\ numrun \in Nat /\ RunNext(A) /\ mesh.sub[cur] # {}
  BY DEF WaitSubquery, Running, IInv
<1>1. Inv(A) /\ SameGraph(mesh, A) /\ Waits(A, {cur})
  BY <1>0, ActivatedInv
<1> HIDE DEF A
<1>2. Waits(A, {})
  BY <1>0, <1>1 DEF Waits, SameGraph
<1>3. QED
  BY <1>0, <1>1, <1>2, RunNextInv

\* The same state goes on at another module.
LEMMA RunOnInv ==
  ASSUME IInv, NEW A, NEW R, Inv(A), cur \in A.all, Waits(A, {cur}),
         Tweaked(A, R, cur), RunOn(R)
  PROVE  IInv'
<1>1. Inv(R) /\ SameGraph(A, R)
  BY TweakedInv
<1>2. Waits(R, {cur})
  <2>1. A.all \subseteq Query
    BY DEF Inv, MeshRecord
  <2>2. QED
    BY <1>1, <2>1 DEF Waits, SameGraph, Tweaked
<1>3. mesh' = R /\ cur' = cur /\ numrun' = numrun + 1 /\ numrun \in Nat
  BY DEF RunOn, IInv
<1>4. QED
  BY SMTT(30), <1>1, <1>2, <1>3, PrimedInv DEF SameGraph

LEMMA PassToNextInv ==
  ASSUME IInv, PassToNext
  PROVE  IInv'
<1> DEFINE A == Activated
<1>0. cur # NoState
  BY SMTT(30) DEF PassToNext, Running
<1>1. PICK restart \in BOOLEAN :
        RunOn([A EXCEPT !.curmod[cur] = @ + 1, !.outbound[cur] = @ /\ ~restart])
  BY ZenonT(40) DEF PassToNext
<1>2. Inv(A) /\ cur \in A.all /\ cur \in Query /\ Waits(A, {cur})
  BY <1>0, ActivatedInv
<1> HIDE DEF A
<1> DEFINE n == A.curmod[cur] + 1
           b == A.outbound[cur] /\ ~restart
           R == [A EXCEPT !.curmod[cur] = n, !.outbound[cur] = b]
<1>3. RunOn(R)
  BY <1>1
<1>4. A \in MeshRecord /\ n \in Nat /\ b \in BOOLEAN
  BY SMTT(30), <1>2 DEF Inv, MeshRecord
<1> HIDE DEF n, b
<1>5. Tweaked(A, R, cur)
  BY ZenonT(40), <1>2, <1>4, SetModule
<1> HIDE DEF R
<1>6. QED
  BY <1>2, <1>3, <1>5, RunOnInv

LEMMA PassBackInv ==
  ASSUME IInv, PassBack
  PROVE  IInv'
<1> DEFINE A == Activated
           n == A.curmod[cur] - 1
           R == [A EXCEPT !.curmod[cur] = n]
<1>0. cur # NoState /\ mesh.curmod[cur] > 0
  BY DEF PassBack, Running
<1>1. RunOn(R)
  BY DEF PassBack
<1>2. /\ Inv(A) /\ cur \in A.all /\ cur \in Query /\ Waits(A, {cur})
      /\ A.curmod = mesh.curmod
  BY <1>0, ActivatedInv
<1> HIDE DEF A
<1>3. A \in MeshRecord /\ n \in Nat
  BY <1>0, <1>2 DEF Inv, MeshRecord
<1> HIDE DEF n
<1>4. Tweaked(A, R, cur)
  BY <1>2, <1>3, SetCurmod
<1> HIDE DEF R
<1>5. QED
  BY <1>1, <1>2, <1>4, RunOnInv

\* A state that is done is deleted, and its supers are runnable.
LEMMA DeleteDone ==
  ASSUME NEW M, Inv(M), NEW q \in M.all, Waits(M, {q})
  PROVE  LET R == mesh_state_delete(mesh_walk_supers(M, q), q)
         IN Inv(R) /\ Waits(R, {})
<1> DEFINE W == mesh_walk_supers(M, q)
<1>0. q \in Query
  BY DEF Inv, MeshRecord
<1>1. /\ Inv(W)
      /\ W.all = M.all /\ W.run = M.run \cup M.super[q]
      /\ W.sub = M.sub /\ W.super = M.super /\ SameWait(M, W)
  BY <1>0, WalkSupersInv
<1> HIDE DEF W
<1>2. Waits(W, {q})
  BY <1>1, KeepWaits DEF SameWait
<1>3. Waits(W, {} \cup {q}) /\ W.super[q] \subseteq W.run \cup {}
  BY SMTT(30), <1>1, <1>2, MoreWaits
<1>4. Inv(mesh_state_delete(W, q))
  BY <1>1, DeleteInv
<1>5. Waits(mesh_state_delete(W, q), {})
  BY SMTT(30), <1>1, <1>3, DeleteWaits
<1>6. QED
  BY <1>4, <1>5 DEF W

LEMMA DoneInv ==
  ASSUME IInv, cur # NoState, NEW K \in SUBSET ConnsOf(mesh, cur),
         NEW report \in Reports
  PROVE  Inv(Done(K, report)) /\ Waits(Done(K, report), {})
<1> DEFINE A == Activated
           D == mesh_query_done(A, cur, K, report)
<1>1. Inv(A) /\ cur \in A.all /\ cur \in Query /\ Waits(A, {cur})
  BY ActivatedInv
<1> HIDE DEF A
<1>2. K \in SUBSET Conn /\ report \in Query \cup {NoState}
  BY ConnsOfType DEF Reports
<1>3. Inv(D) /\ A.all \subseteq D.all /\ Waits(D, {cur})
  BY ZenonT(40), <1>1, <1>2, QueryDoneInv
<1>4. Done(K, report) = mesh_state_delete(mesh_walk_supers(D, cur), cur)
  BY DEF Done, A
<1> HIDE DEF D
<1>5. QED
  BY SMTT(30), <1>1, <1>3, <1>4, DeleteDone

LEMMA ContinueDoneInv ==
  ASSUME IInv, mesh_continue_done
  PROVE  IInv'
<1>0. cur # NoState /\ numrun \in Nat
  BY DEF mesh_continue_done, Running, IInv
<1>1. PICK K \in SUBSET ConnsOf(mesh, cur), report \in Reports :
        RunNext(Done(K, report))
  BY DEF mesh_continue_done
<1>2. Inv(Done(K, report)) /\ Waits(Done(K, report), {})
  BY <1>0, DoneInv
<1>3. QED
  BY <1>0, <1>1, <1>2, RunNextInv

LEMMA RefetchInv ==
  ASSUME IInv, mesh_continue_refetch
  PROVE  IInv'
<1>0. cur # NoState /\ numrun \in Nat
  BY DEF mesh_continue_refetch, Running, IInv
<1>1. PICK K \in SUBSET ConnsOf(mesh, cur), report \in Reports :
        LET R == Done(K, report)
        IN /\ HasSpace(R)
           /\ \/ \E p \in Query \ R.all :
                   StartRun(mesh_schedule_prefetch(R, p), p)
              \/ OutOfMemory /\ RunNext(mesh_make_new_space(R))
  BY DEF mesh_continue_refetch
<1> DEFINE R == Done(K, report)
<1>2. Inv(R) /\ Waits(R, {}) /\ HasSpace(R)
  BY <1>0, <1>1, DoneInv
<1>3. ASSUME NEW p \in Query \ R.all, StartRun(mesh_schedule_prefetch(R, p), p)
      PROVE  IInv'
  <2> DEFINE P == mesh_schedule_prefetch(R, p)
  <2> HIDE DEF R
  <2>1. Inv(P) /\ p \in P.all /\ \A X : Waits(R, X) => Waits(P, X \cup {p})
    BY <1>2, <1>3, SchedulePrefetchInv
  <2>2. StartRun(P, p)
    BY <1>3
  <2> HIDE DEF P
  <2>3. Waits(P, {} \cup {p})
    BY <1>2, <2>1
  <2>4. Waits(P, {p})
    BY <2>3, MoreWaits
  <2>5. QED
    BY SMTT(30), <2>1, <2>2, <2>4, StartRunInv
<1>4. CASE RunNext(mesh_make_new_space(R))
  <2> DEFINE P == mesh_make_new_space(R)
  <2> HIDE DEF R
  <2>1. Inv(P) /\ Waits(P, {}) /\ RunNext(P)
    BY <1>2, <1>4, NewSpaceInv
  <2> HIDE DEF P
  <2>2. QED
    BY SMTT(30), <1>0, <2>1, RunNextInv
<1>5. QED
  BY SMTT(30), <1>1, <1>3, <1>4

LEMMA RunStopInv ==
  ASSUME IInv, mesh_run_stop
  PROVE  IInv'
<1> DEFINE R == mesh_state_delete(mesh_walk_supers(mesh, cur), cur)
<1>0. Inv(mesh) /\ cur \in mesh.all /\ Waits(mesh, {cur}) /\ numrun \in Nat
  BY DEF IInv, mesh_run_stop
<1>1. \/ R.run = {} /\ mesh' = R /\ cur' = NoState /\ numrun' = 0
      \/ \E q \in R.run : /\ mesh' = [R EXCEPT !.run = @ \ {q}]
                          /\ cur' = q /\ UNCHANGED numrun
  BY DEF mesh_run_stop
<1>2. Inv(R) /\ Waits(R, {})
  BY <1>0, DeleteDone
<1> HIDE DEF R
<1>3. CASE R.run = {} /\ mesh' = R /\ cur' = NoState /\ numrun' = 0
  BY SMTT(30), <1>2, <1>3, PrimedInv, MoreWaits
<1>4. ASSUME NEW q \in R.run, mesh' = [R EXCEPT !.run = @ \ {q}],
             cur' = q, UNCHANGED numrun
      PROVE  IInv'
  <2> DEFINE P == [R EXCEPT !.run = @ \ {q}]
  <2>1. Inv(P) /\ q \in P.all /\ Waits(P, {q})
    BY <1>2, PopRun
  <2>2. mesh' = P
    BY <1>4
  <2> HIDE DEF P
  <2>3. QED
    BY SMTT(30), <1>0, <1>4, <2>1, <2>2, PrimedInv
<1>5. QED
  BY <1>1, <1>3, <1>4

LEMMA StutterInv ==
  ASSUME IInv, UNCHANGED vars
  PROVE  IInv'
<1>1. mesh' = mesh /\ cur' = cur /\ numrun' = numrun
  BY DEF vars
<1>2. QED
  BY <1>1, PrimedInv DEF IInv

-----------------------------------------------------------------------------
(* Theorems. *)

LEMMA NextInv ==
  ASSUME IInv, [Next]_vars
  PROVE  IInv'
<1>1. CASE Event
  BY SMTT(30), <1>1, NewClientInv, DroppedInv, NoMemInv, NoTimerInv,
     NewCallbackInv,
     RemoveCallbackInv, NewPrefetchInv, ReportReplyInv, ServeExpiredInv,
     TimePassesInv, AcceptInv, CloseInv, DeleteAllInv DEF Event
<1>2. CASE Operate
  BY SMTT(30), <1>2, AttachSubInv, KillSubInv, DetachSubsInv, RespondExpiredInv
     DEF Operate
<1>3. CASE Exit
  BY SMTT(30), <1>3, WaitReplyInv, WaitSubqueryInv, PassToNextInv, PassBackInv,
     ContinueDoneInv, RefetchInv, RunStopInv DEF Exit
<1>4. CASE UNCHANGED vars
  BY <1>4, StutterInv
<1>5. QED
  BY SMTT(30), <1>1, <1>2, <1>3, <1>4 DEF Next

\* Every reachable state of the mesh satisfies the inductive invariant.
THEOREM Invariance == Spec => []IInv
<1>1. Init => IInv
  BY InitInv
<1>2. IInv /\ [Next]_vars => IInv'
  BY NextInv
<1>3. QED
  BY <1>1, <1>2, PTL DEF Spec

\* The fields keep their types: in particular none of the four counters, which
\* the code keeps in size_t, is ever taken below zero.
THEOREM TypeCorrectness == Spec => []TypeOK
<1>1. IInv => TypeOK
  <2> SUFFICES ASSUME IInv
               PROVE  TypeOK
    OBVIOUS
  <2>1. mesh \in MeshRecord /\ Counted(mesh)
    BY DEF IInv, Inv
  <2>2. /\ mesh.num_reply_addrs \in Nat /\ mesh.num_reply_states \in Nat
        /\ mesh.num_detached_states \in Nat /\ mesh.num_forever_states \in Nat
    BY <2>1, SetTypes, FS_CardinalityType DEF Counted
  <2>3. mesh.all \subseteq Query
    BY SMTT(30), <2>1 DEF MeshRecord
  <2>4. QED
    BY <2>1, <2>2, <2>3 DEF TypeOK, IInv
<1>2. QED
  BY <1>1, Invariance, PTL

\* mesh_state_delete, with its cleanup, leaves no reference to the state it
\* frees: not in the runnable tree, a reply or callback list, a list of the
\* area, a timer, or the loop of mesh_run.
THEOREM NoDangling == Spec => []NoDanglingState
<1>1. IInv => NoDanglingState
  BY ZenonT(60) DEF IInv, NoDanglingState, Inv, Inside, Quiet
<1>2. QED
  BY <1>1, Invariance, PTL

\* What the asserts of mesh_state_attachment and mesh_detach_subs state: the
\* sub_set and super_set trees are inverse to each other.
THEOREM SubSuperSync == Spec => []SubSuperInSync
<1>1. IInv => SubSuperInSync
  BY SMTT(30) DEF IInv, SubSuperInSync, Inv, InSync
<1>2. QED
  BY <1>1, Invariance, PTL

\* The check of mesh_detect_cycle_found suffices: no attachment, whatever is
\* deleted and recreated in between, makes states wait for each other.
THEOREM NoCycle == Spec => []NoDependencyCycle
<1>1. IInv => NoDependencyCycle
  BY SMTT(30) DEF IInv, NoDependencyCycle, Inv, Acyclic, MeshRecord
<1>2. QED
  BY <1>1, Invariance, PTL

\* The counters that mesh_make_new_space and mesh_new_client decide by are
\* exact, however replies, callbacks, supers and states come and go.
THEOREM CountersCorrect == Spec => []CountersExact
<1>1. IInv => CountersExact
  BY ZenonT(60) DEF IInv, CountersExact, Inv, Counted, Waiting, ReplyStates,
     Detached,
         Forever
<1>2. QED
  BY <1>1, Invariance, PTL

\* No state is forgotten: mesh_walk_supers wakes every super before the state
\* it waits for is deleted, so that each state always waits for something.
THEOREM NoStuck == Spec => []NoStuckState
<1>1. IInv => NoStuckState
  BY DEF IInv, NoStuckState, Waits
<1>2. QED
  BY <1>1, Invariance, PTL
=============================================================================
