----------------------------- MODULE MeshDelete -----------------------------
(***************************************************************************)
(* The operators that change the graph of states and delete states keep    *)
(* the invariant of MeshInv: attaching, detaching, deleting, answering,    *)
(* and the changes of single fields.                                       *)
(***************************************************************************)
EXTENDS MeshInv

LEMMA AttachmentInv ==
  ASSUME NEW M, Inv(M), NEW q \in M.all, NEW s \in M.all, NotInSubsub(M, s, q)
  PROVE  LET R == mesh_state_attachment(M, q, s)
         IN /\ Inv(R)
            /\ R.all = M.all /\ R.run = M.run /\ SameWait(M, R)
            /\ \A x \in Query : M.sub[x] \subseteq R.sub[x]
<1> DEFINE R == mesh_state_attachment(M, q, s)
<1>0. M \in MeshRecord /\ q \in Query /\ s \in Query
  BY DEF Inv, MeshRecord
<1>1. /\ R \in MeshRecord
      /\ SameList(M, R) /\ SameModule(M, R) /\ SameWait(M, R)
      /\ SameConn(M, R) /\ SameReply(M, R)
      /\ R.all = M.all /\ R.run = M.run
      /\ R.sub = [x \in Query |-> IF x = q THEN M.sub[x] \cup {s} ELSE M.sub[x]]
      /\ R.super = [x \in Query |-> IF x = s THEN M.super[x] \cup {q} ELSE M.super[x]]
      /\ R.num_detached_states =
           M.num_detached_states - Bit(IsDetached(M, s))
  BY SMTT(30), <1>0, AttachmentFields
<1> HIDE DEF R
<1>a. M.sub \in [Query -> SUBSET Query] /\ M.super \in [Query -> SUBSET Query]
  BY <1>0 DEF MeshRecord
<1>2. Inside(R) /\ Quiet(R)
  BY <1>1 DEF Inv, Inside, Quiet, SameList, SameReply, SameModule, SameWait
<1>3. InSync(R)
  BY <1>0, <1>a, <1>1 DEF Inv, InSync
<1>4. Acyclic(R)
  BY <1>0, <1>a, <1>1, AcyclicGrow DEF Inv
<1>5. R.num_detached_states = Cardinality(Detached(R))
  <2>1. /\ Detached(R) = Detached(M) \ {s}
        /\ s \in Detached(M) <=> IsDetached(M, s)
    <3>1. \A x \in Query : IsReplyState(R, x) <=> IsReplyState(M, x)
      BY <1>1 DEF IsReplyState, SameReply
    <3>2. /\ \A x \in Query \ {s} : R.super[x] = M.super[x]
          /\ R.super[s] # {} /\ R.all = M.all /\ M.all \subseteq Query
      BY <1>0, <1>1 DEF MeshRecord
    <3>3. QED
      BY <3>1, <3>2 DEF Detached, IsDetached
  <2>2. IsFiniteSet(Detached(M))
    BY <1>0, SetTypes
  <2>3. Cardinality(Detached(R))
          = Cardinality(Detached(M)) - Bit(s \in Detached(M))
    BY ZenonT(40), <2>1, <2>2, CardBit
  <2>4. Bit(s \in Detached(M)) = Bit(IsDetached(M, s))
    BY <2>1 DEF Bit
  <2>5. QED
    BY <1>1, <2>3, <2>4 DEF Inv, Counted
<1>6. Counted(R)
  <2>1. /\ Waiting(R) = Waiting(M) /\ ReplyStates(R) = ReplyStates(M)
        /\ Forever(R) = Forever(M)
    BY <1>1 DEF SameList, SameReply, Waiting, ReplyStates, Forever,
                IsReplyState
  <2>2. QED
    BY <1>1, <1>5, <2>1 DEF Inv, Counted, SameReply, SameList
<1>7. \A x \in Query : M.sub[x] \subseteq R.sub[x]
  BY <1>0, <1>a, <1>1
<1>8. QED
  BY <1>1, <1>2, <1>3, <1>4, <1>6, <1>7 DEF Inv, R

LEMMA DetachInv ==
  ASSUME NEW M, Inv(M), NEW q \in Query
  PROVE  LET R == mesh_detach_subs(M, q)
         IN /\ Inv(R)
            /\ R.all = M.all /\ R.run = M.run /\ SameWait(M, R)
            /\ R.sub = [M.sub EXCEPT ![q] = {}]
<1> DEFINE R == mesh_detach_subs(M, q)
<1>0. /\ M \in MeshRecord
      /\ M.sub \in [Query -> SUBSET Query] /\ M.super \in [Query -> SUBSET Query]
  BY DEF Inv, MeshRecord
<1>1. /\ R \in MeshRecord
      /\ SameList(M, R) /\ SameModule(M, R) /\ SameWait(M, R)
      /\ SameConn(M, R) /\ SameReply(M, R)
      /\ R.all = M.all /\ R.run = M.run
      /\ R.sub = [M.sub EXCEPT ![q] = {}]
      /\ R.super = [s \in Query |-> IF s \in M.sub[q] THEN M.super[s] \ {q}
                                    ELSE M.super[s]]
      /\ R.num_detached_states =
           M.num_detached_states + Cardinality(Orphans(M, q))
  BY <1>0, DetachFields, Zenon
<1> HIDE DEF R
<1>2. Inside(R) /\ Quiet(R)
  BY <1>1 DEF Inv, Inside, Quiet, SameList, SameReply, SameModule, SameWait
<1>3. InSync(R)
  BY <1>0, <1>1 DEF Inv, InSync
<1>4. Acyclic(R)
  BY <1>0, <1>1, AcyclicShrink DEF Inv
<1>5. R.num_detached_states = Cardinality(Detached(R))
  <2>1. Detached(R) = Detached(M) \cup Orphans(M, q)
    <3>1. \A s \in Query : IsReplyState(R, s) <=> IsReplyState(M, s)
      BY <1>1 DEF IsReplyState, SameReply
    <3>2. \A s \in M.sub[q] : s \in M.all /\ R.super[s] = M.super[s] \ {q}
      BY <1>0, <1>1 DEF Inv, InSync
    <3>3. \A s \in Query \ M.sub[q] : R.super[s] = M.super[s]
      BY <1>0, <1>1
    <3>4. \A s \in M.sub[q] : q \in M.super[s]
      BY <1>0 DEF Inv, InSync
    <3>5. M.all \subseteq Query /\ R.all = M.all
      BY <1>0, <1>1 DEF MeshRecord
    <3>6. QED
      BY <3>1, <3>2, <3>3, <3>4, <3>5 DEF Detached, Orphans, IsDetached
  <2>2. Detached(M) \cap Orphans(M, q) = {}
    BY <1>0 DEF Detached, Orphans, IsDetached, Inv, InSync
  <2>3. Orphans(M, q) \in SUBSET Query
    BY <1>0 DEF Orphans
  <2>4. IsFiniteSet(Detached(M)) /\ IsFiniteSet(Orphans(M, q))
    BY <1>0, <2>3, SetTypes, CardNat
  <2>5. Cardinality(Detached(R))
          = Cardinality(Detached(M)) + Cardinality(Orphans(M, q))
    BY SMTT(30), <2>1, <2>2, <2>4, CardPlus
  <2>6. QED
    BY <1>1, <2>5 DEF Inv, Counted
<1>6. Counted(R)
  <2>1. /\ Waiting(R) = Waiting(M) /\ ReplyStates(R) = ReplyStates(M)
        /\ Forever(R) = Forever(M)
    BY <1>1 DEF SameList, SameReply, Waiting, ReplyStates, Forever,
                IsReplyState
  <2>2. QED
    BY <1>1, <1>5, <2>1 DEF Inv, Counted, SameReply, SameList
<1>7. QED
  BY <1>1, <1>2, <1>3, <1>4, <1>6 DEF Inv, R

\* Taking out a state, before the connections of its replies are closed.
LEMMA WithoutInv ==
  ASSUME NEW M, Inv(M), NEW q \in M.all, NEW G \in MeshRecord,
         IsWithout(G, M, q)
  PROVE  Inv(G)
<1>0. /\ M \in MeshRecord /\ q \in Query
      /\ M.sub \in [Query -> SUBSET Query] /\ M.super \in [Query -> SUBSET Query]
      /\ q \notin M.sub[q]
  BY NoSelfSub DEF Inv, MeshRecord
<1>1. /\ G.all = M.all \ {q} /\ G.run = M.run \ {q}
      /\ G.sub = [p \in Query |-> IF p = q THEN {}
                                  ELSE IF p \in M.super[q] THEN M.sub[p] \ {q}
                                  ELSE M.sub[p]]
      /\ G.super = [s \in Query |-> IF s = q THEN {}
                                    ELSE IF s \in M.sub[q] THEN M.super[s] \ {q}
                                    ELSE M.super[s]]
      /\ G.at = [w \in Waiter |-> IF M.at[w] = q THEN NoState ELSE M.at[w]]
      /\ G.list = [M.list EXCEPT ![q] = "no"]
  BY DEF IsWithout
<1>2. Inside(G)
  BY SMTT(30), <1>0, <1>1 DEF Inv, Inside, MeshRecord
<1>3. Quiet(G)
  <2>1. /\ G.age = [M.age EXCEPT ![q] = "none"]
        /\ G.outbound = [M.outbound EXCEPT ![q] = FALSE]
        /\ G.timer = [M.timer EXCEPT ![q] = FALSE]
        /\ G.all = M.all \ {q}
    BY ZenonT(60) DEF IsWithout
  <2>2. /\ M.age \in [Query -> {"none", "fresh", "old"}]
        /\ M.outbound \in [Query -> BOOLEAN] /\ M.timer \in [Query -> BOOLEAN]
        /\ Quiet(M)
    BY ZenonT(60), <1>0 DEF Inv, MeshRecord
  <2>3. QED
    BY <1>0, <2>1, <2>2 DEF Quiet
<1>4. InSync(G)
  BY <1>0, <1>1 DEF Inv, InSync
<1>5. Acyclic(G)
  BY <1>0, <1>1, AcyclicShrink DEF Inv
<1>6. Counted(G)
  <2>0. /\ IsFiniteSet(Waiting(M)) /\ IsFiniteSet(ReplyStates(M))
        /\ IsFiniteSet(Detached(M)) /\ IsFiniteSet(Forever(M))
    BY <1>0, SetTypes
  <2>1. G.num_reply_addrs = Cardinality(Waiting(G))
    <3>1. Waiting(G) = Waiting(M) \ Waiters(M, q)
      BY <1>1 DEF Waiting, Waiters
    <3>2. Waiters(M, q) \in SUBSET Waiting(M)
      BY <1>0, MeshAssumption DEF Waiting, Waiters
    <3>3. Cardinality(Waiting(G))
            = Cardinality(Waiting(M)) - Cardinality(Waiters(M, q))
      BY SMTT(30), <2>0, <3>1, <3>2, CardMinus
    <3>4. QED
      BY <3>3 DEF Inv, Counted, IsWithout
  <2>2. G.num_reply_states = Cardinality(ReplyStates(G))
    <3>1. /\ ReplyStates(G) = ReplyStates(M) \ {q}
          /\ q \in ReplyStates(M) <=> IsReplyState(M, q)
      BY <1>0, <1>1, MeshAssumption DEF ReplyStates, IsReplyState
    <3>2. Cardinality(ReplyStates(G))
            = Cardinality(ReplyStates(M)) - Bit(q \in ReplyStates(M))
      BY ZenonT(40), <2>0, <3>1, CardBit
    <3>3. Bit(q \in ReplyStates(M)) = Bit(IsReplyState(M, q))
      BY <3>1 DEF Bit
    <3>4. QED
      BY <3>2, <3>3 DEF Inv, Counted, IsWithout
  <2>3. G.num_detached_states = Cardinality(Detached(G))
    <3> DEFINE B == Detached(M) \cup Orphans(M, q)
    <3>1. \A s \in Query \ {q} : IsReplyState(G, s) <=> IsReplyState(M, s)
      BY <1>1, MeshAssumption DEF IsReplyState
    <3>2. \A s \in Query \ {q} :
            s \in M.sub[q] => (G.super[s] = {} <=> M.super[s] \ {q} = {})
      BY <1>1
    <3>3. \A s \in Query \ {q} : s \notin M.sub[q] => G.super[s] = M.super[s]
      BY <1>1
    <3>4. \A s \in M.sub[q] : s \in M.all /\ q \in M.super[s]
      BY <1>0 DEF Inv, InSync
    <3>5. Detached(G) = B \ {q}
      <4>1. M.all \subseteq Query /\ M.sub[q] \subseteq Query
        BY <1>0 DEF MeshRecord
      <4>2. G.all = M.all \ {q} /\ q \notin M.sub[q]
        BY <1>0, <1>1
      <4>3. \A s \in Query \ {q} : s \in Detached(G) <=> s \in B
        BY <4>1, <4>2, <3>1, <3>2, <3>3, <3>4
          DEF Detached, Orphans, IsDetached
      <4>4. Detached(G) \subseteq Query \ {q} /\ B \subseteq Query
        BY <4>1, <4>2 DEF Detached, Orphans
      <4>5. QED
        BY SMTT(30), <4>3, <4>4
    <3>6. q \in B <=> IsDetached(M, q)
      BY <1>0 DEF Detached, Orphans
    <3>7. Detached(M) \cap Orphans(M, q) = {}
      BY <3>4 DEF Detached, Orphans, IsDetached
    <3>8. Orphans(M, q) \in SUBSET Query
      BY <1>0 DEF Orphans
    <3>9. IsFiniteSet(Orphans(M, q)) /\ IsFiniteSet(B)
      BY ZenonT(40), <2>0, <3>8, CardNat, FS_Union
    <3>10. Cardinality(B) = Cardinality(Detached(M)) + Cardinality(Orphans(M, q))
      BY <2>0, <3>7, <3>9, CardPlus
    <3> HIDE DEF B
    <3>11. Cardinality(Detached(G)) = Cardinality(B) - Bit(q \in B)
      BY ZenonT(40), <3>5, <3>9, CardBit
    <3>12. Bit(q \in B) = Bit(IsDetached(M, q))
      BY <3>6 DEF Bit
    <3>13. QED
      BY <3>10, <3>11, <3>12 DEF Inv, Counted, IsWithout
  <2>4. G.num_forever_states = Cardinality(Forever(G))
    <3>1. /\ Forever(G) = Forever(M) \ {q}
          /\ q \in Forever(M) <=> M.list[q] = "forever"
      BY <1>0, <1>1 DEF Forever, MeshRecord
    <3>2. Cardinality(Forever(G))
            = Cardinality(Forever(M)) - Bit(q \in Forever(M))
      BY ZenonT(40), <2>0, <3>1, CardBit
    <3>3. Bit(q \in Forever(M)) = Bit(M.list[q] = "forever")
      BY <3>1 DEF Bit
    <3>4. QED
      BY <3>2, <3>3 DEF Inv, Counted, IsWithout
  <2>5. QED
    BY <2>1, <2>2, <2>3, <2>4 DEF Counted
<1>7. QED
  BY <1>2, <1>3, <1>4, <1>5, <1>6 DEF Inv

LEMMA ConnsOfType ==
  ASSUME NEW M, NEW q
  PROVE  ConnsOf(M, q) \in SUBSET Conn
  BY MeshAssumption DEF ConnsOf, ReplyList

LEMMA DeleteInv ==
  ASSUME NEW M, Inv(M), NEW q \in M.all
  PROVE  LET R == mesh_state_delete(M, q)
         IN /\ Inv(R)
            /\ R.all = M.all \ {q} /\ R.run = M.run \ {q}
            /\ \A p \in Query \ {q} : /\ R.sub[p] = M.sub[p] \ {q}
                                      /\ R.outbound[p] = M.outbound[p]
            /\ Waiting(R) \subseteq Waiting(M)
<1> DEFINE R == mesh_state_delete(M, q)
<1>0. M \in MeshRecord /\ q \in Query /\ q \notin M.sub[q]
  BY NoSelfSub DEF Inv, MeshRecord
<1>1. PICK G \in MeshRecord, K \in {ConnsOf(M, q)} :
        R = tcp_req_info_clear(G, K) /\ IsWithout(G, M, q)
  BY <1>0, DeleteFields
<1> HIDE DEF R
<1>2. Inv(G)
  BY <1>1, WithoutInv
<1>3. K \in SUBSET Conn
  BY ConnsOfType
<1>4. /\ Inv(R) /\ SameGraph(G, R) /\ SameWait(G, R)
      /\ Waiting(R) \subseteq Waiting(G)
  BY <1>1, <1>2, <1>3, ReqInfoClearInv
<1>5. \A p \in Query \ {q} : G.sub[p] = M.sub[p] \ {q}
  <2> TAKE p \in Query \ {q}
  <2>1. G.sub[p] = IF p \in M.super[q] THEN M.sub[p] \ {q} ELSE M.sub[p]
    BY <1>1 DEF IsWithout
  <2>2. p \notin M.super[q] => q \notin M.sub[p]
    BY SMTT(30), <1>0 DEF Inv, InSync
  <2>3. QED
    BY <2>1, <2>2
<1>6. \A p \in Query \ {q} : G.outbound[p] = M.outbound[p]
  <2>1. /\ M.outbound \in [Query -> BOOLEAN]
        /\ G.outbound = [M.outbound EXCEPT ![q] = FALSE]
    BY ZenonT(60), <1>0, <1>1 DEF IsWithout, MeshRecord
  <2>2. QED
    BY <1>0, <2>1
<1>7. /\ G.all = M.all \ {q} /\ G.run = M.run \ {q}
      /\ Waiting(G) \subseteq Waiting(M)
  BY <1>1 DEF IsWithout, Waiting
<1>8. QED
  BY <1>4, <1>5, <1>6, <1>7 DEF R, SameGraph, SameWait

\* When a state is deleted its supers are runnable, or the one in X is.
LEMMA DeleteWaits ==
  ASSUME NEW M, Inv(M), NEW q \in M.all, NEW X, Waits(M, X \cup {q}),
         M.super[q] \subseteq M.run \cup X
  PROVE  Waits(mesh_state_delete(M, q), X)
<1> DEFINE R == mesh_state_delete(M, q)
<1>1. /\ R.all = M.all \ {q} /\ R.run = M.run \ {q}
      /\ \A p \in Query \ {q} : /\ R.sub[p] = M.sub[p] \ {q}
                                /\ R.outbound[p] = M.outbound[p]
  BY DeleteInv
<1> HIDE DEF R
<1> SUFFICES ASSUME NEW p \in R.all \ X
             PROVE  R.outbound[p] \/ R.sub[p] # {} \/ p \in R.run
  BY ZenonT(60) DEF Waits, R
<1>2. p \in Query \ {q} /\ p \in M.all /\ p \notin X \cup {q} /\ q \in Query
  BY ZenonT(60), <1>1 DEF Inv, MeshRecord
<1>3. M.outbound[p] \/ M.sub[p] # {} \/ p \in M.run
  BY <1>2 DEF Waits
<1>4. q \in M.sub[p] => p \in M.run
  BY <1>2 DEF Inv, InSync
<1>5. M.sub[p] \ {q} = {} => M.sub[p] = {} \/ q \in M.sub[p]
  OBVIOUS
<1>6. QED
  BY SMTT(30), <1>1, <1>2, <1>3, <1>4, <1>5

\* Steps that only add states that are runnable.
LEMMA KeepWaits ==
  ASSUME NEW M, NEW R, NEW X, Waits(M, X),
         R.sub = M.sub, R.outbound = M.outbound, M.run \subseteq R.run,
         R.all \ M.all \subseteq R.run \cup X
  PROVE  Waits(R, X)
  BY SMTT(30) DEF Waits

LEMMA AnswerAllInv ==
  ASSUME NEW M, Inv(M), NEW q \in Query, NEW K \in SUBSET Conn
  PROVE  LET R == AnswerAll(M, q, K)
         IN /\ Inv(R)
            /\ SameGraph(M, R) /\ SameWait(M, R)
<1> DEFINE R == AnswerAll(M, q, K)
           W == Waiters(M, q) \cup OnConns(M, K)
           C == mesh_state_remove_reply(M, W)
<1>0. M \in MeshRecord
  BY DEF Inv
<1>1. W \in SUBSET Waiting(M)
  <2>1. Waiters(M, q) \subseteq Waiting(M)
    BY MeshAssumption DEF Waiters, Waiting
  <2>2. SUFFICES ASSUME NEW c \in Client, ConnOf[c] \in K,
                        M.at[c] \in M.open[ConnOf[c]]
                 PROVE  c \in Waiting(M)
    BY <2>1 DEF OnConns
  <2>3. M.open[ConnOf[c]] \subseteq Query
    BY SMTT(30), <1>0, <2>2 DEF MeshRecord
  <2>4. QED
    BY <2>2, <2>3, MeshAssumption DEF Waiting, Waiter
<1>2. /\ R \in MeshRecord
      /\ SameGraph(C, R) /\ SameList(C, R) /\ SameModule(C, R)
      /\ SameWait(C, R) /\ SameReply(C, R) /\ SameDetached(C, R)
  BY <1>0, AnswerAllFields
<1>3. Inv(C)
  BY SMTT(30), <1>1, RemoveReplyInv
<1>4. SameGraph(M, C) /\ SameWait(M, C)
  <2>1. W \in SUBSET Waiter
    BY <1>1 DEF Waiting
  <2>2. QED
    BY ZenonT(40), <1>0, <2>1, RemoveReplyFields
<1> HIDE DEF R, C, W
<1>5. Core(C, R) /\ Quiet(R) /\ R.run \subseteq R.all
  <2>1. Core(C, R)
    BY ZenonT(60), <1>2 DEF Core, SameGraph, SameList, SameReply, SameDetached
  <2>2. Quiet(R) /\ R.run \subseteq R.all
    BY ZenonT(60), <1>2, <1>3 DEF SameGraph, Inv, Inside, Quiet, SameModule,
                                  SameWait
  <2>3. QED
    BY <2>1, <2>2
<1>6. Inv(R)
  BY <1>2, <1>3, <1>5, CoreInv
<1>7. QED
  BY <1>2, <1>4, <1>6 DEF R, SameGraph, SameWait

\* Changing what only the module at work sees.
LEMMA SetTimerInv ==
  ASSUME NEW M, Inv(M), NEW q \in Query
  PROVE  LET R == [M EXCEPT !.timer[q] = FALSE]
         IN Inv(R) /\ SameGraph(M, R) /\ R.outbound = M.outbound
<1> DEFINE t == [M.timer EXCEPT ![q] = FALSE]
           R == [M EXCEPT !.timer[q] = FALSE]
<1>0. M \in MeshRecord
  BY DEF Inv
<1>1. t \in [Query -> BOOLEAN] /\ \A x \in Query : ~M.timer[x] => ~t[x]
  BY <1>0 DEF MeshRecord
<1>2. R = [M EXCEPT !.timer = t]
  OBVIOUS
<1> HIDE DEF t, R
<1>3. R \in MeshRecord
  BY <1>0, <1>1, <1>2, ZenonT(40) DEF MeshRecord
<1>4. /\ Core(M, R) /\ SameGraph(M, R) /\ R.age = M.age
      /\ R.outbound = M.outbound /\ R.timer = t
  BY SMTT(30), <1>0, <1>2 DEF MeshRecord, Core, SameGraph
<1>5. Quiet(R) /\ R.run \subseteq R.all
  BY <1>1, <1>4 DEF Inv, Quiet, Inside, SameGraph
<1>6. Inv(R)
  BY SMTT(30), <1>3, <1>4, <1>5, CoreInv
<1>7. QED
  BY <1>4, <1>6 DEF R

\* R differs from M in what the modules keep about q.
Tweaked(M, R, q) ==
  /\ R \in MeshRecord /\ Core(M, R) /\ R.run = M.run
  /\ \A x \in Query \ {q} : /\ R.age[x] = M.age[x]
                            /\ R.outbound[x] = M.outbound[x]
                            /\ R.timer[x] = M.timer[x]

LEMMA TweakedInv ==
  ASSUME NEW M, Inv(M), NEW q \in M.all, NEW R, Tweaked(M, R, q)
  PROVE  Inv(R) /\ SameGraph(M, R) /\ Waiting(R) = Waiting(M)
<1>1. R \in MeshRecord /\ Core(M, R) /\ R.run \subseteq R.all
  BY SMTT(30) DEF Tweaked, Inv, Inside, Core
<1>2. Quiet(R)
  BY DEF Tweaked, Inv, Quiet, Core
<1>3. Inv(R)
  BY <1>1, <1>2, CoreInv
<1>4. QED
  BY SMTT(30), <1>1, <1>3 DEF Core, Tweaked, SameGraph, Waiting

LEMMA SetAge ==
  ASSUME NEW M \in MeshRecord, NEW q \in Query, NEW a \in {"none", "fresh", "old"}
  PROVE  LET R == [M EXCEPT !.age[q] = a]
         IN Tweaked(M, R, q) /\ R.outbound = M.outbound
<1> DEFINE g == [M.age EXCEPT ![q] = a]
           R == [M EXCEPT !.age[q] = a]
<1>1. /\ g \in [Query -> {"none", "fresh", "old"}]
      /\ \A x \in Query \ {q} : g[x] = M.age[x]
  BY DEF MeshRecord
<1>2. R = [M EXCEPT !.age = g]
  OBVIOUS
<1> HIDE DEF g, R
<1>3. R \in MeshRecord
  BY <1>1, <1>2, ZenonT(40) DEF MeshRecord
<1>4. /\ Core(M, R) /\ R.run = M.run /\ R.age = g
      /\ R.outbound = M.outbound /\ R.timer = M.timer
  BY <1>2 DEF MeshRecord, Core
<1>5. QED
  BY SMTT(30), <1>1, <1>3, <1>4 DEF Tweaked, R

LEMMA SetOutbound ==
  ASSUME NEW M \in MeshRecord, NEW q \in Query, NEW b \in BOOLEAN
  PROVE  LET R == [M EXCEPT !.outbound[q] = b]
         IN Tweaked(M, R, q) /\ R.outbound[q] = b
<1> DEFINE o == [M.outbound EXCEPT ![q] = b]
           R == [M EXCEPT !.outbound[q] = b]
<1>1. /\ o \in [Query -> BOOLEAN]
      /\ o[q] = b /\ \A x \in Query \ {q} : o[x] = M.outbound[x]
  BY DEF MeshRecord
<1>2. R = [M EXCEPT !.outbound = o]
  OBVIOUS
<1> HIDE DEF o, R
<1>3. R \in MeshRecord
  BY <1>1, <1>2, ZenonT(40) DEF MeshRecord
<1>4. /\ Core(M, R) /\ R.run = M.run /\ R.age = M.age
      /\ R.outbound = o /\ R.timer = M.timer
  BY <1>2 DEF MeshRecord, Core
<1>5. QED
  BY SMTT(30), <1>1, <1>3, <1>4 DEF Tweaked, R

LEMMA SetBlacklist ==
  ASSUME NEW M \in MeshRecord, NEW q \in Query
  PROVE  LET R == [M EXCEPT !.blacklist[q] = TRUE]
         IN Tweaked(M, R, q) /\ R.outbound = M.outbound
<1> DEFINE l == [M.blacklist EXCEPT ![q] = TRUE]
           R == [M EXCEPT !.blacklist[q] = TRUE]
<1>1. l \in [Query -> BOOLEAN]
  BY DEF MeshRecord
<1>2. R = [M EXCEPT !.blacklist = l]
  OBVIOUS
<1> HIDE DEF l, R
<1>3. R \in MeshRecord
  BY <1>1, <1>2, ZenonT(40) DEF MeshRecord
<1>4. /\ Core(M, R) /\ R.run = M.run /\ R.age = M.age
      /\ R.outbound = M.outbound /\ R.timer = M.timer
  BY <1>2 DEF MeshRecord, Core
<1>5. QED
  BY <1>3, <1>4 DEF Tweaked, R

LEMMA SetModule ==
  ASSUME NEW M \in MeshRecord, NEW q \in Query, NEW n \in Nat, NEW b \in BOOLEAN
  PROVE  LET R == [M EXCEPT !.curmod[q] = n, !.outbound[q] = b]
         IN Tweaked(M, R, q)
<1> DEFINE m == [M.curmod EXCEPT ![q] = n]
           o == [M.outbound EXCEPT ![q] = b]
           R == [M EXCEPT !.curmod[q] = n, !.outbound[q] = b]
<1>1. /\ o \in [Query -> BOOLEAN] /\ m \in [Query -> Nat]
      /\ \A x \in Query \ {q} : o[x] = M.outbound[x]
  BY DEF MeshRecord
<1>2. R = [M EXCEPT !.curmod = m, !.outbound = o]
  OBVIOUS
<1> HIDE DEF m, o, R
<1>3. R \in MeshRecord
  BY <1>1, <1>2, ZenonT(40) DEF MeshRecord
<1>4. /\ Core(M, R) /\ R.run = M.run /\ R.age = M.age
      /\ R.outbound = o /\ R.timer = M.timer
  BY <1>2 DEF MeshRecord, Core
<1>5. QED
  BY SMTT(30), <1>1, <1>3, <1>4 DEF Tweaked, R

LEMMA SetCurmod ==
  ASSUME NEW M \in MeshRecord, NEW q \in Query, NEW n \in Nat
  PROVE  LET R == [M EXCEPT !.curmod[q] = n]
         IN Tweaked(M, R, q)
<1> DEFINE m == [M.curmod EXCEPT ![q] = n]
           R == [M EXCEPT !.curmod[q] = n]
<1>1. m \in [Query -> Nat]
  BY DEF MeshRecord
<1>2. R = [M EXCEPT !.curmod = m]
  OBVIOUS
<1> HIDE DEF m, R
<1>3. R \in MeshRecord
  BY <1>1, <1>2, ZenonT(40) DEF MeshRecord
<1>4. /\ Core(M, R) /\ R.run = M.run /\ R.age = M.age
      /\ R.outbound = M.outbound /\ R.timer = M.timer
  BY <1>2 DEF MeshRecord, Core
<1>5. QED
  BY <1>3, <1>4 DEF Tweaked, R

LEMMA SetActivated ==
  ASSUME NEW M \in MeshRecord, NEW q \in Query, NEW n \in Nat
  PROVE  LET R == [M EXCEPT !.num_activated[q] = n]
         IN /\ Tweaked(M, R, q)
            /\ R.outbound = M.outbound /\ R.curmod = M.curmod
            /\ R.blacklist = M.blacklist
<1> DEFINE m == [M.num_activated EXCEPT ![q] = n]
           R == [M EXCEPT !.num_activated[q] = n]
<1>1. m \in [Query -> Nat]
  BY DEF MeshRecord
<1>2. R = [M EXCEPT !.num_activated = m]
  OBVIOUS
<1> HIDE DEF m, R
<1>3. R \in MeshRecord
  BY <1>1, <1>2, ZenonT(40) DEF MeshRecord
<1>4. /\ Core(M, R) /\ R.run = M.run /\ R.age = M.age
      /\ R.outbound = M.outbound /\ R.timer = M.timer
      /\ R.curmod = M.curmod /\ R.blacklist = M.blacklist
  BY <1>2 DEF MeshRecord, Core
<1>5. QED
  BY SMTT(30), <1>3, <1>4 DEF Tweaked, R
=============================================================================
