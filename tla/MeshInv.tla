------------------------------ MODULE MeshInv -------------------------------
(***************************************************************************)
(* The mesh keeps its invariants, for any sets of queries, clients,        *)
(* callbacks and connections and any limits: every operator of Mesh takes  *)
(* a mesh that satisfies Inv to one that satisfies Inv, so every handler,  *)
(* a composition of operators, does.                                       *)
(***************************************************************************)
EXTENDS MeshFields

(* The properties of Mesh, as predicates of a mesh record. *)

Inside(M) ==
  /\ M.run \subseteq M.all
  /\ \A w \in Waiter : M.at[w] \in M.all \cup {NoState}
  /\ \A q \in Query \ M.all : M.list[q] = "no"

Quiet(M) ==
  \A q \in Query \ M.all : M.age[q] = "none" /\ ~M.outbound[q] /\ ~M.timer[q]

InSync(M) ==
  \A p, s \in Query : /\ s \in M.sub[p] <=> p \in M.super[s]
                      /\ s \in M.sub[p] => p \in M.all /\ s \in M.all

Acyclic(M) ==
  \A S \in SUBSET Query : S # {} => \E x \in S : M.sub[x] \cap S = {}

Waiting(M) == {w \in Waiter : M.at[w] # NoState}

ReplyStates(M) == {q \in Query : IsReplyState(M, q)}

Detached(M) == {q \in M.all : IsDetached(M, q)}

Forever(M) == {q \in Query : M.list[q] = "forever"}

Counted(M) ==
  /\ M.num_reply_addrs = Cardinality(Waiting(M))
  /\ M.num_reply_states = Cardinality(ReplyStates(M))
  /\ M.num_detached_states = Cardinality(Detached(M))
  /\ M.num_forever_states = Cardinality(Forever(M))

\* The inductive invariant of the mesh record.
Inv(M) ==
  /\ M \in MeshRecord
  /\ Inside(M) /\ Quiet(M) /\ InSync(M) /\ Acyclic(M) /\ Counted(M)

\* Every state outside X has something to wait for.
Waits(M, X) ==
  \A q \in M.all \ X : M.outbound[q] \/ M.sub[q] # {} \/ q \in M.run

-----------------------------------------------------------------------------
(* Facts about finite sets and about the predicates. *)

LEMMA CardMinus ==
  ASSUME NEW S, IsFiniteSet(S), NEW T \in SUBSET S
  PROVE  Cardinality(S \ T) = Cardinality(S) - Cardinality(T)
<1>1. S \cap T = T
  OBVIOUS
<1>2. QED
  BY ZenonT(40), <1>1, FS_Difference

LEMMA CardPlus ==
  ASSUME NEW S, IsFiniteSet(S), NEW T, IsFiniteSet(T), S \cap T = {}
  PROVE  Cardinality(S \cup T) = Cardinality(S) + Cardinality(T)
<1>1. Cardinality(S) \in Nat /\ Cardinality(T) \in Nat
  BY FS_CardinalityType
<1>2. Cardinality(S \cap T) = 0
  BY FS_EmptySet
<1>3. Cardinality(S \cup T)
        = Cardinality(S) + Cardinality(T) - Cardinality(S \cap T)
  BY FS_Union
<1>4. QED
  BY <1>1, <1>2, <1>3

LEMMA CardBit ==
  ASSUME NEW S, IsFiniteSet(S), NEW x
  PROVE  /\ Cardinality(S \ {x}) = Cardinality(S) - Bit(x \in S)
         /\ Cardinality(S \cup {x}) = Cardinality(S) + Bit(x \notin S)
  BY FS_AddElement, FS_RemoveElement, FS_CardinalityType DEF Bit

LEMMA SetTypes ==
  ASSUME NEW M \in MeshRecord
  PROVE  /\ Waiting(M) \in SUBSET Waiter /\ IsFiniteSet(Waiting(M))
         /\ ReplyStates(M) \in SUBSET Query /\ IsFiniteSet(ReplyStates(M))
         /\ Detached(M) \in SUBSET Query /\ IsFiniteSet(Detached(M))
         /\ Forever(M) \in SUBSET Query /\ IsFiniteSet(Forever(M))
<1>1. M.all \in SUBSET Query
  BY DEF MeshRecord
<1>2. QED
  BY <1>1, CardNat DEF Waiting, ReplyStates, Detached, Forever

\* What the invariant says depends only on these fields.
Core(M, R) ==
  /\ R.all = M.all /\ R.sub = M.sub /\ R.super = M.super
  /\ R.at = M.at /\ R.list = M.list
  /\ R.num_reply_addrs = M.num_reply_addrs
  /\ R.num_reply_states = M.num_reply_states
  /\ R.num_detached_states = M.num_detached_states
  /\ R.num_forever_states = M.num_forever_states

LEMMA CoreInv ==
  ASSUME NEW M, Inv(M), NEW R \in MeshRecord, Core(M, R), Quiet(R),
         R.run \subseteq R.all
  PROVE  Inv(R)
<1>1. Inside(R)
  BY DEF Inv, Inside, Core
<1>2. InSync(R) /\ Acyclic(R)
  BY DEF Inv, InSync, Acyclic, Core
<1>3. Counted(R)
  <2>1. /\ Waiting(R) = Waiting(M) /\ ReplyStates(R) = ReplyStates(M)
        /\ Detached(R) = Detached(M) /\ Forever(R) = Forever(M)
    BY DEF Core, Waiting, ReplyStates, Detached, Forever, IsReplyState,
           IsDetached
  <2>2. QED
    BY <2>1 DEF Inv, Counted, Core
<1>4. QED
  BY <1>1, <1>2, <1>3 DEF Inv

\* Removing dependencies makes no cycle.
LEMMA AcyclicShrink ==
  ASSUME NEW M, NEW R, Acyclic(M), \A x \in Query : R.sub[x] \subseteq M.sub[x]
  PROVE  Acyclic(R)
<1> SUFFICES ASSUME NEW S \in SUBSET Query, S # {}
             PROVE  \E x \in S : R.sub[x] \cap S = {}
  BY DEF Acyclic
<1>1. PICK x \in S : M.sub[x] \cap S = {}
  BY DEF Acyclic
<1>2. QED
  BY <1>1

\* Nor does adding a dependency of q on s when q is not found below s.
LEMMA AcyclicGrow ==
  ASSUME NEW M, NEW R, NEW q \in Query, NEW s \in Query,
         Acyclic(M), NotInSubsub(M, s, q),
         R.sub = [x \in Query |-> IF x = q THEN M.sub[x] \cup {s} ELSE M.sub[x]],
         M.sub \in [Query -> SUBSET Query]
  PROVE  Acyclic(R)
<1> SUFFICES ASSUME NEW S \in SUBSET Query, S # {}
             PROVE  \E x \in S : R.sub[x] \cap S = {}
  BY ZenonT(40) DEF Acyclic
<1>1. PICK D \in SUBSET Query :
        s \in D /\ q \notin D /\ \A x \in D : M.sub[x] \subseteq D
  BY DEF NotInSubsub
<1>2. CASE S \cap D # {}
  <2>1. PICK x \in S \cap D : M.sub[x] \cap (S \cap D) = {}
    BY ZenonT(40), <1>2 DEF Acyclic
  <2>2. M.sub[x] \subseteq D /\ R.sub[x] = M.sub[x]
    BY <1>1
  <2>3. QED
    BY <2>1, <2>2
<1>3. CASE S \cap D = {}
  <2>1. PICK x \in S : M.sub[x] \cap S = {}
    BY DEF Acyclic
  <2>2. R.sub[x] \subseteq M.sub[x] \cup {s} /\ s \notin S
    BY <1>1, <1>3
  <2>3. QED
    BY <2>1, <2>2
<1>4. QED
  BY ZenonT(40), <1>2, <1>3

\* No state depends on itself.
LEMMA NoSelfSub ==
  ASSUME NEW M, Acyclic(M), NEW q \in Query
  PROVE  q \notin M.sub[q]
<1>1. PICK x \in {q} : M.sub[x] \cap {q} = {}
  BY ZenonT(40) DEF Acyclic
<1>2. QED
  BY <1>1

-----------------------------------------------------------------------------
(* The operators keep the invariant. *)

LEMMA RemoveReplyInv ==
  ASSUME NEW M, Inv(M), NEW W \in SUBSET Waiting(M)
  PROVE  Inv(mesh_state_remove_reply(M, W))
<1> DEFINE R == mesh_state_remove_reply(M, W)
<1>0. M \in MeshRecord /\ W \in SUBSET Waiter
  BY DEF Inv, Waiting
<1>1. /\ R \in MeshRecord
      /\ SameGraph(M, R) /\ SameList(M, R) /\ SameModule(M, R)
      /\ SameWait(M, R)
      /\ R.at = [w \in Waiter |-> IF w \in W THEN NoState ELSE M.at[w]]
      /\ R.num_reply_addrs = M.num_reply_addrs - Cardinality(W)
      /\ R.num_reply_states = M.num_reply_states - Cardinality(Emptied(M, W))
      /\ R.num_detached_states =
           M.num_detached_states
             + Cardinality({q \in Emptied(M, W) : M.super[q] = {}})
  BY ZenonT(40), <1>0, RemoveReplyFields
<1> HIDE DEF R
<1>2. Inside(R) /\ Quiet(R)
  BY <1>1 DEF Inv, Inside, Quiet, SameGraph, SameList, SameModule, SameWait
<1>3. InSync(R) /\ Acyclic(R)
  BY <1>1 DEF Inv, InSync, Acyclic, SameGraph
<1>4. Counted(R)
  <2>1. R.num_reply_addrs = Cardinality(Waiting(R))
    <3>1. Waiting(R) = Waiting(M) \ W
      BY <1>1 DEF Waiting
    <3>2. QED
      BY <1>0, <1>1, <3>1, CardMinus, SetTypes DEF Inv, Counted
  <2>2. R.num_reply_states = Cardinality(ReplyStates(R))
    <3>1. ReplyStates(R) = ReplyStates(M) \ Emptied(M, W)
      <4>1. /\ M.at \in [Waiter -> Query \cup {NoState}]
            /\ R.at \in [Waiter -> Query \cup {NoState}]
        BY ZenonT(60), <1>0, <1>1 DEF MeshRecord
      <4>2. QED
        BY <1>1, <4>1, MeshAssumption DEF ReplyStates, Emptied, IsReplyState
    <3>2. Emptied(M, W) \in SUBSET ReplyStates(M)
      BY DEF Emptied, ReplyStates
    <3>3. QED
      BY SMTT(30), <1>0, <1>1, <3>1, <3>2, CardMinus, SetTypes DEF Inv, Counted
  <2>3. R.num_detached_states = Cardinality(Detached(R))
    <3> DEFINE E == {q \in Emptied(M, W) : M.super[q] = {}}
    <3>0. /\ R.at \in [Waiter -> Query \cup {NoState}]
          /\ M.at \in [Waiter -> Query \cup {NoState}]
          /\ R.at = [w \in Waiter |-> IF w \in W THEN NoState ELSE M.at[w]]
          /\ R.all = M.all /\ R.super = M.super
          /\ M.all \in SUBSET Query /\ Inside(M)
      BY ZenonT(60), <1>0, <1>1 DEF SameGraph, Inv, MeshRecord
    <3>1. Detached(R) = Detached(M) \cup E
      BY <1>0, <3>0, MeshAssumption
        DEF Detached, Emptied, IsReplyState, IsDetached, Inside
    <3>2. Detached(M) \cap E = {}
      BY DEF Detached, Emptied, IsDetached
    <3>3. E \in SUBSET Query
      BY DEF Emptied
    <3> HIDE DEF E
    <3>4. IsFiniteSet(E) /\ IsFiniteSet(Detached(M))
      BY <1>0, <3>3, CardNat, SetTypes
    <3>5. Cardinality(Detached(R)) = Cardinality(Detached(M)) + Cardinality(E)
      BY <3>1, <3>2, <3>4, CardPlus
    <3>6. QED
      BY SMTT(30), <1>1, <3>5 DEF Inv, Counted, E
  <2>4. R.num_forever_states = Cardinality(Forever(R))
    BY <1>1 DEF Inv, Counted, Forever, SameList
  <2>5. QED
    BY <2>1, <2>2, <2>3, <2>4 DEF Counted
<1>5. QED
  BY <1>1, <1>2, <1>3, <1>4 DEF Inv, R

LEMMA ReqInfoClearInv ==
  ASSUME NEW M, Inv(M), NEW K \in SUBSET Conn
  PROVE  LET R == tcp_req_info_clear(M, K)
         IN /\ Inv(R)
            /\ SameGraph(M, R) /\ SameWait(M, R)
            /\ Waiting(R) \subseteq Waiting(M)
<1> DEFINE R == tcp_req_info_clear(M, K)
           W == OnConns(M, K)
           C == mesh_state_remove_reply(M, W)
<1>0. M \in MeshRecord
  BY DEF Inv
<1>1. W \in SUBSET Waiting(M)
  <2> SUFFICES ASSUME NEW c \in Client, ConnOf[c] \in K,
                      M.at[c] \in M.open[ConnOf[c]]
               PROVE  c \in Waiting(M)
    BY DEF OnConns
  <2>1. M.open[ConnOf[c]] \subseteq Query
    BY <1>0 DEF MeshRecord
  <2>2. QED
    BY <2>1, MeshAssumption DEF Waiting, Waiter
<1>2. /\ R \in MeshRecord
      /\ SameGraph(C, R) /\ SameList(C, R) /\ SameModule(C, R)
      /\ SameWait(C, R) /\ SameReply(C, R) /\ SameDetached(C, R)
  BY <1>0, ReqInfoClearFields
<1>3. Inv(C)
  BY <1>1, RemoveReplyInv
<1>4. SameGraph(M, C) /\ SameWait(M, C) /\ Waiting(C) \subseteq Waiting(M)
  <2>1. W \in SUBSET Waiter
    BY <1>1 DEF Waiting
  <2>2. /\ SameGraph(M, C) /\ SameWait(M, C)
        /\ C.at = [w \in Waiter |-> IF w \in W THEN NoState ELSE M.at[w]]
    BY ZenonT(40), <1>0, <2>1, RemoveReplyFields
  <2>3. QED
    BY <2>2 DEF Waiting
<1> HIDE DEF R, C, W
<1>5. Core(C, R) /\ Quiet(R) /\ R.run \subseteq R.all
  BY <1>2, <1>3 DEF Core, SameGraph, SameList, SameReply, SameDetached, Inv,
                    Inside, Quiet, SameModule, SameWait
<1>6. Inv(R)
  BY <1>2, <1>3, <1>5, CoreInv
<1>7. QED
  BY <1>2, <1>4, <1>6 DEF R, SameGraph, SameWait, SameReply, Waiting

LEMMA SelectInv ==
  ASSUME NEW M, Inv(M), NEW q \in M.all
  PROVE  LET R == SelectList(M, q)
         IN /\ Inv(R)
            /\ SameGraph(M, R) /\ SameWait(M, R)
<1> DEFINE R == SelectList(M, q)
<1>0. M \in MeshRecord /\ q \in Query
  BY DEF Inv, MeshRecord
<1>1. /\ R \in MeshRecord
      /\ SameGraph(M, R) /\ SameModule(M, R) /\ SameWait(M, R)
      /\ SameConn(M, R) /\ SameReply(M, R) /\ SameDetached(M, R)
      /\ \/ /\ R.list = M.list
            /\ R.num_forever_states = M.num_forever_states
         \/ /\ M.list[q] = "no"
            /\ R.list = [M.list EXCEPT ![q] = "forever"]
            /\ R.num_forever_states = M.num_forever_states + 1
         \/ /\ M.list[q] = "no"
            /\ R.list = [M.list EXCEPT ![q] = "jostle"]
            /\ R.num_forever_states = M.num_forever_states
  BY ZenonT(60), <1>0, SelectFields
<1> HIDE DEF R
<1>2. Inside(R)
  <2>1. /\ M.list \in [Query -> {"no", "forever", "jostle"}]
        /\ M.all \in SUBSET Query /\ q \in M.all /\ Inside(M)
        /\ R.all = M.all /\ R.run = M.run /\ R.at = M.at
    BY ZenonT(60), <1>0, <1>1 DEF Inv, SameGraph, SameReply, MeshRecord
  <2>2. QED
    BY <1>1, <2>1 DEF Inside
<1>3. Quiet(R) /\ InSync(R) /\ Acyclic(R)
  <2>1. Quiet(R)
    BY ZenonT(60), <1>1 DEF Inv, Quiet, SameGraph, SameModule, SameWait
  <2>2. InSync(R) /\ Acyclic(R)
    BY ZenonT(60), <1>1 DEF Inv, InSync, Acyclic, SameGraph
  <2>3. QED
    BY <2>1, <2>2
<1>4. R.num_forever_states = Cardinality(Forever(R))
  <2>0. M.num_forever_states = Cardinality(Forever(M)) /\ IsFiniteSet(Forever(M))
    BY <1>0, SetTypes DEF Inv, Counted
  <2>1. CASE /\ R.list = M.list
             /\ R.num_forever_states = M.num_forever_states
    BY <2>0, <2>1 DEF Forever
  <2>2. CASE /\ M.list[q] = "no"
             /\ R.list = [M.list EXCEPT ![q] = "forever"]
             /\ R.num_forever_states = M.num_forever_states + 1
    <3>1. Forever(R) = Forever(M) \cup {q} /\ q \notin Forever(M)
      BY <1>0, <2>2 DEF Forever, MeshRecord
    <3>2. QED
      BY ZenonT(40), <2>0, <2>2, <3>1, FS_AddElement
  <2>3. CASE /\ M.list[q] = "no"
             /\ R.list = [M.list EXCEPT ![q] = "jostle"]
             /\ R.num_forever_states = M.num_forever_states
    <3>1. Forever(R) = Forever(M)
      BY <1>0, <2>3 DEF Forever, MeshRecord
    <3>2. QED
      BY <2>0, <2>3, <3>1
  <2>4. QED
    BY <1>1, <2>1, <2>2, <2>3
<1>5. Counted(R)
  <2>1. /\ Waiting(R) = Waiting(M) /\ ReplyStates(R) = ReplyStates(M)
        /\ Detached(R) = Detached(M)
    BY <1>1 DEF SameGraph, SameReply, Waiting, ReplyStates, Detached,
                IsReplyState, IsDetached
  <2>2. QED
    BY <1>1, <1>4, <2>1 DEF Inv, Counted, SameReply, SameDetached
<1>6. QED
  BY <1>1, <1>2, <1>3, <1>5 DEF Inv, R

LEMMA CreateInv ==
  ASSUME NEW M, Inv(M), NEW q \in Query \ M.all
  PROVE  LET R == mesh_state_create(M, q)
         IN /\ Inv(R)
            /\ R.all = M.all \cup {q} /\ R.run = M.run /\ R.sub = M.sub
            /\ R.super = M.super /\ R.at = M.at /\ SameWait(M, R)
<1> DEFINE R == mesh_state_create(M, q)
<1>0. M \in MeshRecord
  BY DEF Inv
<1>1. /\ R \in MeshRecord
      /\ SameList(M, R) /\ SameModule(M, R) /\ SameWait(M, R)
      /\ SameConn(M, R) /\ SameReply(M, R)
      /\ R.all = M.all \cup {q} /\ R.run = M.run
      /\ R.sub = M.sub /\ R.super = M.super
      /\ R.num_detached_states = M.num_detached_states + 1
  BY ZenonT(60), <1>0, CreateFields
<1> HIDE DEF R
<1>2. Inside(R) /\ Quiet(R)
  BY <1>1 DEF Inv, Inside, Quiet, SameList, SameReply, SameModule, SameWait
<1>3. InSync(R) /\ Acyclic(R)
  BY SMTT(30), <1>1 DEF Inv, InSync, Acyclic
<1>4. R.num_detached_states = Cardinality(Detached(R))
  <2>1. ~IsReplyState(M, q)
    BY MeshAssumption DEF Inv, Inside, IsReplyState
  <2>2. M.super[q] = {}
    BY <1>0 DEF Inv, InSync, MeshRecord
  <2>3. Detached(R) = Detached(M) \cup {q} /\ q \notin Detached(M)
    BY <1>1, <2>1, <2>2 DEF Detached, IsDetached, IsReplyState, SameReply
  <2>4. IsFiniteSet(Detached(M))
    BY <1>0, SetTypes
  <2>5. Cardinality(Detached(R)) = Cardinality(Detached(M)) + 1
    BY ZenonT(40), <2>3, <2>4, FS_AddElement
  <2>6. QED
    BY <1>1, <2>5 DEF Inv, Counted
<1>5. Counted(R)
  <2>1. /\ Waiting(R) = Waiting(M) /\ ReplyStates(R) = ReplyStates(M)
        /\ Forever(R) = Forever(M)
    BY <1>1 DEF SameList, SameReply, Waiting, ReplyStates, Forever,
                IsReplyState
  <2>2. QED
    BY <1>1, <1>4, <2>1 DEF Inv, Counted, SameReply, SameList
<1>6. QED
  BY <1>1, <1>2, <1>3, <1>5 DEF Inv, R, SameReply

LEMMA AddSubInv ==
  ASSUME NEW M, Inv(M), NEW q \in Query
  PROVE  LET R == mesh_add_sub(M, q)
         IN /\ Inv(R)
            /\ R.all = M.all \cup {q} /\ M.run \subseteq R.run
            /\ q \notin M.all => q \in R.run
            /\ R.sub = M.sub /\ R.super = M.super /\ SameWait(M, R)
<1> DEFINE R == mesh_add_sub(M, q)
           A == mesh_state_create(M, q)
<1>1. CASE q \in M.all
  <2>1. R = M
    BY SMTT(30), <1>1 DEF mesh_add_sub
  <2>2. QED
    BY <1>1, <2>1 DEF SameWait
<1>2. CASE q \notin M.all
  <2>0. M \in MeshRecord
    BY DEF Inv
  <2>1. /\ Inv(A)
        /\ A.all = M.all \cup {q} /\ A.run = M.run /\ A.sub = M.sub
        /\ A.super = M.super /\ SameWait(M, A)
    BY ZenonT(60), <1>2, CreateInv
  <2>2. /\ R \in MeshRecord
        /\ SameList(A, R) /\ SameModule(A, R) /\ SameWait(A, R)
        /\ SameConn(A, R) /\ SameReply(A, R) /\ SameDetached(A, R)
        /\ R.all = A.all /\ R.run = A.run \cup {q}
        /\ R.sub = A.sub /\ R.super = A.super
    BY ZenonT(60), <1>2, <2>0, AddSubFields
  <2> HIDE DEF R, A
  <2>3. Core(A, R) /\ Quiet(R) /\ R.run \subseteq R.all
    <3>1. Core(A, R)
      BY ZenonT(60), <2>2 DEF Core, SameList, SameReply, SameDetached
    <3>2. Quiet(R)
      BY ZenonT(60), <2>1, <2>2 DEF Inv, Quiet, SameModule, SameWait
    <3>3. A.run \subseteq A.all /\ q \in A.all
      BY ZenonT(60), <2>1 DEF Inv, Inside
    <3>4. QED
      BY <2>2, <3>1, <3>2, <3>3
  <2>4. Inv(R)
    BY ZenonT(60), <2>1, <2>2, <2>3, CoreInv
  <2>5. QED
    BY <2>1, <2>2, <2>4 DEF R, SameWait
<1>3. QED
  BY <1>1, <1>2

LEMMA WalkSupersInv ==
  ASSUME NEW M, Inv(M), NEW q \in Query
  PROVE  LET R == mesh_walk_supers(M, q)
         IN /\ Inv(R)
            /\ R.all = M.all /\ R.run = M.run \cup M.super[q]
            /\ R.sub = M.sub /\ R.super = M.super /\ SameWait(M, R)
            /\ R.at = M.at
<1> DEFINE R == mesh_walk_supers(M, q)
<1>0. M \in MeshRecord
  BY DEF Inv
<1>1. /\ R \in MeshRecord
      /\ SameList(M, R) /\ SameModule(M, R) /\ SameWait(M, R)
      /\ SameConn(M, R) /\ SameReply(M, R) /\ SameDetached(M, R)
      /\ R.all = M.all /\ R.run = M.run \cup M.super[q]
      /\ R.sub = M.sub /\ R.super = M.super
  BY ZenonT(60), <1>0, WalkSupersFields
<1> HIDE DEF R
<1>2. M.super[q] \subseteq M.all
  BY SMTT(120), <1>0 DEF Inv, InSync, MeshRecord
<1>3. Core(M, R) /\ Quiet(R) /\ R.run \subseteq R.all
  BY <1>1, <1>2 DEF Core, SameList, SameReply, SameDetached, Inv, Inside,
                    Quiet, SameModule, SameWait
<1>4. Inv(R)
  BY SMTT(30), <1>1, <1>3, CoreInv
<1>5. QED
  BY ZenonT(60), <1>1, <1>4 DEF R, SameReply

LEMMA AddWaiterInv ==
  ASSUME NEW M, Inv(M), NEW q \in M.all, NEW w \in Waiter \ Waiting(M)
  PROVE  LET R == AddWaiter(M, q, w)
         IN /\ Inv(R)
            /\ SameGraph(M, R) /\ R.outbound = M.outbound
<1> DEFINE R == AddWaiter(M, q, w)
<1>0. M \in MeshRecord /\ q \in Query /\ w \in Waiter /\ M.at[w] = NoState
  BY ZenonT(60) DEF Inv, MeshRecord, Waiting
<1>1. /\ R \in MeshRecord
      /\ SameGraph(M, R) /\ SameList(M, R) /\ SameModule(M, R)
      /\ SameConn(M, R)
      /\ R.outbound = M.outbound
      /\ \A x \in Query \ {q} : R.timer[x] = M.timer[x]
      /\ R.at = [M.at EXCEPT ![w] = q]
      /\ R.num_reply_addrs = M.num_reply_addrs + 1
      /\ R.num_reply_states = M.num_reply_states + Bit(~IsReplyState(M, q))
      /\ R.num_detached_states = M.num_detached_states - Bit(IsDetached(M, q))
  BY ZenonT(60), <1>0, AddWaiterFields
<1> HIDE DEF R
<1>2. Inside(R)
  <2>1. /\ M.at \in [Waiter -> Query \cup {NoState}] /\ Inside(M)
        /\ R.all = M.all /\ R.run = M.run /\ R.list = M.list
    BY ZenonT(60), <1>0, <1>1 DEF Inv, SameGraph, SameList, MeshRecord
  <2>2. QED
    BY <1>0, <1>1, <2>1 DEF Inside
<1>3. Quiet(R)
  BY ZenonT(60), <1>0, <1>1 DEF Inv, Quiet, SameGraph, SameModule
<1>4. InSync(R) /\ Acyclic(R)
  BY ZenonT(60), <1>1 DEF Inv, InSync, Acyclic, SameGraph
<1>5. Counted(R)
  <2>0. /\ IsFiniteSet(Waiting(M)) /\ IsFiniteSet(ReplyStates(M))
        /\ IsFiniteSet(Detached(M))
    BY SMTT(30), <1>0, SetTypes
  <2>1. R.num_reply_addrs = Cardinality(Waiting(R))
    <3>1. Waiting(R) = Waiting(M) \cup {w} /\ w \notin Waiting(M)
      BY SMTT(30), <1>0, <1>1, MeshAssumption DEF Waiting, MeshRecord
    <3>2. Cardinality(Waiting(R)) = Cardinality(Waiting(M)) + 1
      BY ZenonT(40), <2>0, <3>1, FS_AddElement
    <3>3. QED
      BY ZenonT(60), <1>1, <3>2 DEF Inv, Counted
  <2>2. R.num_reply_states = Cardinality(ReplyStates(R))
    <3>1. /\ ReplyStates(R) = ReplyStates(M) \cup {q}
          /\ q \notin ReplyStates(M) <=> ~IsReplyState(M, q)
      <4>1. M.at \in [Waiter -> Query \cup {NoState}]
        BY ZenonT(60), <1>0 DEF MeshRecord
      <4>2. QED
        BY <1>0, <1>1, <4>1, MeshAssumption DEF ReplyStates, IsReplyState
    <3>2. Cardinality(ReplyStates(R))
            = Cardinality(ReplyStates(M)) + Bit(q \notin ReplyStates(M))
      BY ZenonT(40), <2>0, <3>1, CardBit
    <3>3. Bit(q \notin ReplyStates(M)) = Bit(~IsReplyState(M, q))
      BY <3>1 DEF Bit
    <3>4. QED
      BY <1>1, <3>2, <3>3 DEF Inv, Counted
  <2>3. R.num_detached_states = Cardinality(Detached(R))
    <3>1. /\ Detached(R) = Detached(M) \ {q}
          /\ q \in Detached(M) <=> IsDetached(M, q)
      <4>1. /\ M.at \in [Waiter -> Query \cup {NoState}]
            /\ R.all = M.all /\ R.super = M.super
            /\ R.at = [M.at EXCEPT ![w] = q]
            /\ M.all \in SUBSET Query /\ q \in M.all
        BY ZenonT(60), <1>0, <1>1 DEF MeshRecord, SameGraph
      <4>2. QED
        BY <1>0, <4>1, MeshAssumption
          DEF Detached, IsDetached, IsReplyState
    <3>2. Cardinality(Detached(R))
            = Cardinality(Detached(M)) - Bit(q \in Detached(M))
      BY ZenonT(40), <2>0, <3>1, CardBit
    <3>3. Bit(q \in Detached(M)) = Bit(IsDetached(M, q))
      BY <3>1 DEF Bit
    <3>4. QED
      BY <1>1, <3>2, <3>3 DEF Inv, Counted
  <2>4. R.num_forever_states = Cardinality(Forever(R))
    BY ZenonT(60), <1>1 DEF Inv, Counted, Forever, SameList
  <2>5. QED
    BY SMTT(30), <2>1, <2>2, <2>3, <2>4 DEF Counted
<1>6. QED
  BY ZenonT(60), <1>1, <1>2, <1>3, <1>4, <1>5 DEF Inv, R

LEMMA AddReplyInv ==
  ASSUME NEW M, Inv(M), NEW q \in M.all, NEW c \in Client \ Waiting(M)
  PROVE  LET R == mesh_state_add_reply(M, q, c)
         IN /\ Inv(R)
            /\ SameGraph(M, R) /\ R.outbound = M.outbound
<1> DEFINE R == mesh_state_add_reply(M, q, c)
           A == AddWaiter(M, q, c)
<1>0. /\ M \in MeshRecord /\ q \in Query /\ c \in Client
      /\ c \in Waiter \ Waiting(M)
  BY DEF Inv, MeshRecord, Waiter
<1>1. Inv(A) /\ SameGraph(M, A) /\ A.outbound = M.outbound
  BY SMTT(30), <1>0, AddWaiterInv
<1>2. /\ R \in MeshRecord
      /\ SameGraph(A, R) /\ SameList(A, R) /\ SameWait(A, R)
      /\ SameReply(A, R) /\ SameDetached(A, R)
      /\ \A x \in Query \ {q} : R.age[x] = A.age[x]
  BY ZenonT(60), <1>0, AddReplyFields
<1> HIDE DEF R, A
<1>3. Core(A, R) /\ Quiet(R) /\ R.run \subseteq R.all
  <2>1. Core(A, R)
    BY ZenonT(60), <1>2 DEF Core, SameGraph, SameList, SameReply, SameDetached
  <2>2. Quiet(A) /\ A.run \subseteq A.all /\ q \in A.all
    BY ZenonT(60), <1>1 DEF Inv, Inside, SameGraph
  <2>3. Quiet(R)
    BY <1>2, <2>2 DEF Quiet, SameGraph, SameWait
  <2>4. QED
    BY <1>2, <2>1, <2>2, <2>3 DEF SameGraph
<1>4. Inv(R)
  BY <1>1, <1>2, <1>3, CoreInv
<1>5. QED
  BY <1>1, <1>2, <1>4 DEF R, SameGraph, SameWait

=============================================================================
