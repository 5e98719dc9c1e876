----------------------------- MODULE MeshFields -----------------------------
(***************************************************************************)
(* What each operator of Mesh returns: the type of the resulting mesh and  *)
(* the value of each of its fields.  The proofs about the mesh cite these  *)
(* lemmas instead of the definitions of the operators.                     *)
(***************************************************************************)
EXTENDS Mesh, FiniteSetTheorems, TLAPS

(* What two mesh records agree on. *)

SameGraph(M, R) ==
  R.all = M.all /\ R.run = M.run /\ R.sub = M.sub /\ R.super = M.super

SameList(M, R) ==
  /\ R.list = M.list /\ R.num_forever_states = M.num_forever_states
  /\ R.first = M.first /\ R.last = M.last
  /\ R.next = M.next /\ R.prev = M.prev

SameModule(M, R) ==
  /\ R.age = M.age /\ R.curmod = M.curmod
  /\ R.num_activated = M.num_activated /\ R.blacklist = M.blacklist

SameWait(M, R) == R.outbound = M.outbound /\ R.timer = M.timer

SameConn(M, R) == R.up = M.up /\ R.open = M.open

SameReply(M, R) ==
  /\ R.at = M.at
  /\ R.num_reply_addrs = M.num_reply_addrs
  /\ R.num_reply_states = M.num_reply_states

SameDetached(M, R) == R.num_detached_states = M.num_detached_states

\* A number that is one when the condition holds.
Bit(b) == IF b THEN 1 ELSE 0

-----------------------------------------------------------------------------
(* The operators, one lemma each: the type of the result and its fields. *)

\* Subsets of the constant sets are finite, and their cardinality a number.
LEMMA CardNat ==
  /\ \A S \in SUBSET Query : IsFiniteSet(S) /\ Cardinality(S) \in Nat
  /\ \A S \in SUBSET Waiter : IsFiniteSet(S) /\ Cardinality(S) \in Nat
<1>1. IsFiniteSet(Waiter)
  BY ZenonT(40), MeshAssumption, FS_Union DEF Waiter
<1>2. QED
  BY <1>1, MeshAssumption, FS_Subset, FS_CardinalityType

\* The states that stop being reply states when the waiters W leave.
Emptied(M, W) ==
  {q \in Query : /\ IsReplyState(M, q)
                 /\ \A w \in Waiter : M.at[w] = q => w \in W}

\* mesh_state_remove_reply only touches the lists of waiters and the counters.
LEMMA RemoveReplyFields ==
  ASSUME NEW M \in MeshRecord, NEW W \in SUBSET Waiter
  PROVE  LET R == mesh_state_remove_reply(M, W)
         IN /\ R \in MeshRecord
            /\ SameGraph(M, R) /\ SameList(M, R) /\ SameModule(M, R)
            /\ SameWait(M, R) /\ SameConn(M, R)
            /\ R.at = [w \in Waiter |-> IF w \in W THEN NoState ELSE M.at[w]]
            /\ R.num_reply_addrs = M.num_reply_addrs - Cardinality(W)
            /\ R.num_reply_states =
                 M.num_reply_states - Cardinality(Emptied(M, W))
            /\ R.num_detached_states =
                 M.num_detached_states
                   + Cardinality({q \in Emptied(M, W) : M.super[q] = {}})
<1> DEFINE at1 == [w \in Waiter |-> IF w \in W THEN NoState ELSE M.at[w]]
           R1 == [M EXCEPT !.at = at1]
           E == {q \in Query : IsReplyState(M, q) /\ ~IsReplyState(R1, q)}
           a == M.num_reply_addrs - Cardinality(W)
           b == M.num_reply_states - Cardinality(Emptied(M, W))
           d == M.num_detached_states
                  + Cardinality({q \in Emptied(M, W) : M.super[q] = {}})
           R == mesh_state_remove_reply(M, W)
<1>1. R1.at = at1 /\ R1.num_reply_addrs = M.num_reply_addrs
      /\ R1.num_reply_states = M.num_reply_states
      /\ R1.num_detached_states = M.num_detached_states
  BY DEF MeshRecord
<1>2. E = Emptied(M, W)
  BY <1>1, MeshAssumption DEF Emptied, IsReplyState
<1>3. a \in Int /\ b \in Int /\ d \in Int
  BY CardNat DEF Emptied, MeshRecord
<1>4. at1 \in [Waiter -> Query \cup {NoState}]
  BY DEF MeshRecord
<1>5. R = [R1 EXCEPT !.num_reply_addrs = a, !.num_reply_states = b,
                     !.num_detached_states = d]
  BY ZenonT(40), <1>1, <1>2 DEF mesh_state_remove_reply
<1>6. R = [M EXCEPT !.at = at1, !.num_reply_addrs = a, !.num_reply_states = b,
                    !.num_detached_states = d]
  BY <1>5
<1> HIDE DEF at1, a, b, d, R, R1
<1>7. R \in MeshRecord
  BY <1>3, <1>4, <1>6, ZenonT(40) DEF MeshRecord
<1>8. /\ SameGraph(M, R) /\ SameList(M, R) /\ SameModule(M, R)
      /\ SameWait(M, R) /\ SameConn(M, R) /\ R.at = at1
      /\ R.num_reply_addrs = a /\ R.num_reply_states = b
      /\ R.num_detached_states = d
  BY <1>6 DEF MeshRecord, SameGraph, SameList, SameModule, SameWait, SameConn
<1>9. QED
  BY <1>7, <1>8 DEF at1, a, b, d, R

LEMMA RemoveMeshStateFields ==
  ASSUME NEW M \in MeshRecord, NEW K, NEW q \in Query
  PROVE  LET R == tcp_req_info_remove_mesh_state(M, K, q)
         IN /\ R \in MeshRecord
            /\ SameGraph(M, R) /\ SameList(M, R) /\ SameModule(M, R)
            /\ SameWait(M, R) /\ SameReply(M, R) /\ SameDetached(M, R)
            /\ R.up = M.up
<1> DEFINE o == [k \in Conn |-> IF k \in K THEN M.open[k] \ {q}
                                ELSE M.open[k]]
           R == tcp_req_info_remove_mesh_state(M, K, q)
<1>1. o \in [Conn -> SUBSET Query]
  BY DEF MeshRecord
<1>2. R = [M EXCEPT !.open = o]
  BY DEF tcp_req_info_remove_mesh_state
<1> HIDE DEF o, R
<1>3. R \in MeshRecord
  BY <1>1, <1>2, ZenonT(40) DEF MeshRecord
<1>4. /\ SameGraph(M, R) /\ SameList(M, R) /\ SameModule(M, R)
      /\ SameWait(M, R) /\ SameReply(M, R) /\ SameDetached(M, R)
      /\ R.up = M.up
  BY <1>2 DEF MeshRecord, SameGraph, SameList, SameModule, SameWait,
              SameReply, SameDetached
<1>5. QED
  BY <1>3, <1>4 DEF R

\* The replies that closing the connections K takes off the states.
OnConns(M, K) ==
  {c \in Client : ConnOf[c] \in K /\ M.at[c] \in M.open[ConnOf[c]]}

LEMMA ReqInfoClearFields ==
  ASSUME NEW M \in MeshRecord, NEW K
  PROVE  LET R == tcp_req_info_clear(M, K)
             C == mesh_state_remove_reply(M, OnConns(M, K))
         IN /\ R \in MeshRecord
            /\ SameGraph(C, R) /\ SameList(C, R) /\ SameModule(C, R)
            /\ SameWait(C, R) /\ SameReply(C, R) /\ SameDetached(C, R)
<1> DEFINE C == mesh_state_remove_reply(M, OnConns(M, K))
           o == [k \in Conn |-> IF k \in K THEN {} ELSE M.open[k]]
           u == C.up \ K
           R == tcp_req_info_clear(M, K)
<1>1. OnConns(M, K) \in SUBSET Waiter
  BY DEF OnConns, Waiter
<1>2. C \in MeshRecord
  BY ZenonT(40), <1>1, RemoveReplyFields
<1>3. o \in [Conn -> SUBSET Query] /\ u \in SUBSET Conn
  BY <1>2 DEF MeshRecord
<1>4. R = [C EXCEPT !.up = u, !.open = o]
  BY DEF tcp_req_info_clear, OnConns
<1> HIDE DEF o, u, C, R
<1>5. R \in MeshRecord
  BY <1>2, <1>3, <1>4, ZenonT(40) DEF MeshRecord
<1>6. /\ SameGraph(C, R) /\ SameList(C, R) /\ SameModule(C, R)
      /\ SameWait(C, R) /\ SameReply(C, R) /\ SameDetached(C, R)
  BY <1>2, <1>4 DEF MeshRecord, SameGraph, SameList, SameModule, SameWait,
                    SameReply, SameDetached
<1>7. QED
  BY <1>5, <1>6 DEF C, R

\* Inserting in and removing from the jostle list changes only its links.
LEMMA ListFields ==
  ASSUME NEW M \in MeshRecord, NEW q \in Query
  PROVE  \A R \in {mesh_list_insert(M, q), mesh_list_remove(M, q)} :
            /\ R \in MeshRecord
            /\ SameGraph(M, R) /\ SameModule(M, R) /\ SameWait(M, R)
            /\ SameConn(M, R) /\ SameReply(M, R) /\ SameDetached(M, R)
            /\ R.list = M.list /\ R.num_forever_states = M.num_forever_states
<1> SUFFICES ASSUME NEW R \in {mesh_list_insert(M, q), mesh_list_remove(M, q)}
             PROVE  /\ R \in MeshRecord
                    /\ SameGraph(M, R) /\ SameModule(M, R) /\ SameWait(M, R)
                    /\ SameConn(M, R) /\ SameReply(M, R) /\ SameDetached(M, R)
                    /\ R.list = M.list
                    /\ R.num_forever_states = M.num_forever_states
  BY SMTT(30)
<1>1. PICK f \in Query \cup {NoState}, l \in Query \cup {NoState},
           n \in [Query -> Query \cup {NoState}],
           p \in [Query -> Query \cup {NoState}] :
        R = [M EXCEPT !.next = n, !.prev = p, !.first = f, !.last = l]
  <2>1. CASE R = mesh_list_insert(M, q)
    <3> DEFINE p == [M.prev EXCEPT ![q] = M.last]
               n == [x \in Query |-> IF x = q THEN NoState
                                     ELSE IF x = M.last THEN q ELSE M.next[x]]
               f == IF M.last = NoState THEN q ELSE M.first
    <3>1. /\ p \in [Query -> Query \cup {NoState}]
          /\ n \in [Query -> Query \cup {NoState}]
          /\ f \in Query \cup {NoState}
      BY DEF MeshRecord
    <3>2. R = [M EXCEPT !.next = n, !.prev = p, !.first = f, !.last = q]
      BY ZenonT(40), <2>1 DEF mesh_list_insert
    <3> HIDE DEF p, n, f
    <3>3. QED
      BY ZenonT(40), <3>1, <3>2
  <2>2. CASE R = mesh_list_remove(M, q)
    <3> DEFINE n == [x \in Query |-> IF x = q THEN NoState
                                     ELSE IF x = M.prev[q] THEN M.next[q]
                                     ELSE M.next[x]]
               p == [x \in Query |-> IF x = q THEN NoState
                                     ELSE IF x = M.next[q] THEN M.prev[q]
                                     ELSE M.prev[x]]
               f == IF M.prev[q] = NoState THEN M.next[q] ELSE M.first
               l == IF M.next[q] = NoState THEN M.prev[q] ELSE M.last
    <3>1. /\ p \in [Query -> Query \cup {NoState}]
          /\ n \in [Query -> Query \cup {NoState}]
          /\ f \in Query \cup {NoState} /\ l \in Query \cup {NoState}
      BY DEF MeshRecord
    <3>2. R = [M EXCEPT !.next = n, !.prev = p, !.first = f, !.last = l]
      BY <2>2 DEF mesh_list_remove
    <3> HIDE DEF p, n, f, l
    <3>3. QED
      BY ZenonT(40), <3>1, <3>2
  <2>3. QED
    BY ZenonT(40), <2>1, <2>2
<1>2. R \in MeshRecord
  BY <1>1, ZenonT(40) DEF MeshRecord
<1>3. QED
  BY <1>1, <1>2 DEF MeshRecord, SameGraph, SameModule, SameWait, SameConn,
                    SameReply, SameDetached

\* Putting a state on a list, or taking it off, leaves everything else alone.
LEMMA SelectFields ==
  ASSUME NEW M \in MeshRecord, NEW q \in Query
  PROVE  LET R == SelectList(M, q)
         IN /\ R \in MeshRecord
            /\ SameGraph(M, R) /\ SameModule(M, R) /\ SameWait(M, R)
            /\ SameConn(M, R) /\ SameReply(M, R) /\ SameDetached(M, R)
            /\ \/ /\ R.list = M.list
                  /\ R.num_forever_states = M.num_forever_states
               \/ /\ M.list[q] = "no"
                  /\ R.list = [M.list EXCEPT ![q] = "forever"]
                  /\ R.num_forever_states = M.num_forever_states + 1
               \/ /\ M.list[q] = "no"
                  /\ R.list = [M.list EXCEPT ![q] = "jostle"]
                  /\ R.num_forever_states = M.num_forever_states
<1> DEFINE R == SelectList(M, q)
<1>1. CASE M.list[q] # "no"
  <2>1. R = M
    BY SMTT(30), <1>1 DEF SelectList
  <2>2. QED
    BY <2>1 DEF SameGraph, SameModule, SameWait, SameConn, SameReply,
                SameDetached
<1>2. CASE /\ M.list[q] = "no"
           /\ M.num_forever_states < max_forever_states
  <2> DEFINE n == M.num_forever_states + 1
             l == [M.list EXCEPT ![q] = "forever"]
  <2>1. n \in Int /\ l \in [Query -> {"no", "forever", "jostle"}]
    BY DEF MeshRecord
  <2>2. R = [M EXCEPT !.num_forever_states = n, !.list = l]
    BY <1>2 DEF SelectList
  <2> HIDE DEF n, l, R
  <2>3. R \in MeshRecord
    BY <2>1, <2>2, ZenonT(40) DEF MeshRecord
  <2>4. /\ SameGraph(M, R) /\ SameModule(M, R) /\ SameWait(M, R)
        /\ SameConn(M, R) /\ SameReply(M, R) /\ SameDetached(M, R)
        /\ R.list = l /\ R.num_forever_states = n
    BY <2>2 DEF MeshRecord, SameGraph, SameModule, SameWait, SameConn,
                SameReply, SameDetached
  <2>5. QED
    BY <1>2, <2>3, <2>4 DEF R, n, l
<1>3. CASE /\ M.list[q] = "no"
           /\ ~(M.num_forever_states < max_forever_states)
  <2> DEFINE I == mesh_list_insert(M, q)
             l == [M.list EXCEPT ![q] = "jostle"]
  <2>1. l \in [Query -> {"no", "forever", "jostle"}]
    BY DEF MeshRecord
  <2>2. /\ I \in MeshRecord
        /\ SameGraph(M, I) /\ SameModule(M, I) /\ SameWait(M, I)
        /\ SameConn(M, I) /\ SameReply(M, I) /\ SameDetached(M, I)
        /\ I.list = M.list /\ I.num_forever_states = M.num_forever_states
    BY ListFields
  <2> HIDE DEF I
  <2>3. R = [I EXCEPT !.list = l]
    BY <1>3, <2>2 DEF SelectList, I
  <2> HIDE DEF l, R
  <2>4. R \in MeshRecord
    BY <2>1, <2>2, <2>3, ZenonT(40) DEF MeshRecord
  <2>5. /\ SameGraph(I, R) /\ SameModule(I, R) /\ SameWait(I, R)
        /\ SameConn(I, R) /\ SameReply(I, R) /\ SameDetached(I, R)
        /\ R.list = l /\ R.num_forever_states = I.num_forever_states
    BY <2>2, <2>3 DEF MeshRecord, SameGraph, SameModule, SameWait, SameConn,
                SameReply, SameDetached
  <2>6. /\ SameGraph(M, R) /\ SameModule(M, R) /\ SameWait(M, R)
        /\ SameConn(M, R) /\ SameReply(M, R) /\ SameDetached(M, R)
    BY SMTT(30), <2>2, <2>5 DEF SameGraph, SameModule, SameWait, SameConn,
                SameReply, SameDetached
  <2>7. QED
    BY <1>3, <2>2, <2>4, <2>5, <2>6 DEF R, l
<1>4. QED
  BY ZenonT(60), <1>1, <1>2, <1>3 DEF MeshRecord

LEMMA UnselectFields ==
  ASSUME NEW M \in MeshRecord, NEW q \in Query
  PROVE  LET R == UnselectList(M, q)
         IN /\ R \in MeshRecord
            /\ SameGraph(M, R) /\ SameModule(M, R) /\ SameWait(M, R)
            /\ SameConn(M, R) /\ SameReply(M, R) /\ SameDetached(M, R)
            /\ R.list = [M.list EXCEPT ![q] = "no"]
            /\ R.num_forever_states =
                 M.num_forever_states - Bit(M.list[q] = "forever")
<1> DEFINE R == UnselectList(M, q)
           l == [M.list EXCEPT ![q] = "no"]
           n == M.num_forever_states - 1
<1>0. l \in [Query -> {"no", "forever", "jostle"}] /\ n \in Int
  BY SMTT(30) DEF MeshRecord
<1>1. CASE M.list[q] = "forever"
  <2>1. R = [M EXCEPT !.num_forever_states = n, !.list = l]
    BY <1>1 DEF UnselectList
  <2> HIDE DEF n, l, R
  <2>2. R \in MeshRecord
    BY <1>0, <2>1, ZenonT(40) DEF MeshRecord
  <2>3. /\ SameGraph(M, R) /\ SameModule(M, R) /\ SameWait(M, R)
        /\ SameConn(M, R) /\ SameReply(M, R) /\ SameDetached(M, R)
        /\ R.list = l /\ R.num_forever_states = n
    BY <2>1 DEF MeshRecord, SameGraph, SameModule, SameWait, SameConn,
                SameReply, SameDetached
  <2>4. QED
    BY <1>1, <2>2, <2>3 DEF R, n, l, Bit
<1>2. CASE M.list[q] = "jostle"
  <2> DEFINE I == mesh_list_remove(M, q)
  <2>1. /\ I \in MeshRecord
        /\ SameGraph(M, I) /\ SameModule(M, I) /\ SameWait(M, I)
        /\ SameConn(M, I) /\ SameReply(M, I) /\ SameDetached(M, I)
        /\ I.list = M.list /\ I.num_forever_states = M.num_forever_states
    BY ListFields
  <2> HIDE DEF I
  <2>2. R = [I EXCEPT !.list = l]
    BY <1>2, <2>1 DEF UnselectList, I
  <2> HIDE DEF l, R
  <2>3. R \in MeshRecord
    BY <1>0, <2>1, <2>2, ZenonT(40) DEF MeshRecord
  <2>4. /\ SameGraph(I, R) /\ SameModule(I, R) /\ SameWait(I, R)
        /\ SameConn(I, R) /\ SameReply(I, R) /\ SameDetached(I, R)
        /\ R.list = l /\ R.num_forever_states = I.num_forever_states
    BY <2>1, <2>2 DEF MeshRecord, SameGraph, SameModule, SameWait, SameConn,
                SameReply, SameDetached
  <2>5. /\ SameGraph(M, R) /\ SameModule(M, R) /\ SameWait(M, R)
        /\ SameConn(M, R) /\ SameReply(M, R) /\ SameDetached(M, R)
    BY SMTT(30), <2>1, <2>4 DEF SameGraph, SameModule, SameWait, SameConn,
                SameReply, SameDetached
  <2>6. R.num_forever_states = M.num_forever_states - 0
    BY SMTT(30), <2>1, <2>4 DEF MeshRecord
  <2>7. QED
    BY <1>2, <2>3, <2>4, <2>5, <2>6 DEF R, l, Bit
<1>3. CASE M.list[q] = "no"
  <2>1. R = M
    BY <1>3 DEF UnselectList
  <2>2. l = M.list /\ M.num_forever_states = M.num_forever_states - 0
    BY SMTT(30), <1>3 DEF MeshRecord
  <2>3. QED
    BY <1>3, <2>1, <2>2 DEF SameGraph, SameModule, SameWait, SameConn,
                SameReply, SameDetached, Bit
<1>4. QED
  BY <1>1, <1>2, <1>3 DEF MeshRecord

LEMMA CreateFields ==
  ASSUME NEW M \in MeshRecord, NEW q \in Query
  PROVE  LET R == mesh_state_create(M, q)
         IN /\ R \in MeshRecord
            /\ SameList(M, R) /\ SameModule(M, R) /\ SameWait(M, R)
            /\ SameConn(M, R) /\ SameReply(M, R)
            /\ R.all = M.all \cup {q} /\ R.run = M.run
            /\ R.sub = M.sub /\ R.super = M.super
            /\ R.num_detached_states = M.num_detached_states + 1
<1> DEFINE a == M.all \cup {q}
           n == M.num_detached_states + 1
           R == mesh_state_create(M, q)
<1>1. a \in SUBSET Query /\ n \in Int
  BY DEF MeshRecord
<1>2. R = [M EXCEPT !.all = a, !.num_detached_states = n]
  BY DEF mesh_state_create
<1> HIDE DEF a, n, R
<1>3. R \in MeshRecord
  BY <1>1, <1>2, ZenonT(40) DEF MeshRecord
<1>4. /\ SameList(M, R) /\ SameModule(M, R) /\ SameWait(M, R)
      /\ SameConn(M, R) /\ SameReply(M, R)
      /\ R.all = a /\ R.run = M.run /\ R.sub = M.sub /\ R.super = M.super
      /\ R.num_detached_states = n
  BY <1>2 DEF MeshRecord, SameList, SameModule, SameWait, SameConn, SameReply
<1>5. QED
  BY <1>3, <1>4 DEF R, a, n

\* The subs of q that nothing else waits for.
Orphans(M, q) ==
  {s \in M.sub[q] : ~IsReplyState(M, s) /\ M.super[s] \ {q} = {}}

LEMMA DetachFields ==
  ASSUME NEW M \in MeshRecord, NEW q \in Query
  PROVE  LET R == mesh_detach_subs(M, q)
         IN /\ R \in MeshRecord
            /\ SameList(M, R) /\ SameModule(M, R) /\ SameWait(M, R)
            /\ SameConn(M, R) /\ SameReply(M, R)
            /\ R.all = M.all /\ R.run = M.run
            /\ R.sub = [M.sub EXCEPT ![q] = {}]
            /\ R.super = [s \in Query |-> IF s \in M.sub[q]
                                          THEN M.super[s] \ {q}
                                          ELSE M.super[s]]
            /\ R.num_detached_states =
                 M.num_detached_states + Cardinality(Orphans(M, q))
<1> DEFINE b == [M.sub EXCEPT ![q] = {}]
           p == [s \in Query |-> IF s \in M.sub[q] THEN M.super[s] \ {q}
                                 ELSE M.super[s]]
           n == M.num_detached_states + Cardinality(Orphans(M, q))
           D == [M EXCEPT !.super = p, !.sub = b]
           R == mesh_detach_subs(M, q)
<1>1. /\ b \in [Query -> SUBSET Query] /\ p \in [Query -> SUBSET Query]
      /\ M.sub[q] \subseteq Query
  BY DEF MeshRecord
<1>2. n \in Int
  <2>1. Orphans(M, q) \in SUBSET Query
    BY <1>1 DEF Orphans
  <2>2. QED
    BY <2>1, CardNat DEF MeshRecord
<1>3. D.super = p /\ D.at = M.at /\ D.num_detached_states = M.num_detached_states
  BY DEF MeshRecord
<1>4. {s \in M.sub[q] : IsDetached(D, s)} = Orphans(M, q)
  BY ZenonT(40), <1>1, <1>3 DEF Orphans, IsDetached, IsReplyState
<1>5. R = [D EXCEPT !.num_detached_states = n]
  <2>1. D = [M EXCEPT !.super = p, !.sub[q] = {}]
    OBVIOUS
  <2>2. R = [D EXCEPT !.num_detached_states =
               @ + Cardinality({s \in M.sub[q] : IsDetached(D, s)})]
    BY <2>1, Zenon DEF mesh_detach_subs
  <2>3. QED
    BY ZenonT(40), <1>3, <1>4, <2>2
<1>6. R = [M EXCEPT !.super = p, !.sub = b, !.num_detached_states = n]
  BY <1>5
<1> HIDE DEF b, p, n, D, R
<1>7. R \in MeshRecord
  BY <1>1, <1>2, <1>6, ZenonT(40) DEF MeshRecord
<1>8. /\ SameList(M, R) /\ SameModule(M, R) /\ SameWait(M, R)
      /\ SameConn(M, R) /\ SameReply(M, R)
      /\ R.all = M.all /\ R.run = M.run /\ R.sub = b /\ R.super = p
      /\ R.num_detached_states = n
  BY <1>6 DEF MeshRecord, SameList, SameModule, SameWait, SameConn, SameReply
<1>9. QED
  BY <1>7, <1>8 DEF R, b, p, n

LEMMA WalkSupersFields ==
  ASSUME NEW M \in MeshRecord, NEW q \in Query
  PROVE  LET R == mesh_walk_supers(M, q)
         IN /\ R \in MeshRecord
            /\ SameList(M, R) /\ SameModule(M, R) /\ SameWait(M, R)
            /\ SameConn(M, R) /\ SameReply(M, R) /\ SameDetached(M, R)
            /\ R.all = M.all /\ R.run = M.run \cup M.super[q]
            /\ R.sub = M.sub /\ R.super = M.super
<1> DEFINE r == M.run \cup M.super[q]
           R == mesh_walk_supers(M, q)
<1>1. r \in SUBSET Query
  BY DEF MeshRecord
<1>2. R = [M EXCEPT !.run = r]
  BY DEF mesh_walk_supers
<1> HIDE DEF r, R
<1>3. R \in MeshRecord
  BY <1>1, <1>2, ZenonT(40) DEF MeshRecord
<1>4. /\ SameList(M, R) /\ SameModule(M, R) /\ SameWait(M, R)
      /\ SameConn(M, R) /\ SameReply(M, R) /\ SameDetached(M, R)
      /\ R.all = M.all /\ R.run = r /\ R.sub = M.sub /\ R.super = M.super
  BY <1>2 DEF MeshRecord, SameList, SameModule, SameWait, SameConn, SameReply,
              SameDetached
<1>5. QED
  BY <1>3, <1>4 DEF R, r

LEMMA AttachmentFields ==
  ASSUME NEW M \in MeshRecord, NEW q \in Query, NEW s \in Query
  PROVE  LET R == mesh_state_attachment(M, q, s)
         IN /\ R \in MeshRecord
            /\ SameList(M, R) /\ SameModule(M, R) /\ SameWait(M, R)
            /\ SameConn(M, R) /\ SameReply(M, R)
            /\ R.all = M.all /\ R.run = M.run
            /\ R.sub = [x \in Query |-> IF x = q THEN M.sub[x] \cup {s} ELSE M.sub[x]]
            /\ R.super = [x \in Query |-> IF x = s THEN M.super[x] \cup {q} ELSE M.super[x]]
            /\ R.num_detached_states =
                 M.num_detached_states - Bit(IsDetached(M, s))
<1> DEFINE b == [x \in Query |-> IF x = q THEN M.sub[x] \cup {s} ELSE M.sub[x]]
           p == [x \in Query |-> IF x = s THEN M.super[x] \cup {q} ELSE M.super[x]]
           n == M.num_detached_states - Bit(IsDetached(M, s))
           R == mesh_state_attachment(M, q, s)
<1>1. /\ b \in [Query -> SUBSET Query] /\ p \in [Query -> SUBSET Query]
      /\ n \in Int
      /\ n = IF IsDetached(M, s) THEN M.num_detached_states - 1
             ELSE M.num_detached_states
  BY DEF MeshRecord, Bit
<1>a. /\ b = [M.sub EXCEPT ![q] = @ \cup {s}]
      /\ p = [M.super EXCEPT ![s] = @ \cup {q}]
  BY ZenonT(40) DEF MeshRecord
<1>2. R = [M EXCEPT !.sub = b, !.super = p, !.num_detached_states = n]
  BY ZenonT(40), <1>1, <1>a DEF mesh_state_attachment
<1> HIDE DEF b, p, n, R
<1>3. R \in MeshRecord
  BY <1>1, <1>2, ZenonT(40) DEF MeshRecord
<1>4. /\ SameList(M, R) /\ SameModule(M, R) /\ SameWait(M, R)
      /\ SameConn(M, R) /\ SameReply(M, R)
      /\ R.all = M.all /\ R.run = M.run /\ R.sub = b /\ R.super = p
      /\ R.num_detached_states = n
  BY <1>2 DEF MeshRecord, SameList, SameModule, SameWait, SameConn, SameReply
<1>5. QED
  BY <1>3, <1>4 DEF R, b, p, n

LEMMA AddWaiterFields ==
  ASSUME NEW M \in MeshRecord, NEW q \in Query, NEW w \in Waiter
  PROVE  LET R == AddWaiter(M, q, w)
         IN /\ R \in MeshRecord
            /\ SameGraph(M, R) /\ SameList(M, R) /\ SameModule(M, R)
            /\ SameConn(M, R)
            /\ R.outbound = M.outbound
            /\ \A x \in Query \ {q} : R.timer[x] = M.timer[x]
            /\ R.at = [M.at EXCEPT ![w] = q]
            /\ R.num_reply_addrs = M.num_reply_addrs + 1
            /\ R.num_reply_states =
                 M.num_reply_states + Bit(~IsReplyState(M, q))
            /\ R.num_detached_states =
                 M.num_detached_states - Bit(IsDetached(M, q))
<1> DEFINE a == [M.at EXCEPT ![w] = q]
           n == M.num_reply_addrs + 1
           b == M.num_reply_states + Bit(~IsReplyState(M, q))
           d == M.num_detached_states - Bit(IsDetached(M, q))
           t == [M.timer EXCEPT ![q] = @ \/ ServeExpired]
           R == AddWaiter(M, q, w)
<1>1. /\ a \in [Waiter -> Query \cup {NoState}]
      /\ n \in Int /\ b \in Int /\ d \in Int
      /\ b = IF IsReplyState(M, q) THEN M.num_reply_states
             ELSE M.num_reply_states + 1
      /\ d = IF IsDetached(M, q) THEN M.num_detached_states - 1
             ELSE M.num_detached_states
  BY DEF MeshRecord, Bit
<1>2. t \in [Query -> BOOLEAN]
  BY ZenonT(40) DEF MeshRecord
<1>3. \A x \in Query \ {q} : t[x] = M.timer[x]
  BY DEF MeshRecord
<1>4. R = [M EXCEPT !.at = a, !.num_reply_addrs = n, !.num_reply_states = b,
                    !.num_detached_states = d, !.timer = t]
  BY ZenonT(40), <1>1 DEF AddWaiter
<1> HIDE DEF a, n, b, d, t, R
<1>5. R \in MeshRecord
  BY <1>1, <1>2, <1>4, ZenonT(120) DEF MeshRecord
<1>6. /\ SameGraph(M, R) /\ SameList(M, R) /\ SameModule(M, R)
      /\ SameConn(M, R) /\ R.outbound = M.outbound
      /\ R.at = a /\ R.num_reply_addrs = n /\ R.num_reply_states = b
      /\ R.num_detached_states = d /\ R.timer = t
  BY <1>4 DEF MeshRecord, SameGraph, SameList, SameModule, SameConn
<1>7. QED
  BY <1>3, <1>5, <1>6 DEF R, a, n, b, d

LEMMA AddReplyFields ==
  ASSUME NEW M \in MeshRecord, NEW q \in Query, NEW c \in Client
  PROVE  LET R == mesh_state_add_reply(M, q, c)
             A == AddWaiter(M, q, c)
         IN /\ R \in MeshRecord
            /\ SameGraph(A, R) /\ SameList(A, R) /\ SameWait(A, R)
            /\ SameReply(A, R) /\ SameDetached(A, R)
            /\ \A x \in Query \ {q} : R.age[x] = A.age[x]
<1> DEFINE A == AddWaiter(M, q, c)
           g == [A.age EXCEPT ![q] = IF @ = "none" THEN "fresh" ELSE @]
           o == [k \in Conn |-> IF k = ConnOf[c] THEN M.open[k] \cup {q}
                                ELSE M.open[k]]
           R == mesh_state_add_reply(M, q, c)
<1>1. A \in MeshRecord
  BY ZenonT(40), AddWaiterFields DEF Waiter
<1>2. R = [A EXCEPT !.age = g, !.open = o]
  BY DEF mesh_state_add_reply
<1> HIDE DEF A
<1>3. /\ g \in [Query -> {"none", "fresh", "old"}]
      /\ o \in [Conn -> SUBSET Query]
      /\ \A x \in Query \ {q} : g[x] = A.age[x]
  <2>1. /\ A.age \in [Query -> {"none", "fresh", "old"}]
        /\ M.open \in [Conn -> SUBSET Query]
    BY ZenonT(60), <1>1 DEF MeshRecord
  <2>2. QED
    BY <2>1
<1> HIDE DEF g, o, R
<1>4. R \in MeshRecord
  BY <1>1, <1>2, <1>3, ZenonT(40) DEF MeshRecord
<1>5. /\ SameGraph(A, R) /\ SameList(A, R) /\ SameWait(A, R)
      /\ SameReply(A, R) /\ SameDetached(A, R) /\ R.age = g
  BY <1>1, <1>2 DEF MeshRecord, SameGraph, SameList, SameWait, SameReply,
                    SameDetached
<1>6. QED
  BY <1>3, <1>4, <1>5 DEF R, A

LEMMA AddSubFields ==
  ASSUME NEW M \in MeshRecord, NEW q \in Query \ M.all
  PROVE  LET R == mesh_add_sub(M, q)
             A == mesh_state_create(M, q)
         IN /\ R \in MeshRecord
            /\ SameList(A, R) /\ SameModule(A, R) /\ SameWait(A, R)
            /\ SameConn(A, R) /\ SameReply(A, R) /\ SameDetached(A, R)
            /\ R.all = A.all /\ R.run = A.run \cup {q}
            /\ R.sub = A.sub /\ R.super = A.super
<1> DEFINE A == mesh_state_create(M, q)
           r == A.run \cup {q}
           R == mesh_add_sub(M, q)
<1>1. A \in MeshRecord
  BY CreateFields
<1>2. R = [A EXCEPT !.run = r]
  BY DEF mesh_add_sub
<1> HIDE DEF A
<1>3. r \in SUBSET Query
  BY <1>1 DEF MeshRecord
<1> HIDE DEF r, R
<1>4. R \in MeshRecord
  BY <1>1, <1>2, <1>3, ZenonT(40) DEF MeshRecord
<1>5. /\ SameList(A, R) /\ SameModule(A, R) /\ SameWait(A, R)
      /\ SameConn(A, R) /\ SameReply(A, R) /\ SameDetached(A, R)
      /\ R.all = A.all /\ R.run = r /\ R.sub = A.sub /\ R.super = A.super
  BY <1>1, <1>2 DEF MeshRecord, SameList, SameModule, SameWait, SameConn,
                    SameReply, SameDetached
<1>6. QED
  BY <1>4, <1>5 DEF R, A, r

LEMMA AnswerAllFields ==
  ASSUME NEW M \in MeshRecord, NEW q \in Query, NEW K
  PROVE  LET R == AnswerAll(M, q, K)
             C == mesh_state_remove_reply(M, Waiters(M, q) \cup OnConns(M, K))
         IN /\ R \in MeshRecord
            /\ SameGraph(C, R) /\ SameList(C, R) /\ SameModule(C, R)
            /\ SameWait(C, R) /\ SameReply(C, R) /\ SameDetached(C, R)
<1> DEFINE C == mesh_state_remove_reply(M, Waiters(M, q) \cup OnConns(M, K))
           u == C.up \ K
           o == [k \in Conn |-> IF k \in K THEN {} ELSE M.open[k]]
           D == [C EXCEPT !.up = u, !.open = o]
           R == AnswerAll(M, q, K)
<1>1. C \in MeshRecord
  <2>1. Waiters(M, q) \cup OnConns(M, K) \in SUBSET Waiter
    BY DEF Waiters, OnConns, Waiter
  <2>2. QED
    BY ZenonT(40), <2>1, RemoveReplyFields
<1>2. R = tcp_req_info_remove_mesh_state(D, ConnsOf(M, q), q)
  BY DEF AnswerAll, OnConns
<1> HIDE DEF C, R
<1>3. u \in SUBSET Conn /\ o \in [Conn -> SUBSET Query]
  BY <1>1 DEF MeshRecord
<1>4. D = [C EXCEPT !.up = u, !.open = o]
  OBVIOUS
<1> HIDE DEF u, o, D
<1>5. D \in MeshRecord
  BY <1>1, <1>3, <1>4, ZenonT(40) DEF MeshRecord
<1>6. /\ SameGraph(C, D) /\ SameList(C, D) /\ SameModule(C, D)
      /\ SameWait(C, D) /\ SameReply(C, D) /\ SameDetached(C, D)
  BY <1>1, <1>4 DEF MeshRecord, SameGraph, SameList, SameModule, SameWait,
                    SameReply, SameDetached
<1>7. /\ R \in MeshRecord
      /\ SameGraph(D, R) /\ SameList(D, R) /\ SameModule(D, R)
      /\ SameWait(D, R) /\ SameReply(D, R) /\ SameDetached(D, R)
  BY <1>2, <1>5, RemoveMeshStateFields
<1>8. SameGraph(C, R) /\ SameList(C, R)
  BY <1>6, <1>7 DEF SameGraph, SameList
<1>9. SameModule(C, R) /\ SameWait(C, R)
  BY <1>6, <1>7 DEF SameModule, SameWait
<1>10. SameReply(C, R) /\ SameDetached(C, R)
  BY <1>6, <1>7 DEF SameReply, SameDetached
<1>11. QED
  BY ZenonT(40), <1>7, <1>8, <1>9, <1>10 DEF R, C

\* The mesh M without the state q and everything that refers to it, before the
\* connections of its replies are closed.
IsWithout(G, M, q) ==
  /\ G.all = M.all \ {q} /\ G.run = M.run \ {q}
  /\ G.sub = [p \in Query |-> IF p = q THEN {}
                              ELSE IF p \in M.super[q] THEN M.sub[p] \ {q}
                              ELSE M.sub[p]]
  /\ G.super = [s \in Query |-> IF s = q THEN {}
                                ELSE IF s \in M.sub[q] THEN M.super[s] \ {q}
                                ELSE M.super[s]]
  /\ G.at = [w \in Waiter |-> IF M.at[w] = q THEN NoState ELSE M.at[w]]
  /\ G.list = [M.list EXCEPT ![q] = "no"]
  /\ G.num_reply_addrs = M.num_reply_addrs - Cardinality(Waiters(M, q))
  /\ G.num_reply_states = M.num_reply_states - Bit(IsReplyState(M, q))
  /\ G.num_detached_states = (M.num_detached_states + Cardinality(Orphans(M, q)))
                               - Bit(IsDetached(M, q))
  /\ G.num_forever_states =
       M.num_forever_states - Bit(M.list[q] = "forever")
  /\ G.age = [M.age EXCEPT ![q] = "none"]
  /\ G.outbound = [M.outbound EXCEPT ![q] = FALSE]
  /\ G.timer = [M.timer EXCEPT ![q] = FALSE]

LEMMA DeleteFields ==
  ASSUME NEW M \in MeshRecord, NEW q \in Query, q \notin M.sub[q]
  PROVE  \E G \in MeshRecord, K \in {ConnsOf(M, q)} :
            /\ mesh_state_delete(M, q) = tcp_req_info_clear(G, K)
            /\ IsWithout(G, M, q)
<1> DEFINE D == mesh_detach_subs(M, q)
           L == UnselectList(D, q)
           nd == L.num_detached_states - Bit(IsDetached(L, q))
           nr == L.num_reply_states - Bit(IsReplyState(L, q))
           b == [p \in Query |-> IF p \in L.super[q]
                                 THEN L.sub[p] \ {q} ELSE L.sub[p]]
           p1 == [L.super EXCEPT ![q] = {}]
           r == L.run \ {q}
           a == L.all \ {q}
           R == [L EXCEPT !.num_detached_states = nd, !.num_reply_states = nr,
                          !.sub = b, !.super = p1, !.run = r, !.all = a]
<1>1. /\ L \in MeshRecord
      /\ L.all = M.all /\ L.run = M.run /\ L.at = M.at
      /\ L.sub = [M.sub EXCEPT ![q] = {}]
      /\ L.super = [s \in Query |-> IF s \in M.sub[q] THEN M.super[s] \ {q}
                                    ELSE M.super[s]]
      /\ L.num_reply_addrs = M.num_reply_addrs
      /\ L.num_reply_states = M.num_reply_states
      /\ L.num_detached_states =
           M.num_detached_states + Cardinality(Orphans(M, q))
      /\ L.list = [M.list EXCEPT ![q] = "no"]
      /\ L.num_forever_states =
           M.num_forever_states - Bit(M.list[q] = "forever")
      /\ SameModule(M, L) /\ SameWait(M, L) /\ SameConn(M, L)
  <2>1. /\ D \in MeshRecord
        /\ SameList(M, D) /\ SameModule(M, D) /\ SameWait(M, D)
        /\ SameConn(M, D) /\ SameReply(M, D)
        /\ D.all = M.all /\ D.run = M.run
        /\ D.sub = [M.sub EXCEPT ![q] = {}]
        /\ D.super = [s \in Query |-> IF s \in M.sub[q]
                                      THEN M.super[s] \ {q}
                                      ELSE M.super[s]]
        /\ D.num_detached_states =
             M.num_detached_states + Cardinality(Orphans(M, q))
    BY ZenonT(60), DetachFields
  <2> HIDE DEF D
  <2>2. /\ L \in MeshRecord
        /\ SameGraph(D, L) /\ SameModule(D, L) /\ SameWait(D, L)
        /\ SameConn(D, L) /\ SameReply(D, L) /\ SameDetached(D, L)
        /\ L.list = [D.list EXCEPT ![q] = "no"]
        /\ L.num_forever_states =
             D.num_forever_states - Bit(D.list[q] = "forever")
    BY <2>1, UnselectFields
  <2> HIDE DEF L
  <2>3. QED
    BY ZenonT(60), <2>1, <2>2 DEF SameGraph, SameList, SameModule, SameWait,
       SameConn,
                      SameReply, SameDetached
<1>2. mesh_state_delete(M, q) = mesh_state_cleanup(R, q)
  <2>1. /\ nd = (IF IsDetached(L, q) THEN L.num_detached_states - 1
                 ELSE L.num_detached_states)
        /\ nr = (IF IsReplyState(L, q) THEN L.num_reply_states - 1
                 ELSE L.num_reply_states)
    <3>1. L.num_detached_states \in Int /\ L.num_reply_states \in Int
      BY ZenonT(60), <1>1 DEF MeshRecord
    <3>2. QED
      BY <3>1 DEF Bit
  <2> HIDE DEF nd, nr
  <2>2. R = [L EXCEPT
              !.num_detached_states = IF IsDetached(L, q) THEN @ - 1 ELSE @,
              !.num_reply_states = IF IsReplyState(L, q) THEN @ - 1 ELSE @,
              !.sub = [p \in Query |-> IF p \in L.super[q]
                                       THEN L.sub[p] \ {q} ELSE L.sub[p]],
              !.super[q] = {},
              !.run = @ \ {q},
              !.all = @ \ {q}]
    BY SMTT(30), <2>1
  <2>3. QED
    BY <2>2, Zenon DEF mesh_state_delete
<1>3. /\ nd \in Int /\ nr \in Int
      /\ b \in [Query -> SUBSET Query] /\ p1 \in [Query -> SUBSET Query]
      /\ r \in SUBSET Query /\ a \in SUBSET Query
  <2> HIDE DEF L
  <2>1. /\ L.num_detached_states \in Int /\ L.num_reply_states \in Int
        /\ L.sub \in [Query -> SUBSET Query]
        /\ L.super \in [Query -> SUBSET Query]
        /\ L.run \in SUBSET Query /\ L.all \in SUBSET Query
    BY ZenonT(60), <1>1 DEF MeshRecord
  <2>2. nd \in Int /\ nr \in Int
    BY <2>1 DEF Bit
  <2>3. b \in [Query -> SUBSET Query] /\ p1 \in [Query -> SUBSET Query]
    BY <2>1
  <2>4. r \in SUBSET Query /\ a \in SUBSET Query
    BY <2>1
  <2>5. QED
    BY <2>2, <2>3, <2>4
<1>4. /\ IsReplyState(L, q) <=> IsReplyState(M, q)
      /\ IsDetached(L, q) <=> IsDetached(M, q)
  BY ZenonT(60), <1>1 DEF IsReplyState, IsDetached
<1>5. /\ nd = (M.num_detached_states + Cardinality(Orphans(M, q)))
                - Bit(IsDetached(M, q))
      /\ nr = M.num_reply_states - Bit(IsReplyState(M, q))
      /\ b = [p \in Query |-> IF p = q THEN {}
                              ELSE IF p \in M.super[q] THEN M.sub[p] \ {q}
                              ELSE M.sub[p]]
      /\ p1 = [s \in Query |-> IF s = q THEN {}
                               ELSE IF s \in M.sub[q] THEN M.super[s] \ {q}
                               ELSE M.super[s]]
  <2> HIDE DEF L
  <2>0. /\ L.num_detached_states =
             M.num_detached_states + Cardinality(Orphans(M, q))
        /\ L.sub = [M.sub EXCEPT ![q] = {}]
        /\ L.super = [s \in Query |-> IF s \in M.sub[q] THEN M.super[s] \ {q}
                                      ELSE M.super[s]]
        /\ M.sub \in [Query -> SUBSET Query]
    BY <1>1 DEF MeshRecord
  <2>1. nd = (M.num_detached_states + Cardinality(Orphans(M, q)))
                - Bit(IsDetached(M, q))
    <3>1. Bit(IsDetached(L, q)) = Bit(IsDetached(M, q))
      BY <1>4 DEF Bit
    <3>2. QED
      BY <2>0, <3>1, Zenon
  <2>2. nr = M.num_reply_states - Bit(IsReplyState(M, q))
    BY <1>1, <1>4 DEF Bit
  <2> HIDE DEF nd, nr, R
  <2>3. L.super[q] = M.super[q]
    BY <2>0
  <2>4. b = [p \in Query |-> IF p = q THEN {}
                              ELSE IF p \in M.super[q] THEN M.sub[p] \ {q}
                              ELSE M.sub[p]]
    <3>1. \A p \in Query : b[p] = IF p = q THEN {}
                                  ELSE IF p \in M.super[q] THEN M.sub[p] \ {q}
                                  ELSE M.sub[p]
      BY ZenonT(40), <2>0, <2>3
    <3>2. QED
      BY <3>1, Zenon
  <2>5. p1 = [s \in Query |-> IF s = q THEN {}
                               ELSE IF s \in M.sub[q] THEN M.super[s] \ {q}
                               ELSE M.super[s]]
    BY ZenonT(40), <2>0
  <2>6. QED
    BY ZenonT(40), <2>1, <2>2, <2>4, <2>5
<1>6. R = [L EXCEPT !.num_detached_states = nd, !.num_reply_states = nr,
                    !.sub = b, !.super = p1, !.run = r, !.all = a]
  OBVIOUS
<1> HIDE DEF D, L, nd, nr, b, p1, r, a, R
<1>7. R \in MeshRecord
  BY <1>1, <1>3, <1>6, ZenonT(40) DEF MeshRecord
<1>8. /\ R.num_detached_states = nd /\ R.num_reply_states = nr
      /\ R.sub = b /\ R.super = p1 /\ R.run = r /\ R.all = a
      /\ R.at = L.at /\ R.num_reply_addrs = L.num_reply_addrs
      /\ SameList(L, R) /\ SameModule(L, R) /\ SameWait(L, R)
      /\ SameConn(L, R)
  BY <1>1, <1>6 DEF MeshRecord, SameList, SameModule, SameWait, SameConn
<1> DEFINE K == ConnsOf(R, q)
           T == tcp_req_info_remove_mesh_state(R, K, q)
           at == [w \in Waiter |-> IF R.at[w] = q THEN NoState ELSE R.at[w]]
           n == T.num_reply_addrs - Cardinality(Waiters(R, q))
           t == [T.timer EXCEPT ![q] = FALSE]
           o == [T.outbound EXCEPT ![q] = FALSE]
           m == [T.curmod EXCEPT ![q] = 0]
           v == [T.num_activated EXCEPT ![q] = 0]
           g == [T.age EXCEPT ![q] = "none"]
           l == [T.blacklist EXCEPT ![q] = FALSE]
           G == [T EXCEPT !.at = at, !.num_reply_addrs = n, !.timer = t,
                          !.outbound = o, !.curmod = m, !.num_activated = v,
                          !.age = g, !.blacklist = l]
<1>9. mesh_state_cleanup(R, q) = tcp_req_info_clear(G, K)
  BY ZenonT(60) DEF mesh_state_cleanup
<1>10. /\ T \in MeshRecord
       /\ SameGraph(R, T) /\ SameList(R, T) /\ SameModule(R, T)
       /\ SameWait(R, T) /\ SameReply(R, T) /\ SameDetached(R, T)
  BY ZenonT(60), <1>7, RemoveMeshStateFields
<1>11. Waiters(R, q) = Waiters(M, q) /\ K = ConnsOf(M, q)
  BY SMTT(30), <1>1, <1>8 DEF Waiters, ConnsOf, ReplyList
<1> HIDE DEF T, K
<1>12. /\ at \in [Waiter -> Query \cup {NoState}]
       /\ t \in [Query -> BOOLEAN] /\ o \in [Query -> BOOLEAN]
       /\ m \in [Query -> Nat] /\ v \in [Query -> Nat]
       /\ g \in [Query -> {"none", "fresh", "old"}]
       /\ l \in [Query -> BOOLEAN]
  BY ZenonT(60), <1>7, <1>10 DEF MeshRecord
<1>13. n \in Int
  <2>1. Waiters(R, q) \in SUBSET Waiter
    BY SMTT(30) DEF Waiters
  <2>2. T.num_reply_addrs \in Int /\ Cardinality(Waiters(R, q)) \in Nat
    BY ZenonT(60), <2>1, <1>10, CardNat DEF MeshRecord
  <2>3. QED
    BY <2>2
<1>14. /\ at = [w \in Waiter |-> IF M.at[w] = q THEN NoState ELSE M.at[w]]
       /\ n = M.num_reply_addrs - Cardinality(Waiters(M, q))
       /\ t = [M.timer EXCEPT ![q] = FALSE]
       /\ o = [M.outbound EXCEPT ![q] = FALSE]
       /\ g = [M.age EXCEPT ![q] = "none"]
  <2>1. /\ R.at = M.at /\ T.num_reply_addrs = M.num_reply_addrs
        /\ T.timer = M.timer /\ T.outbound = M.outbound /\ T.age = M.age
    BY ZenonT(60), <1>1, <1>8, <1>10 DEF SameReply, SameWait, SameModule
  <2>2. QED
    BY ZenonT(60), <1>11, <2>1
<1>15. G = [T EXCEPT !.at = at, !.num_reply_addrs = n, !.timer = t,
                     !.outbound = o, !.curmod = m, !.num_activated = v,
                     !.age = g, !.blacklist = l]
  OBVIOUS
<1> HIDE DEF at, n, t, o, m, v, g, l, G
<1>16. G \in MeshRecord
  BY <1>10, <1>12, <1>13, <1>15, ZenonT(40) DEF MeshRecord
<1>17. /\ G.at = at /\ G.num_reply_addrs = n /\ G.timer = t
       /\ G.outbound = o /\ G.age = g
       /\ SameGraph(T, G) /\ SameList(T, G) /\ SameDetached(T, G)
       /\ G.num_reply_states = T.num_reply_states
  BY <1>10, <1>15 DEF MeshRecord, SameGraph, SameList, SameDetached
<1>18. IsWithout(G, M, q)
  <2>1. /\ G.all = a /\ G.run = r /\ G.sub = b /\ G.super = p1
        /\ G.num_detached_states = nd /\ G.num_reply_states = nr
        /\ G.list = L.list /\ G.num_forever_states = L.num_forever_states
    BY ZenonT(60), <1>8, <1>10, <1>17 DEF SameGraph, SameList, SameReply,
       SameDetached
  <2>2. a = M.all \ {q} /\ r = M.run \ {q}
    BY <1>1 DEF a, r
  <2>3. /\ L.list = [M.list EXCEPT ![q] = "no"]
        /\ L.num_forever_states =
             M.num_forever_states - Bit(M.list[q] = "forever")
    BY SMTT(30), <1>1 DEF Bit
  <2>4. QED
    BY ZenonT(40), <1>5, <1>14, <1>17, <2>1, <2>2, <2>3 DEF IsWithout
<1>19. QED
  BY ZenonT(40), <1>2, <1>9, <1>11, <1>16, <1>18
=============================================================================
