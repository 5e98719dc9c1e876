----------------------------- MODULE RrsetCache -----------------------------
(***************************************************************************)
(* One slab of the rrset cache (services/cache/rrset.c) on its hash table  *)
(* (util/storage/lruhash.c), used by several threads, and the messages     *)
(* whose references point into it (services/cache/dns.c).                  *)
(*                                                                         *)
(* A step of a thread goes from one lock that it acquires to the next one  *)
(* that it has to wait for.  The locks are those of the code: the table    *)
(* lock, one per bin, and a readers-writer lock in every entry.  Entries   *)
(* (ub_packed_rrset_key, here slots) are never freed: a deleted one gets   *)
(* id 0 and is used again for another rrset, with a new id.                *)
(***************************************************************************)
EXTENDS Integers, Sequences, FiniteSets, FiniteSetsExt

CONSTANTS
  Thread, NoThread,
  Name,          \* what identifies an rrset: dname, type, class, flags
  Data,          \* contents of rrsets, rrsetdata_equal is equality
  Slot, NULL,    \* ub_packed_rrset_key structures
  Addr,          \* their addresses
  Hash,          \* rrset_key_hash
  Size,          \* sizefunc
  Proofs,        \* the names of type NSEC, NSEC3 and DNAME
  Replies,       \* the sequences of names of the rrsets of a message
  space_max,     \* the memory limit of the table
  StartSize,     \* bins of a new table
  MaxSize,       \* bins beyond which the new array cannot be allocated
  MaxId,         \* bound: ids that are handed out
  Ops            \* operations that the threads perform

NoMsg == <<>>

ASSUME CacheAssumption ==
  /\ IsFiniteSet(Thread) /\ NoThread \notin Thread
  /\ NULL \notin Slot \cup Name \cup Data
  /\ Addr \in [Slot -> Nat]
  /\ \A s, u \in Slot : Addr[s] = Addr[u] => s = u
  /\ Hash \in [Name -> Nat]
  /\ Size \in [Data -> Nat \ {0}]
  /\ Proofs \subseteq Name
  /\ Replies \subseteq Seq(Name)
  /\ space_max \in Nat /\ MaxId \in Nat
  /\ StartSize \in Nat \ {0} /\ MaxSize \in Nat

VARIABLES
  array, size, lru, num, space_used,   \* struct lruhash
  key, data, id,                       \* the fields of the slots
  free,                                \* slots in the quarantine lists
  next_id,                             \* the next id of alloc_get_id
  table_lock, bin_lock, rd, wr,        \* who holds which lock
  msg,                                 \* the message in the message cache
  pc, me                               \* control and locals of the threads

table == <<array, size, lru, num, space_used>>
slots == <<key, data, id, free, next_id>>
locks == <<table_lock, bin_lock, rd, wr>>
vars  == <<table, slots, locks, msg, pc, me>>

-----------------------------------------------------------------------------
(* Locals. *)

\* The locals of a thread that does nothing.  rep: the rrsets of the
\* operation; i: the current one; ref: its reference; refs: the references so
\* far; found: the entry at hand; e, equal: rrset_cache_update's; list:
\* reclaimlist, or the entries still to visit; todo: bins still to visit; new:
\* table_grow's new array; h: hashes for the LRU touch.
Rest == [op |-> "none", rep |-> <<>>, i |-> 1, ref |-> <<>>, refs |-> <<>>,
         found |-> NULL, e |-> FALSE, equal |-> FALSE, list |-> {},
         todo |-> {}, new |-> <<>>, h |-> <<>>]

\* A reference (struct rrset_ref) is a key and an id.  name and data are not in
\* the code: they record what the reference was made for.
Ref(k, i, n, d) == [key |-> k, id |-> i, name |-> n, data |-> d]

Storing == {"store", "update"}

Item(t) == me[t].rep[me[t].i]

Goto(t, label, m) ==
  /\ pc' = [pc EXCEPT ![t] = label]
  /\ me' = [me EXCEPT ![t] = m]

Done(t) == Goto(t, "idle", Rest)

-----------------------------------------------------------------------------
(* The hash table. *)

\* The list without e.
lru_remove(q, e) ==
  IF \E j \in 1 .. Len(q) : q[j] = e
  THEN LET j == CHOOSE j \in 1 .. Len(q) : q[j] = e
       IN  [x \in 1 .. Len(q) - 1 |-> IF x < j THEN q[x] ELSE q[x + 1]]
  ELSE q

lru_front(q, e) == <<e>> \o q

\* A faulty variant: the entry is not taken from its old place.
lru_touch_twice(q, e) == lru_front(q, e)

lru_touch(q, e) == lru_front(lru_remove(q, e), e)

\* hash & size_mask: the size is a power of two.
BinOf(h) == h % size

\* The entry of the name in its bin, as a set.
bin_find_entry(n) ==
  {s \in array[BinOf(Hash[n])] : key[s] = n}

BinFree(b) == \A u \in Thread : bin_lock[u] # <<size, b>>

CanRead(s) == wr[s] = NoThread

\* A faulty variant: a writer does not wait for the readers.
CanWrite_shared(s) == wr[s] = NoThread

CanWrite(s) == wr[s] = NoThread /\ rd[s] = {}

NoBin == <<>>

LockBin(t, b) == bin_lock' = [bin_lock EXCEPT ![t] = <<size, b>>]

UnlockBin(t) == bin_lock' = [bin_lock EXCEPT ![t] = NoBin]

\* The operations that take the table lock, and what each does then.
AfterLock == [lookup |-> "lookup_bin", insert |-> "insert_bin",
              remove |-> "remove_bin", all |-> "all_bin",
              touch |-> "touch_entry"]

lock_table(t) ==
  /\ pc[t] \in DOMAIN AfterLock
  /\ table_lock = NoThread
  /\ table_lock' = t
  /\ Goto(t, AfterLock[pc[t]],
          [me[t] EXCEPT !.todo = IF pc[t] = "all" THEN 0 .. size - 1 ELSE {}])
  /\ UNCHANGED <<table, slots, bin_lock, rd, wr, msg>>

\* The function f with v at the slots in S.
Put(f, S, v) == [s \in Slot |-> IF s \in S THEN v ELSE f[s]]

\* Faulty variants: the slots are not put in a list; they keep their ids.
Release_alive(S) ==
  /\ key' = Put(key, S, NULL) /\ data' = Put(data, S, NULL)
  /\ id' = id /\ free' = free \cup S

\* ub_rrset_key_delete and rrset_data_delete, ub_packed_rrset_parsedelete: ids
\* become 0 and the slots go to a quarantine list.
Release(S) ==
  /\ key' = Put(key, S, NULL) /\ data' = Put(data, S, NULL)
  /\ id' = Put(id, S, 0) /\ free' = free \cup S

-----------------------------------------------------------------------------
(* Operations begin. *)

\* rrset_cache_lookup and rrset_cache_remove work on one name.
StartOne(t, op, label) ==
  /\ pc[t] = "idle" /\ op \in Ops
  /\ \E n \in Name :
       Goto(t, label,
            [Rest EXCEPT !.op = op,
                         !.rep = <<[k |-> NULL, name |-> n, data |-> NULL]>>])
  /\ UNCHANGED <<table, slots, locks, msg>>

\* For reading, or for writing as rrset_update_sec_status does.
rrset_cache_lookup(t) ==
  StartOne(t, "get", "lookup") \/ StartOne(t, "edit", "lookup")

rrset_cache_remove(t) == StartOne(t, "remove", "remove")

\* lruhash_traverse for reading or writing, and lruhash_clear.
StartAll(t) ==
  /\ pc[t] = "idle"
  /\ \E op \in {"traverse", "flush", "clear"} \cap Ops :
       Goto(t, "all", [Rest EXCEPT !.op = op])
  /\ UNCHANGED <<table, slots, locks, msg>>

\* alloc_special_obtain gave every rrset a slot and an id.  They are stored one
\* by one, for a message (dns_cache_store_msg) or for themselves.
StartStore(t, op, Names) ==
  /\ pc[t] = "idle" /\ op \in Ops
  /\ \E names \in Names :
       LET N == 1 .. Len(names)
       IN  \E ks \in [N -> free], ds \in [N -> Data] :
             /\ \A x, y \in N : ks[x] = ks[y] => x = y
             /\ next_id + Len(names) - 1 <= MaxId
             /\ LET K     == {ks[x] : x \in N}
                    Of(s) == CHOOSE x \in N : ks[x] = s
                    Fill(f, g(_)) == [s \in Slot |->
                                        IF s \in K THEN g(Of(s)) ELSE f[s]]
                IN  /\ key' = Fill(key, LAMBDA x : names[x])
                    /\ data' = Fill(data, LAMBDA x : ds[x])
                    /\ id' = Fill(id, LAMBDA x : next_id + x - 1)
                    /\ free' = free \ K
             /\ next_id' = next_id + Len(names)
             /\ Goto(t, "update",
                     [Rest EXCEPT !.op = op,
                       !.rep = [x \in N |-> [k |-> ks[x], name |-> names[x],
                                              data |-> ds[x]]]])
  /\ UNCHANGED <<table, locks, msg>>

dns_cache_store_msg(t) == StartStore(t, "store", Replies)

rrset_cache_update_unlock(t) ==
  StartStore(t, "update", {<<n>> : n \in Name})

\* A thread answers from the message in the cache.
rrset_array_lock_start(t) ==
  /\ pc[t] = "idle" /\ "read" \in Ops
  /\ msg # NoMsg
  /\ Goto(t, "array_lock", [Rest EXCEPT !.op = "read", !.refs = msg])
  /\ UNCHANGED <<table, slots, locks, msg>>

-----------------------------------------------------------------------------
(* lruhash_lookup *)

AtBin(t, label) == pc[t] = label /\ BinFree(BinOf(Hash[Item(t).name]))

Found(t) == bin_find_entry(Item(t).name)

LockItemBin(t) == LockBin(t, BinOf(Hash[Item(t).name]))

\* A faulty variant: the bin is unlocked before the entry is locked.
lookup_found_unlocked(t) ==
  /\ AtBin(t, "lookup_bin")
  /\ \E s \in Found(t) :
       /\ lru' = lru_touch(lru, s)
       /\ Goto(t, "lookup_entry", [me[t] EXCEPT !.found = s])
  /\ table_lock' = NoThread
  /\ UNCHANGED <<array, size, num, space_used, slots, bin_lock, rd, wr, msg>>

\* The bin stays locked while the thread waits for the entry.
lookup_found(t) ==
  /\ AtBin(t, "lookup_bin")
  /\ \E s \in Found(t) :
       /\ lru' = lru_touch(lru, s)
       /\ Goto(t, "lookup_entry", [me[t] EXCEPT !.found = s])
  /\ table_lock' = NoThread
  /\ LockItemBin(t)
  /\ UNCHANGED <<array, size, num, space_used, slots, rd, wr, msg>>

lookup_absent(t) ==
  /\ AtBin(t, "lookup_bin")
  /\ Found(t) = {}
  /\ table_lock' = NoThread
  /\ IF me[t].op \in Storing THEN Goto(t, "insert", me[t]) ELSE Done(t)
  /\ UNCHANGED <<table, slots, bin_lock, rd, wr, msg>>

lookup_entry(t) ==
  LET s == me[t].found
  IN  /\ pc[t] = "lookup_entry"
      /\ IF me[t].op = "edit"
         THEN CanWrite(s) /\ wr' = [wr EXCEPT ![s] = t] /\ rd' = rd
         ELSE CanRead(s) /\ rd' = [rd EXCEPT ![s] = @ \cup {t}] /\ wr' = wr
      /\ UnlockBin(t)
      /\ Goto(t, IF me[t].op \in Storing THEN "compare" ELSE "have", me[t])
      /\ UNCHANGED <<table, slots, table_lock, msg>>

\* The caller of rrset_cache_lookup is done with the entry, or it had expired.
\* rrset_update_sec_status changes status and times, not what the rrset says.
lock_rw_unlock(t) ==
  LET s == me[t].found
  IN  /\ pc[t] = "have"
      /\ rd' = [rd EXCEPT ![s] = @ \ {t}]
      /\ wr' = [wr EXCEPT ![s] = IF @ = t THEN NoThread ELSE @]
      /\ Done(t)
      /\ UNCHANGED <<table, slots, table_lock, bin_lock, msg>>

-----------------------------------------------------------------------------
(* rrset_cache_update, for one of the rrsets that store_rrsets goes through *)

\* The next rrset of a message, with r the reference to this one.
NextItem(t, r) ==
  LET m == [Rest EXCEPT !.op = "store", !.rep = me[t].rep, !.i = me[t].i + 1,
                        !.refs = Append(me[t].refs, r)]
  IN  IF me[t].op = "update" THEN Done(t)
      ELSE Goto(t, IF m.i <= Len(m.rep) THEN "update" ELSE "store_msg", m)

\* After the update, with locals m: store_rrsets reads the time to live.
Updated(t, m) == IF m.op = "update" THEN Done(t) ELSE Goto(t, "ttl", m)

\* An rrset to which the grace time was applied is not stored: the reference
\* keeps pointing to the released slot.
update_start(t) ==
  LET k == Item(t).k
      r == Ref(k, id[k], Item(t).name, Item(t).data)
  IN  /\ pc[t] = "update"
      /\ \/ /\ Release({k})
            /\ NextItem(t, r)
            /\ UNCHANGED next_id
         \/ /\ Goto(t, "lookup", [me[t] EXCEPT !.ref = r])
            /\ UNCHANGED slots
      /\ UNCHANGED <<table, locks, msg>>

\* What the thread sees with the readlock of the cached entry.
Compared(t) ==
  LET s == me[t].found
  IN  [me[t] EXCEPT !.ref = Ref(s, id[s], Item(t).name, data[s]),
                    !.e = TRUE, !.equal = data[s] = Item(t).data]

Unread(t) == rd' = [rd EXCEPT ![me[t].found] = @ \ {t}]

\* need_to_update_rrset looks at trust, security and times, which can go either
\* way.  Here the new rrset is to be stored.
update_needed(t) ==
  /\ pc[t] = "compare"
  /\ Unread(t)
  /\ Goto(t, "insert", Compared(t))
  /\ UNCHANGED <<table, slots, table_lock, bin_lock, wr, msg>>

\* Here the cached one is superior.  If equal it is returned readlocked.
update_superior(t) ==
  LET m == Compared(t)
  IN  /\ pc[t] = "compare"
      /\ Release({Item(t).k})
      /\ IF m.equal THEN Goto(t, "copy", m) /\ rd' = rd
         ELSE Updated(t, m) /\ Unread(t)
      /\ UNCHANGED <<table, next_id, table_lock, bin_lock, wr, msg>>

\* store_rrsets copies the superior rrset, which it was given with a readlock.
update_copy(t) ==
  /\ pc[t] = "copy"
  /\ Unread(t)
  /\ Updated(t, me[t])
  /\ UNCHANGED <<table, slots, table_lock, bin_lock, wr, msg>>

\* The entry gets a new id, unless it was deleted since the comparison.
rrset_update_id(t) ==
  LET r == me[t].ref
  IN  /\ pc[t] = "update_id"
      /\ CanWrite(r.key)
      /\ next_id' = next_id + 1
      /\ IF id[r.key] = r.id
         THEN /\ id' = [id EXCEPT ![r.key] = next_id]
              /\ Updated(t, [me[t] EXCEPT !.ref.id = next_id,
                                          !.ref.data = data[r.key]])
         ELSE Updated(t, me[t]) /\ id' = id
      /\ UNCHANGED <<table, key, data, free, locks, msg>>

\* The time to live of the message is that of the rrset, read under its lock.
store_rrsets_ttl(t) ==
  /\ pc[t] = "ttl"
  /\ CanRead(me[t].ref.key)
  /\ NextItem(t, me[t].ref)
  /\ UNCHANGED <<table, slots, locks, msg>>

\* reply_info_sortref: by address, equal addresses in any order.
Sorted(refs) ==
  LET N == 1 .. Len(refs)
      P == {p \in [N -> N] : \A x, y \in N : p[x] = p[y] => x = y}
  IN  {q \in {[x \in N |-> refs[p[x]]] : p \in P} :
         \A x, y \in N : x < y => Addr[q[x].key] <= Addr[q[y].key]}

\* The message is stored, or with a time to live of zero it is removed, or
\* memory runs out.
store_msg(t) ==
  /\ pc[t] = "store_msg"
  /\ msg' \in Sorted(me[t].refs) \cup {NoMsg, msg}
  /\ Done(t)
  /\ UNCHANGED <<table, slots, locks>>

-----------------------------------------------------------------------------
(* lruhash_insert, with reclaim_space and table_grow *)

insert_new(t) ==
  LET it == Item(t)
  IN  /\ AtBin(t, "insert_bin")
      /\ Found(t) = {}
      /\ array' = [array EXCEPT ![BinOf(Hash[it.name])] = @ \cup {it.k}]
      /\ lru' = lru_front(lru, it.k)
      /\ num' = num + 1
      /\ space_used' = space_used + Size[it.data]
      /\ Goto(t, "reclaim", me[t])
      /\ UNCHANGED <<size, slots, locks, msg>>

\* A faulty variant: the size of the old data is still counted.
SpaceWith_both(new, old) == space_used + Size[new]

\* The space used when new data takes the place of old.
SpaceWith(new, old) == (space_used + Size[new]) - Size[old]

\* The new slot is released, only its data is used.
insert_found(t) ==
  /\ AtBin(t, "insert_bin")
  /\ \E s \in Found(t) :
       /\ space_used' = SpaceWith(Item(t).data, data[s])
       /\ lru' = lru_touch(lru, s)
       /\ Goto(t, "insert_data", [me[t] EXCEPT !.found = s])
  /\ Release({Item(t).k})
  /\ LockItemBin(t)
  /\ UNCHANGED <<array, size, num, next_id, table_lock, rd, wr, msg>>

\* With the writelock of the entry that was found.
insert_data(t) ==
  /\ pc[t] = "insert_data"
  /\ CanWrite(me[t].found)
  /\ data' = [data EXCEPT ![me[t].found] = Item(t).data]
  /\ UnlockBin(t)
  /\ Goto(t, "reclaim", me[t])
  /\ UNCHANGED <<table, key, id, free, next_id, table_lock, rd, wr, msg>>

\* The loop of reclaim_space takes the last entry off the list.
reclaim_space(t) ==
  /\ pc[t] = "reclaim"
  /\ IF num > 1 /\ space_used > space_max
     THEN /\ Goto(t, "reclaim_bin", [me[t] EXCEPT !.found = lru[Len(lru)]])
          /\ lru' = SubSeq(lru, 1, Len(lru) - 1)
          /\ num' = num - 1
     ELSE /\ Goto(t, "grow", me[t])
          /\ UNCHANGED <<lru, num>>
  /\ UNCHANGED <<array, size, space_used, slots, locks, msg>>

reclaim_bin(t) ==
  LET s == me[t].found
      b == BinOf(Hash[key[s]])
  IN  /\ pc[t] = "reclaim_bin"
      /\ BinFree(b)
      /\ LockBin(t, b)
      /\ array' = [array EXCEPT ![b] = @ \ {s}]
      /\ Goto(t, "reclaim_entry", [me[t] EXCEPT !.list = @ \cup {s}])
      /\ UNCHANGED <<size, lru, num, space_used, slots, table_lock, rd, wr,
                     msg>>

\* With the writelock, which waits until all users have left the entry.
reclaim_entry(t) ==
  LET s == me[t].found
  IN  /\ pc[t] = "reclaim_entry"
      /\ CanWrite(s)
      /\ space_used' = space_used - Size[data[s]]
      /\ id' = [id EXCEPT ![s] = 0]
      /\ UnlockBin(t)
      /\ Goto(t, "reclaim", me[t])
      /\ UNCHANGED <<array, size, lru, num, key, data, free, next_id,
                     table_lock, rd, wr, msg>>

\* table_grow's new array may not be allocated.
table_grow(t) ==
  /\ pc[t] = "grow"
  /\ \/ /\ num >= size /\ 2 * size <= MaxSize
        /\ Goto(t, "split",
                [me[t] EXCEPT !.todo = 0 .. size - 1,
                              !.new = [b \in 0 .. 2 * size - 1 |-> {}]])
        /\ UNCHANGED table_lock
     \/ /\ table_lock' = NoThread
        /\ Goto(t, "free", me[t])
  /\ UNCHANGED <<table, slots, bin_lock, rd, wr, msg>>

Least(S) == CHOOSE x \in S : \A y \in S : x <= y

\* A bin of the old array is locked while it is split.
AtSplit(t, b) == pc[t] = "split" /\ BinFree(b)

\* One bin of bin_split.  After the last one the table has the new array.
bin_split(t) ==
  LET m   == me[t]
      b   == Least(m.todo)
      new == [x \in DOMAIN m.new |->
                m.new[x] \cup {s \in array[b] : Hash[key[s]] % (2 * size) = x}]
  IN  /\ AtSplit(t, b)
      /\ IF m.todo = {b}
         THEN /\ array' = new
              /\ size' = 2 * size
              /\ table_lock' = NoThread
              /\ Goto(t, "free", [m EXCEPT !.todo = {}, !.new = <<>>])
         ELSE /\ array' = [array EXCEPT ![b] = {}]
              /\ Goto(t, "split", [m EXCEPT !.todo = @ \ {b}, !.new = new])
              /\ UNCHANGED <<size, table_lock>>
      /\ UNCHANGED <<lru, num, space_used, slots, bin_lock, rd, wr, msg>>

\* After the table is unlocked the entries taken out of it are released.  What
\* remains of rrset_cache_update depends on what the lookup had found.
free_list(t) ==
  LET m == me[t]
  IN  /\ pc[t] = "free"
      /\ Release(m.list)
      /\ IF m.op = "remove" THEN Done(t)
         ELSE IF ~m.e THEN NextItem(t, m.ref)
         ELSE IF Item(t).name \in Proofs /\ ~m.equal
         THEN Goto(t, "update_id", [m EXCEPT !.list = {}])
         ELSE Updated(t, [m EXCEPT !.list = {}])
      /\ UNCHANGED <<table, next_id, locks, msg>>

-----------------------------------------------------------------------------
(* lruhash_remove *)

remove_found(t) ==
  /\ AtBin(t, "remove_bin")
  /\ \E s \in Found(t) :
       /\ array' = [array EXCEPT ![BinOf(Hash[key[s]])] = @ \ {s}]
       /\ lru' = lru_remove(lru, s)
       /\ space_used' = space_used - Size[data[s]]
       /\ Goto(t, "remove_entry", [me[t] EXCEPT !.found = s, !.list = {s}])
  /\ num' = num - 1
  /\ LockItemBin(t)
  /\ UNCHANGED <<size, slots, table_lock, rd, wr, msg>>

remove_absent(t) ==
  /\ AtBin(t, "remove_bin")
  /\ Found(t) = {}
  /\ table_lock' = NoThread
  /\ Done(t)
  /\ UNCHANGED <<table, slots, bin_lock, rd, wr, msg>>

remove_entry(t) ==
  /\ pc[t] = "remove_entry"
  /\ CanWrite(me[t].found)
  /\ id' = [id EXCEPT ![me[t].found] = 0]
  /\ UnlockBin(t)
  /\ table_lock' = NoThread
  /\ Goto(t, "free", me[t])
  /\ UNCHANGED <<table, key, data, free, next_id, rd, wr, msg>>

-----------------------------------------------------------------------------
(* lruhash_traverse and lruhash_clear *)

\* The next bin, which is unlocked again at once if it is empty.
all_bin(t) ==
  LET m == me[t]
      b == Least(m.todo)
  IN  /\ pc[t] = "all_bin" /\ m.todo # {}
      /\ BinFree(b)
      /\ \/ /\ array[b] = {}
            /\ Goto(t, "all_bin", [m EXCEPT !.todo = @ \ {b}])
            /\ UNCHANGED bin_lock
         \/ \E s \in array[b] :
            /\ LockBin(t, b)
            /\ Goto(t, "all_entry",
                    [m EXCEPT !.found = s, !.list = array[b] \ {s}])
      /\ UNCHANGED <<table, slots, table_lock, rd, wr, msg>>

\* One entry: read, changed, or deleted by bin_clear.
all_entry(t) ==
  LET m == me[t]
      s == m.found
      b == Least(m.todo)
  IN  /\ pc[t] = "all_entry"
      /\ IF m.op = "traverse" THEN CanRead(s) ELSE CanWrite(s)
      /\ IF m.op = "clear"
         THEN Release({s}) /\ array' = [array EXCEPT ![b] = @ \ {s}]
         ELSE UNCHANGED <<key, data, id, free, array>>
      /\ \/ \E x \in m.list :
            /\ Goto(t, "all_entry", [m EXCEPT !.found = x, !.list = @ \ {x}])
            /\ UNCHANGED bin_lock
         \/ /\ m.list = {}
            /\ UnlockBin(t)
            /\ Goto(t, "all_bin", [m EXCEPT !.found = NULL, !.todo = @ \ {b}])
      /\ UNCHANGED <<size, lru, num, space_used, next_id,
                     table_lock, rd, wr, msg>>

all_end(t) ==
  /\ pc[t] = "all_bin" /\ me[t].todo = {}
  /\ IF me[t].op = "clear"
     THEN lru' = <<>> /\ num' = 0 /\ space_used' = 0
     ELSE UNCHANGED <<lru, num, space_used>>
  /\ table_lock' = NoThread
  /\ Done(t)
  /\ UNCHANGED <<array, size, slots, bin_lock, rd, wr, msg>>

-----------------------------------------------------------------------------
(* rrset_array_lock, rrset_array_unlock_touch, rrset_cache_touch *)

\* The same key as the reference before it: locked only once.
Again(refs, i) == i > 1 /\ refs[i].key = refs[i - 1].key

\* An id that differs, or an rrset that has expired, rolls the locks back.
rrset_array_lock(t) ==
  LET m    == me[t]
      r    == m.refs[m.i]
      step == Goto(t, IF m.i = Len(m.refs) THEN "answer" ELSE "array_lock",
                   [m EXCEPT !.i = @ + 1])
  IN  /\ pc[t] = "array_lock"
      /\ \/ /\ Again(m.refs, m.i)
            /\ step
            /\ UNCHANGED rd
         \/ /\ ~Again(m.refs, m.i)
            /\ CanRead(r.key)
            /\ \/ /\ id[r.key] = r.id
                  /\ rd' = [rd EXCEPT ![r.key] = @ \cup {t}]
                  /\ step
               \/ /\ rd' = [s \in Slot |-> rd[s] \ {t}]
                  /\ Done(t)
      /\ UNCHANGED <<table, slots, table_lock, bin_lock, wr, msg>>

Hashes(refs) == [x \in DOMAIN refs |-> Hash[key[refs[x].key]]]

\* A faulty variant: the entries are touched while they are locked.
rrset_array_unlock_touch_locked(t) ==
  /\ pc[t] = "answer"
  /\ \/ Done(t) /\ rd' = [s \in Slot |-> rd[s] \ {t}]
     \/ /\ Goto(t, "touch", [me[t] EXCEPT !.i = 1, !.h = Hashes(me[t].refs)])
        /\ rd' = rd
  /\ UNCHANGED <<table, slots, table_lock, bin_lock, wr, msg>>

\* The thread has made the answer.  rrset_array_unlock, or a failure to allocate
\* the array of hashes, does not touch.
rrset_array_unlock_touch(t) ==
  /\ pc[t] = "answer"
  /\ \/ Done(t)
     \/ Goto(t, "touch", [me[t] EXCEPT !.i = 1, !.h = Hashes(me[t].refs)])
  /\ rd' = [s \in Slot |-> rd[s] \ {t}]
  /\ UNCHANGED <<table, slots, table_lock, bin_lock, wr, msg>>

\* The slot of the reference is still the entry that was used.
StillThat(r, h) == id[r.key] = r.id /\ Hash[key[r.key]] = h

\* The readlock is held for the comparison only.
rrset_cache_touch(t) ==
  LET m    == me[t]
      r    == m.refs[m.i]
      More == {x \in m.i + 1 .. Len(m.refs) : ~Again(m.refs, x)}
  IN  /\ pc[t] = "touch_entry"
      /\ CanRead(r.key)
      /\ lru' = IF StillThat(r, m.h[m.i]) THEN lru_touch(lru, r.key) ELSE lru
      /\ table_lock' = NoThread
      /\ IF More = {} THEN Done(t)
         ELSE Goto(t, "touch", [m EXCEPT !.i = Least(More)])
      /\ UNCHANGED <<array, size, num, space_used, slots, bin_lock, rd, wr,
                     msg>>

-----------------------------------------------------------------------------

Init ==
  /\ array = [b \in 0 .. StartSize - 1 |-> {}] /\ size = StartSize
  /\ lru = <<>> /\ num = 0 /\ space_used = 0
  /\ key = [s \in Slot |-> NULL]
  /\ data = [s \in Slot |-> NULL] /\ id = [s \in Slot |-> 0]
  /\ free = Slot /\ next_id = 1
  /\ table_lock = NoThread /\ bin_lock = [t \in Thread |-> NoBin]
  /\ rd = [s \in Slot |-> {}] /\ wr = [s \in Slot |-> NoThread]
  /\ msg = NoMsg
  /\ pc = [t \in Thread |-> "idle"] /\ me = [t \in Thread |-> Rest]

Lookup(t) == rrset_cache_lookup(t) \/ lookup_found(t) \/ lookup_absent(t)
             \/ lookup_entry(t) \/ lock_rw_unlock(t)

Update(t) == dns_cache_store_msg(t) \/ rrset_cache_update_unlock(t)
             \/ update_start(t) \/ update_needed(t) \/ update_superior(t)
             \/ update_copy(t) \/ rrset_update_id(t)
             \/ store_rrsets_ttl(t) \/ store_msg(t)

Insert(t) == insert_new(t) \/ insert_found(t) \/ insert_data(t)
             \/ reclaim_space(t) \/ reclaim_bin(t) \/ reclaim_entry(t)
             \/ table_grow(t) \/ bin_split(t) \/ free_list(t)

Remove(t) == rrset_cache_remove(t) \/ remove_found(t) \/ remove_absent(t)
             \/ remove_entry(t)

All(t) == StartAll(t) \/ all_bin(t) \/ all_entry(t) \/ all_end(t)

Read(t) == rrset_array_lock_start(t) \/ rrset_array_lock(t)
           \/ rrset_array_unlock_touch(t) \/ rrset_cache_touch(t)

Next ==
  \E t \in Thread :
    \/ lock_table(t)
    \/ Lookup(t) \/ Update(t) \/ Insert(t) \/ Remove(t) \/ All(t) \/ Read(t)

Spec == Init /\ [][Next]_vars

-----------------------------------------------------------------------------
(* Properties *)

\* The slots linked into the bins, of the array or of the one that replaces it.
Linked ==
  UNION {array[b] : b \in DOMAIN array}
  \cup UNION {UNION {me[t].new[b] : b \in DOMAIN me[t].new} : t \in Thread}

\* The positions in rep of the rrsets that the thread has yet to store.
Pending(t) ==
  IF me[t].op \notin Storing THEN {}
  ELSE {x \in DOMAIN me[t].rep :
          \/ x > me[t].i
          \/ x = me[t].i /\ pc[t] \in {"update", "lookup", "lookup_bin",
                                       "lookup_entry", "compare", "insert",
                                       "insert_bin"}}

\* The slots that a thread has to insert or to release.
Owned(t) ==
  {me[t].rep[x].k : x \in Pending(t)}
  \cup (IF me[t].op \in Storing \cup {"remove"} THEN me[t].list ELSE {})

\* The references that exist.
Refs == {msg[x] : x \in DOMAIN msg}
        \cup UNION {{me[t].refs[x] : x \in DOMAIN me[t].refs} : t \in Thread}

\* The thread holds an entry that a lookup returned.
Holding(t) == pc[t] \in {"have", "compare", "copy"}

\* The type of the state.  num, space_used and the ids are unsigned in the code:
\* removing what is not there must not take them below zero.
TypeOK ==
  /\ size \in Nat /\ array \in [0 .. size - 1 -> SUBSET Slot]
  /\ lru \in Seq(Slot) /\ num \in Nat /\ space_used \in Nat
  /\ key \in [Slot -> Name \cup {NULL}] /\ data \in [Slot -> Data \cup {NULL}]
  /\ id \in [Slot -> Nat] /\ free \subseteq Slot /\ next_id \in Nat
  /\ table_lock \in Thread \cup {NoThread}
  /\ bin_lock \in [Thread -> {NoBin} \cup (Nat \X Nat)]
  /\ rd \in [Slot -> SUBSET Thread] /\ wr \in [Slot -> Thread \cup {NoThread}]

\* No slot is lost or in two places: it is in a quarantine list, or linked, or
\* in the hands of one thread.
NoSlotLost ==
  /\ Slot = free \cup Linked \cup UNION {Owned(t) : t \in Thread}
  /\ free \cap Linked = {}
  /\ \A t \in Thread : Owned(t) \cap (free \cup Linked) = {}
  /\ \A t, u \in Thread : t # u => Owned(t) \cap Owned(u) = {}

\* A bin that is locked is a bin of the array in use: table_grow destroys the
\* old array, with its locks.
NoStaleBin ==
  \A t \in Thread : bin_lock[t] # NoBin => bin_lock[t][1] = size

\* When nobody holds the table lock, the LRU list has every linked entry once,
\* num counts them, each is in the bin of its hash, alive, and the only one of
\* its name, whatever lookups, touches and deletions by other threads did.  At
\* all times no slot is lost and no lock of an array that table_grow freed is held.
TableExact ==
  /\ TypeOK /\ NoSlotLost /\ NoStaleBin
  /\ table_lock = NoThread =>
       /\ {lru[x] : x \in DOMAIN lru} = Linked
       /\ Len(lru) = num /\ Cardinality(Linked) = num
       /\ \A b \in DOMAIN array : \A s \in array[b] :
            id[s] # 0 /\ key[s] \in Name /\ BinOf(Hash[key[s]]) = b
       /\ \A s, u \in Linked : key[s] = key[u] => s = u

\* space_used is the size of what is linked, and reclaim_space has brought it
\* under the limit unless one entry is left.
SpaceExact ==
  table_lock = NoThread =>
    /\ space_used = MapThenSumSet(LAMBDA s : Size[data[s]], Linked)
    /\ space_used <= space_max \/ num <= 1

\* The entry that lruhash_lookup returned stays that rrset, with the same data
\* and id, until the thread unlocks it, although it may leave the table.
HeldUnchanged ==
  [][\A t \in Thread :
       Holding(t) =>
         LET s == me[t].found
         IN  /\ key[s] = Item(t).name /\ id[s] # 0
             /\ Holding(t)' => data'[s] = data[s] /\ id'[s] = id[s]]_vars

\* A reference whose id is that of its slot is to the rrset it was made for,
\* however often the slot was used again.
RefMatches ==
  \A r \in Refs : id[r.key] = r.id => key[r.key] = r.name

\* What a thread waits for: <<"table">>, <<"bin", b>>, <<"read", s>>,
\* <<"write", s>> or nothing.
Wants(t) ==
  LET m == me[t]
  IN  CASE pc[t] \in DOMAIN AfterLock -> <<"table">>
        [] pc[t] \in {"lookup_bin", "insert_bin", "remove_bin"} ->
             <<"bin", BinOf(Hash[Item(t).name])>>
        [] pc[t] = "reclaim_bin" -> <<"bin", BinOf(Hash[key[m.found]])>>
        [] pc[t] \in {"split", "all_bin"} /\ m.todo # {} ->
             <<"bin", Least(m.todo)>>
        [] pc[t] = "lookup_entry" ->
             <<IF m.op = "edit" THEN "write" ELSE "read", m.found>>
        [] pc[t] = "all_entry" ->
             <<IF m.op = "traverse" THEN "read" ELSE "write", m.found>>
        [] pc[t] \in {"insert_data", "reclaim_entry", "remove_entry"} ->
             <<"write", m.found>>
        [] pc[t] = "update_id" -> <<"write", m.ref.key>>
        [] pc[t] = "ttl" -> <<"read", m.ref.key>>
        [] \/ pc[t] = "touch_entry"
           \/ pc[t] = "array_lock" /\ ~Again(m.refs, m.i) ->
             <<"read", m.refs[m.i].key>>
        [] OTHER -> <<>>

\* The threads that keep t waiting.  A readlock that others hold may be refused
\* while a writer waits: POSIX leaves that open.
Blockers(t) ==
  LET w == Wants(t)
  IN  CASE w = <<>> -> {}
        [] w = <<"table">> -> {table_lock} \cap Thread
        [] w # <<>> /\ w[1] = "bin" ->
             {u \in Thread : bin_lock[u] = <<size, w[2]>>}
        [] w # <<>> /\ w[1] = "write" -> rd[w[2]] \cup ({wr[w[2]]} \cap Thread)
        [] w # <<>> /\ w[1] = "read" ->
             ({wr[w[2]]} \cap Thread)
             \cup {u \in Thread :
                     rd[w[2]] # {} /\ Wants(u) = <<"write", w[2]>>}

\* There is no group of threads of which each waits for another, or for itself,
\* whatever the order in which table, bin and entry locks are asked for.
NoDeadlock ==
  \A S \in SUBSET Thread :
    S # {} => \E t \in S : Blockers(t) \cap S = {}

\* The map: what is linked.  A thread that has locked the entry it has to change
\* has not stored yet.
Map == INSTANCE CacheMap WITH
  map <- [n \in Name |->
            IF \E s \in Linked : key[s] = n
            THEN data[CHOOSE s \in Linked : key[s] = n] ELSE NULL],
  want <- [t \in Thread |->
             {<<me[t].rep[x].name, me[t].rep[x].data>> :
                x \in Pending(t) \cup (IF pc[t] = "insert_data" THEN {me[t].i}
                                       ELSE {})}],
  got <- [t \in Thread |->
            IF Holding(t) THEN <<key[me[t].found], data[me[t].found]>>
            ELSE NULL]

\* Whatever the interleaving of lookups, insertions, evictions, removals and the
\* growth of the array, the threads see a map that may forget.
RefinesMap == Map!Spec
=============================================================================
