---------------------------- MODULE AutotrustInv ----------------------------
(***************************************************************************)
(* The inductive invariant of Autotrust; what the functions on the key list *)
(* and on the file compute; and the steps that do not process a response.   *)
(***************************************************************************)
EXTENDS Autotrust, TLAPS

-----------------------------------------------------------------------------
(* The inductive invariant. *)

\* The record of a key while a response is processed, and between.
AnyKey ==
  [s : State, last_change : 0 .. MaxTime, count : 0 .. MaxCount,
   revoked : BOOLEAN]

KeyRecord == {k \in AnyKey : k.s \notin {"START", "REMOVED"}}

\* The list of keys.  Only keys with the SEP flag go through the state table.
KeyList ==
  {ks \in [Key -> KeyRecord] : \A k \in Zsk : ks[k].s \in {"NONE", "VALID"}}

RunRecord == [since : 0 .. MaxTime, n : Nat]

PC == {"idle", "found", "schedule", "remove", "delete", "probe"}

ProbeTime == 0 .. MaxTime + Interval

Rrsets == [ds : SUBSET Key, dnskey : SUBSET Key]

PointRecord ==
  [success : BOOLEAN, revoked : BOOLEAN, deleted : BOOLEAN,
   next_probe_time : ProbeTime]

FileRecord ==
  [revoked : BOOLEAN, success : BOOLEAN, ds : SUBSET Ksk,
   run : [Ksk -> RunRecord], next : ProbeTime, keys : KeyList]

LocRecord == [time : ProbeTime, changed : BOOLEAN]

Types ==
  /\ keys \in KeyList
  /\ ds \in SUBSET Ksk
  /\ trust \in Rrsets
  /\ tp \in PointRecord
  /\ tree \in BOOLEAN /\ probe \in BOOLEAN
  /\ file \in FileRecord
  /\ now \in Time
  /\ tplock \in Worker \cup {None}
  /\ pc \in [Worker -> PC]
  /\ loc \in [Worker -> LocRecord]
  /\ run \in [Ksk -> RunRecord]

\* Who holds tp->lock is at one of the places where it is held.
Locked == \A w \in Worker : pc[w] \in {"found", "probe"} <=> tplock = w

Trusted(ks) == {k \in Key : ks[k].s \in {"VALID", "MISSING"}}

OneRevoked(ks) == \E k \in Key : ks[k].s = "REVOKED"

\* One that do_remtime does not remove yet.
JustRevoked(ks) == \E k \in Key : ks[k].s = "REVOKED" /\ ks[k].last_change = now

Assembled == trust = autr_assemble(keys, ds)

Scheduling == \E w \in Worker : pc[w] = "schedule"

\* If the rrsets are out of date, a worker is going to assemble them.
Pending ==
  tree /\ ~Assembled => \E w \in Worker : pc[w] = "schedule" /\ loc[w].changed

\* The last anchor is lost by a revocation only.
Lost ==
  Trusted(keys) = {} /\ ds = {} =>
    OneRevoked(keys) /\ (~Assembled => JustRevoked(keys))

\* Rrsets that are out of date verified a response.
Stale == ~Assembled => ~NoAnchors(trust)

Removed ==
  /\ tp.revoked => tp.success /\ Trusted(keys) = {} /\ Assembled
  /\ ~tree /\ ~tp.revoked => AllIdle /\ ~probe /\ Assembled
  /\ \A w \in Worker : pc[w] \in {"remove", "delete"} => tp.revoked
  /\ Scheduling => tp.success

\* DSes are there until the first response that they verify.
FirstUse(ks, d) ==
  d # {} => \A k \in Key : \/ ks[k].s \in {"NONE", "VALID"} /\ ~ks[k].revoked
                           \/ ks[k].s = "REVOKED"

Anchors == FirstUse(keys, ds) /\ (tp.success => ds = {})

RevokedInFile ==
  \A k \in Key : keys[k].s = "REVOKED" => file.revoked \/ file.keys[k].s = "REVOKED"

Saved == tp.success /\ tree /\ ~tp.revoked => RevokedInFile \/ Scheduling

\* A pending key was in all the responses since it was first seen.
RunOf(ks, rs) ==
  \A k \in Ksk :
    /\ ks[k].s = "NONE" => rs[k].n = 0
    /\ ks[k].s = "ADDPEND" => /\ rs[k].n >= 1 /\ rs[k].n >= ks[k].count
                              /\ rs[k].since = ks[k].last_change

FileInv ==
  /\ RunOf(file.keys, file.run)
  /\ Trusted(file.keys) = {} /\ file.ds = {} => OneRevoked(file.keys)
  /\ FirstUse(file.keys, file.ds)
  /\ file.success => file.ds = {}

IInv ==
  /\ Types /\ Locked /\ Pending /\ Lost /\ Stale /\ Removed /\ Anchors /\ Saved
  /\ RunOf(keys, run) /\ FileInv

-----------------------------------------------------------------------------
(* What the functions do to the list of keys. *)

LEMMA Constants ==
  /\ {add_holddown, del_holddown, keep_missing, MIN_PENDINGCOUNT, MaxCount} \subseteq Nat
  /\ MaxTime \in Nat /\ MaxTime >= 1 /\ Interval \in Nat /\ Interval >= 1
  /\ None \notin Worker /\ Ksk \cap Zsk = {}
BY AutotrustAssumption

\* autr_holddown_exceed and check_contains_revoked: time makes pending keys
\* valid, and valid keys are revoked.
Passed(k) == check_holddown(k, add_holddown) /\ k.count >= MIN_PENDINGCOUNT

CheckedKey(old, new) ==
  /\ old.s = "NONE" => new = old
  /\ old.s = "REVOKED" => new.s = "REVOKED" /\ new.last_change = old.last_change
  /\ old.s \in {"VALID", "MISSING"} =>
       \/ new.s = old.s
       \/ new.s = "REVOKED" /\ new.last_change = now
  /\ old.s = "ADDPEND" =>
       \/ /\ new.s = "ADDPEND" /\ new.last_change = old.last_change
          /\ new.count = old.count
       \/ Passed(old) /\ new.s \in {"VALID", "REVOKED"}

LEMMA SetState ==
  ASSUME NEW k \in AnyKey, NEW s \in State, now \in Time
  PROVE  /\ set_trustanchor_state(k, s) \in AnyKey
         /\ set_trustanchor_state(k, s).s = s
         /\ set_trustanchor_state(k, s).last_change = now
         /\ set_trustanchor_state(k, s).count = k.count
         /\ set_trustanchor_state(k, s).revoked = k.revoked
<1>1. now \in 0 .. MaxTime
  BY Constants DEF Time
<1> QED
  BY <1>1, Zenon DEF set_trustanchor_state, AnyKey

LEMMA SetCount ==
  ASSUME NEW k \in AnyKey, NEW c \in 0 .. MaxCount
  PROVE  /\ [k EXCEPT !.count = c] \in AnyKey
         /\ [k EXCEPT !.count = c].s = k.s
         /\ [k EXCEPT !.count = c].last_change = k.last_change
         /\ [k EXCEPT !.count = c].count = c
         /\ [k EXCEPT !.count = c].revoked = k.revoked
BY DEF AnyKey

LEMMA SetRevoked ==
  ASSUME NEW k \in AnyKey, NEW b \in BOOLEAN
  PROVE  /\ [k EXCEPT !.revoked = b] \in AnyKey
         /\ [k EXCEPT !.revoked = b].s = k.s
         /\ [k EXCEPT !.revoked = b].last_change = k.last_change
         /\ [k EXCEPT !.revoked = b].count = k.count
         /\ [k EXCEPT !.revoked = b].revoked = b
BY DEF AnyKey

\* do_addtime
LEMMA AddTime ==
  ASSUME NEW k \in AnyKey, now \in Time
  PROVE  /\ do_addtime(k) \in AnyKey
         /\ ~Passed(k) => do_addtime(k) = k
         /\ Passed(k) => /\ do_addtime(k).s = "VALID"
                         /\ do_addtime(k).last_change = now
                         /\ do_addtime(k).revoked = k.revoked
<1>1. 0 \in 0 .. MaxCount /\ "VALID" \in State
  BY Constants DEF State
<1> DEFINE v == set_trustanchor_state(k, "VALID")
<1>2. /\ v \in AnyKey /\ v.s = "VALID" /\ v.last_change = now
      /\ v.revoked = k.revoked
  BY <1>1, SetState
<1>3. do_addtime(k) = IF Passed(k) THEN [v EXCEPT !.count = 0] ELSE k
  BY DEF do_addtime, Passed
<1> QED
  BY <1>1, <1>2, <1>3, SetCount

\* do_revoked
LEMMA DoRevoked ==
  ASSUME NEW k \in AnyKey, now \in Time
  PROVE  /\ do_revoked(k) \in AnyKey
         /\ k.s \notin {"VALID", "MISSING"} => do_revoked(k) = k
         /\ k.s \in {"VALID", "MISSING"} => /\ do_revoked(k).s = "REVOKED"
                                            /\ do_revoked(k).last_change = now
BY SetState DEF do_revoked, State

LEMMA ExceedKeys ==
  ASSUME NEW ks \in KeyList, now \in Time
  PROVE  /\ autr_holddown_exceed(ks) \in KeyList
         /\ \A k \in Key :
              \/ autr_holddown_exceed(ks)[k] = ks[k]
              \/ /\ k \in Ksk /\ ks[k].s = "ADDPEND" /\ Passed(ks[k])
                 /\ autr_holddown_exceed(ks)[k].s = "VALID"
<1> DEFINE e == autr_holddown_exceed(ks)
<1>1. ASSUME NEW k \in Key
      PROVE  /\ e[k] \in KeyRecord
             /\ \/ e[k] = ks[k]
                \/ /\ k \in Ksk /\ ks[k].s = "ADDPEND" /\ Passed(ks[k])
                   /\ e[k].s = "VALID"
  <2>1. ks[k] \in AnyKey /\ ks[k].s \notin {"START", "REMOVED"}
    BY DEF KeyList, KeyRecord
  <2>2. e[k] = IF k \in Ksk /\ ks[k].s = "ADDPEND" THEN do_addtime(ks[k]) ELSE ks[k]
    BY DEF autr_holddown_exceed
  <2> QED
    BY <2>1, <2>2, AddTime DEF KeyRecord
<1>2. \A k \in Zsk : e[k] = ks[k]
  BY Constants DEF autr_holddown_exceed, Key
<1> QED
  BY <1>1, <1>2, Zenon DEF KeyList, autr_holddown_exceed, Key

CheckedList(ks, c) ==
  /\ c \in KeyList
  /\ \A k \in Key : CheckedKey(ks[k], c[k])
  /\ \A k \in Zsk : c[k] = ks[k]
  /\ \A k \in Key : ks[k].s \in {"NONE", "VALID"} /\ ~ks[k].revoked
                     => c[k].s = "REVOKED" \/ c[k] = ks[k]

LEMMA CheckedKeys ==
  ASSUME NEW ks \in KeyList, now \in Time, NEW r \in Response
  PROVE  CheckedList(ks, check_contains_revoked(autr_holddown_exceed(ks), r))
<1> DEFINE e == autr_holddown_exceed(ks)
           c == check_contains_revoked(e, r)
<1>0. e \in KeyList
  BY ExceedKeys
<1>1. ASSUME NEW k \in Key
      PROVE  /\ c[k] \in KeyRecord
             /\ CheckedKey(ks[k], c[k])
             /\ ks[k].s \in {"NONE", "VALID"} /\ ~ks[k].revoked
                  => c[k].s = "REVOKED" \/ c[k] = ks[k]
  <2>1. /\ ks[k] \in AnyKey /\ ks[k].s \notin {"START", "REMOVED"}
        /\ e[k] \in AnyKey /\ e[k].s \notin {"START", "REMOVED"}
    BY <1>0 DEF KeyList, KeyRecord
  <2> DEFINE m == [e[k] EXCEPT !.revoked = TRUE]
  <2>2. c[k] = IF k \in Ksk /\ e[k].s # "NONE" /\ r.has[k] = "revoked"
               THEN do_revoked(m) ELSE e[k]
    BY DEF check_contains_revoked
  <2>3. \/ e[k] = ks[k]
        \/ ks[k].s = "ADDPEND" /\ Passed(ks[k]) /\ e[k].s = "VALID"
    BY ExceedKeys
  <2>4. /\ m \in AnyKey /\ m.s = e[k].s
        /\ m.last_change = e[k].last_change /\ m.count = e[k].count
    BY <2>1, SetRevoked, Zenon
  <2>5. /\ do_revoked(m) \in AnyKey
        /\ e[k].s \notin {"VALID", "MISSING"} =>
             /\ do_revoked(m).s = e[k].s
             /\ do_revoked(m).last_change = e[k].last_change
             /\ do_revoked(m).count = e[k].count
        /\ e[k].s \in {"VALID", "MISSING"} => /\ do_revoked(m).s = "REVOKED"
                                              /\ do_revoked(m).last_change = now
    BY <2>4, DoRevoked, Zenon
  <2>6. c[k] \in KeyRecord
    BY <2>1, <2>2, <2>5 DEF KeyRecord
  <2>7. CheckedKey(ks[k], c[k])
    BY <2>2, <2>3, <2>5 DEF CheckedKey
  <2> QED
    BY <2>2, <2>3, <2>5, <2>6, <2>7
<1>2. \A k \in Zsk : k \notin Ksk /\ c[k] = e[k] /\ e[k] = ks[k]
  BY Constants DEF check_contains_revoked, autr_holddown_exceed, Key
<1>3. c \in KeyList
  BY <1>1, <1>2, Zenon DEF KeyList, check_contains_revoked, Key
<1> HIDE DEF c
<1>4. CheckedList(ks, c)
  BY <1>1, <1>2, <1>3 DEF CheckedList
<1> QED
  BY <1>4 DEF c

LEMMA CountType ==
  ASSUME NEW c \in 0 .. MaxCount
  PROVE  Count(c) \in 0 .. MaxCount
BY Constants DEF Count

\* update_events, for a response that has or has not got the key.
EventsList(ks, t, r, u) ==
  /\ u \in [Key -> AnyKey]
  /\ \A k \in Key : k \notin Fetched(r) => u[k] = ks[k]
  /\ \A k \in Fetched(r) :
       /\ ks[k].s # "NONE" =>
            /\ u[k].s = ks[k].s /\ u[k].revoked = ks[k].revoked
            /\ u[k].last_change = ks[k].last_change
            /\ u[k].count = Count(ks[k].count)
       /\ ks[k].s = "NONE" =>
            /\ u[k].s = IF k \in t.ds THEN "VALID" ELSE "START"
            /\ u[k].revoked = FALSE /\ u[k].count = Count(0)

LEMMA UpdateEvents ==
  ASSUME NEW ks \in KeyList, NEW t \in Rrsets, NEW r \in Response
  PROVE  EventsList(ks, t, r, update_events(ks, t, r))
<1> DEFINE u == update_events(ks, t, r)
           New(k) == IF k \in t.ds THEN [NewKey EXCEPT !.s = "VALID"] ELSE NewKey
           Known(k) == IF ks[k].s # "NONE" THEN ks[k] ELSE New(k)
<1>1. u = [k \in Key |-> IF k \in Fetched(r)
                         THEN [Known(k) EXCEPT !.count = Count(Known(k).count)]
                         ELSE ks[k]]
  BY DEF update_events
<1>2. ASSUME NEW k \in Key
      PROVE  /\ New(k) \in AnyKey /\ New(k).count = 0 /\ New(k).revoked = FALSE
             /\ New(k).s = IF k \in t.ds THEN "VALID" ELSE "START"
  <2>1. /\ Absent \in AnyKey /\ Absent.count = 0 /\ Absent.revoked = FALSE
        /\ {"START", "VALID"} \subseteq State
    BY Constants DEF Absent, AnyKey, State
  <2>2. \A j \in AnyKey : \A s \in State :
          /\ [j EXCEPT !.s = s] \in AnyKey /\ [j EXCEPT !.s = s].s = s
          /\ [j EXCEPT !.s = s].count = j.count
          /\ [j EXCEPT !.s = s].revoked = j.revoked
    BY DEF AnyKey
  <2>3. /\ NewKey \in AnyKey /\ NewKey.count = 0 /\ NewKey.revoked = FALSE
        /\ NewKey.s = "START"
    BY <2>1, <2>2 DEF NewKey
  <2> QED
    BY <2>1, <2>2, <2>3
<1>3. ASSUME NEW k \in Key
      PROVE  ks[k] \in AnyKey /\ ks[k].count \in 0 .. MaxCount
  BY DEF KeyList, KeyRecord, AnyKey
<1>4. ASSUME NEW k \in Key, k \in Fetched(r)
      PROVE  /\ u[k] \in AnyKey
             /\ ks[k].s # "NONE" =>
                  /\ u[k].s = ks[k].s /\ u[k].revoked = ks[k].revoked
                  /\ u[k].last_change = ks[k].last_change
                  /\ u[k].count = Count(ks[k].count)
             /\ ks[k].s = "NONE" =>
                  /\ u[k].s = IF k \in t.ds THEN "VALID" ELSE "START"
                  /\ u[k].revoked = FALSE /\ u[k].count = Count(0)
  <2>1. Known(k) \in AnyKey
    BY <1>2, <1>3, Zenon
  <2>2. Count(Known(k).count) \in 0 .. MaxCount
    BY <2>1, CountType DEF AnyKey
  <2>3. u[k] = [Known(k) EXCEPT !.count = Count(Known(k).count)]
    BY <1>1, <1>4
  <2> HIDE DEF u
  <2>4. /\ u[k] \in AnyKey /\ u[k].s = Known(k).s
        /\ u[k].last_change = Known(k).last_change
        /\ u[k].count = Count(Known(k).count)
        /\ u[k].revoked = Known(k).revoked
    BY <2>1, <2>2, <2>3, SetCount
  <2> HIDE DEF New
  <2> QED
    BY <1>2, <2>4, Zenon
<1>5. ASSUME NEW k \in Key, k \notin Fetched(r)
      PROVE  u[k] = ks[k]
  BY <1>1, <1>5
<1>6. Fetched(r) \subseteq Key
  BY DEF Fetched, Key
<1>7. u \in [Key -> AnyKey]
  BY <1>1, <1>3, <1>4, <1>5, Zenon
<1> HIDE DEF u
<1>8. EventsList(ks, t, r, u)
  BY <1>4, <1>5, <1>6, <1>7, Zenon DEF EventsList
<1> QED
  BY <1>8 DEF u

\* anchor_state_update: the state table of RFC 5011.
StateTable(k, fetched, n) ==
  /\ n \in AnyKey
  /\ k.s = "START" => IF fetched
                      THEN /\ n.s = "ADDPEND" /\ n.last_change = now
                           /\ n.count = k.count
                      ELSE n = k
  /\ k.s = "ADDPEND" => IF ~fetched THEN n.s = "START"
                        ELSE IF Passed(k) THEN n.s = "VALID" ELSE n = k
  /\ k.s = "VALID" => IF k.revoked
                      THEN n.s = "REVOKED" /\ n.last_change = now
                      ELSE n.s = IF fetched THEN "VALID" ELSE "MISSING"
  /\ k.s = "MISSING" => IF k.revoked
                        THEN n.s = "REVOKED" /\ n.last_change = now
                        ELSE n.s = IF fetched THEN "VALID" ELSE "MISSING"
  /\ k.s = "REVOKED" => IF fetched \/ k.last_change = now
                        THEN n.s = "REVOKED" /\ n.last_change = now
                        ELSE n.s \in {"REVOKED", "REMOVED"}
  /\ k.s \in {"NONE", "REMOVED"} => n = k

LEMMA StateUpdate ==
  ASSUME NEW k \in AnyKey, NEW fetched \in BOOLEAN, now \in Time
  PROVE  StateTable(k, fetched, anchor_state_update(k, fetched))
<1> DEFINE n == anchor_state_update(k, fetched)
<1>0. /\ k.s \in State /\ now \in 0 .. MaxTime /\ 0 \in 0 .. MaxCount
      /\ now \in Nat /\ del_holddown \in Nat /\ k.revoked \in BOOLEAN
      /\ k.last_change \in Nat
  BY Constants DEF AnyKey, Time
<1>1. CASE k.s = "START"
  <2>1. n = IF fetched THEN set_trustanchor_state(k, "ADDPEND") ELSE k
    BY <1>1 DEF anchor_state_update
  <2> QED
    BY <1>1, <2>1, SetState DEF State, StateTable
<1>2. CASE k.s = "ADDPEND"
  <2>1. n = IF fetched THEN do_addtime(k) ELSE do_keyrem(k)
    BY <1>2 DEF anchor_state_update
  <2>2. do_keyrem(k) = [set_trustanchor_state(k, "START") EXCEPT !.count = 0]
    BY <1>2 DEF do_keyrem
  <2>3. /\ set_trustanchor_state(k, "START") \in AnyKey
        /\ set_trustanchor_state(k, "START").s = "START"
    BY SetState DEF State
  <2>4. do_keyrem(k) \in AnyKey /\ do_keyrem(k).s = "START"
    BY <1>0, <2>2, <2>3, SetCount
  <2> QED
    BY <1>2, <2>1, <2>4, AddTime DEF StateTable
<1>3. CASE k.s = "VALID"
  <2>1. n = IF k.revoked THEN do_revoked(k)
            ELSE IF ~fetched THEN do_keyrem(k)
            ELSE IF k.last_change = 0 THEN [k EXCEPT !.last_change = now] ELSE k
    BY <1>3 DEF anchor_state_update
  <2>2. do_keyrem(k) = set_trustanchor_state(k, "MISSING")
    BY <1>3 DEF do_keyrem
  <2>3. do_keyrem(k) \in AnyKey /\ do_keyrem(k).s = "MISSING"
    BY <2>2, SetState DEF State
  <2>4. /\ [k EXCEPT !.last_change = now] \in AnyKey
        /\ [k EXCEPT !.last_change = now].s = k.s
    BY <1>0 DEF AnyKey
  <2> QED
    BY <1>3, <2>1, <2>3, <2>4, DoRevoked DEF StateTable
<1>4. CASE k.s = "MISSING"
  <2>1. n = IF k.revoked THEN do_revoked(k)
            ELSE IF fetched THEN set_trustanchor_state(k, "VALID") ELSE k
    BY <1>4 DEF anchor_state_update
  <2> QED
    BY <1>4, <2>1, DoRevoked, SetState DEF State, StateTable
<1>5. CASE k.s = "REVOKED"
  <2>1. n = IF fetched THEN [k EXCEPT !.last_change = now] ELSE do_remtime(k)
    BY <1>5 DEF anchor_state_update
  <2>2. /\ [k EXCEPT !.last_change = now] \in AnyKey
        /\ [k EXCEPT !.last_change = now].s = k.s
        /\ [k EXCEPT !.last_change = now].last_change = now
    BY <1>0 DEF AnyKey
  <2>3. /\ do_remtime(k) \in AnyKey
        /\ do_remtime(k) = k \/ do_remtime(k).s = "REMOVED"
    BY SetState DEF do_remtime, State
  <2>4. k.last_change = now => ~check_holddown(k, del_holddown)
    BY <1>0 DEF check_holddown
  <2>5. k.last_change = now => do_remtime(k) = k
    BY <2>4 DEF do_remtime
  <2> QED
    BY <1>5, <2>1, <2>2, <2>3, <2>5 DEF StateTable
<1>6. CASE k.s \in {"NONE", "REMOVED"}
  BY <1>6 DEF anchor_state_update, StateTable
<1> QED
  BY <1>0, <1>1, <1>2, <1>3, <1>4, <1>5, <1>6 DEF State

\* init_zsk_to_ksk: pending keys may become valid, no other change.
LEMMA InitZsk ==
  ASSUME NEW ks \in [Key -> AnyKey], now \in Time
  PROVE  LET i == init_zsk_to_ksk(ks)
         IN  /\ i \in [Key -> AnyKey]
             /\ \A k \in Key :
                  \/ i[k] = ks[k]
                  \/ /\ k \in Ksk /\ ks[k].s = "ADDPEND" /\ i[k].s = "VALID"
                     /\ \E z \in Zsk : ks[z].s = "VALID"
<1> DEFINE New(k) == IF k \in Ksk /\ ks[k].s = "ADDPEND"
                     THEN set_trustanchor_state(ks[k], "VALID") ELSE ks[k]
<1>1. ASSUME NEW k \in Key
      PROVE  /\ New(k) \in AnyKey
             /\ \/ New(k) = ks[k]
                \/ k \in Ksk /\ ks[k].s = "ADDPEND" /\ New(k).s = "VALID"
  BY SetState DEF State
<1>2. \/ init_zsk_to_ksk(ks) = ks
      \/ /\ init_zsk_to_ksk(ks) = [k \in Key |-> New(k)]
         /\ \E z \in Zsk : ks[z].s = "VALID"
  BY DEF init_zsk_to_ksk
<1> HIDE DEF New
<1> QED
  BY <1>1, <1>2

\* remove_missing_trustanchors takes a key away only if another is valid.
LEMMA RemoveMissing ==
  ASSUME NEW ks \in [Key -> AnyKey], now \in Time
  PROVE  LET g == remove_missing_trustanchors(ks)
         IN  /\ g \in [Key -> AnyKey]
             /\ Trusted(ks) # {} => Trusted(g) # {}
             /\ \A k \in Ksk :
                  \/ g[k] = ks[k]
                  \/ ks[k].s = "MISSING" /\ g[k].s = "REMOVED"
                  \/ /\ ks[k].s = "ADDPEND" /\ g[k].s = "VALID"
                     /\ \E z \in Zsk : ks[z].s = "VALID"
             /\ \A z \in Zsk : g[z] = ks[z] \/ g[z].s = "REMOVED"
<1> DEFINE i == IF HasValidKsk(ks) THEN ks ELSE init_zsk_to_ksk(ks)
           Gone(k) == \/ k \in Zsk /\ i[k].s \notin {"NONE", "START"}
                      \/ /\ k \in Ksk /\ i[k].s = "MISSING" /\ keep_missing # 0
                         /\ check_holddown(i[k], keep_missing)
           g == remove_missing_trustanchors(ks)
<1>1. /\ i \in [Key -> AnyKey]
      /\ \A k \in Key :
           \/ i[k] = ks[k]
           \/ /\ k \in Ksk /\ ks[k].s = "ADDPEND" /\ i[k].s = "VALID"
              /\ \E z \in Zsk : ks[z].s = "VALID"
  BY InitZsk
<1>2. g = IF ~HasValidKsk(i) THEN i
          ELSE [k \in Key |-> IF Gone(k) THEN set_trustanchor_state(i[k], "REMOVED")
                              ELSE i[k]]
  BY DEF remove_missing_trustanchors
<1>3. Ksk \subseteq Key /\ Zsk \subseteq Key /\ Ksk \cap Zsk = {}
  BY Constants DEF Key
<1> HIDE DEF i, g
<1>4. CASE ~HasValidKsk(i)
  <2>1. g = i
    BY <1>2, <1>4
  <2>2. Trusted(ks) \subseteq Trusted(g)
    BY <1>1, <2>1 DEF Trusted
  <2>3. \A z \in Zsk : g[z] = ks[z]
    BY <1>1, <1>3, <2>1
  <2> QED
    BY <1>1, <1>3, <2>1, <2>2, <2>3 DEF g
<1>5. CASE HasValidKsk(i)
  <2>1. ASSUME NEW k \in Key
        PROVE  /\ g[k] \in AnyKey
               /\ ~Gone(k) => g[k] = i[k]
               /\ Gone(k) => g[k].s = "REMOVED"
    <3>1. g[k] = IF Gone(k) THEN set_trustanchor_state(i[k], "REMOVED") ELSE i[k]
      BY <1>2, <1>5
    <3>2. i[k] \in AnyKey
      BY <1>1
    <3> HIDE DEF Gone
    <3> QED
      BY <3>1, <3>2, SetState DEF State
  <2>2. g = [k \in Key |-> g[k]]
    BY <1>2, <1>5
  <2>3. g \in [Key -> AnyKey]
    BY <2>1, <2>2
  <2>4. PICK k \in Ksk : i[k].s = "VALID"
    BY <1>5 DEF HasValidKsk
  <2>5. ~Gone(k)
    BY <1>3, <2>4
  <2>6. Trusted(g) # {}
    BY <1>3, <2>1, <2>4, <2>5 DEF Trusted
  <2>7. ASSUME NEW j \in Ksk
        PROVE  g[j] = i[j] \/ (i[j].s = "MISSING" /\ g[j].s = "REMOVED")
    BY <1>3, <2>1
  <2>8. ASSUME NEW j \in Ksk
        PROVE  \/ g[j] = ks[j]
               \/ ks[j].s = "MISSING" /\ g[j].s = "REMOVED"
               \/ /\ ks[j].s = "ADDPEND" /\ g[j].s = "VALID"
                  /\ \E z \in Zsk : ks[z].s = "VALID"
    BY <1>1, <1>3, <2>7
  <2>9. ASSUME NEW z \in Zsk
        PROVE  g[z] = ks[z] \/ g[z].s = "REMOVED"
    BY <1>1, <1>3, <2>1
  <2> QED
    BY <2>3, <2>6, <2>8, <2>9 DEF g
<1> QED
  BY <1>4, <1>5

LEMMA CleanupKeys ==
  ASSUME NEW ks \in [Key -> AnyKey]
  PROVE  LET n == autr_cleanup_keys(ks)
         IN  /\ n \in [Key -> KeyRecord]
             /\ \A k \in Key :
                  /\ ks[k].s \in {"START", "REMOVED"} => n[k].s = "NONE"
                  /\ ks[k].s \notin {"START", "REMOVED"} =>
                       n[k].s = ks[k].s /\ n[k].last_change = ks[k].last_change
                  /\ ks[k].s = "ADDPEND" => n[k] = ks[k]
<1> DEFINE n == autr_cleanup_keys(ks)
<1>1. Absent \in AnyKey /\ Absent.s = "NONE" /\ 0 \in 0 .. MaxCount
  BY Constants DEF Absent, AnyKey, State
<1>2. ASSUME NEW k \in Key
      PROVE  /\ n[k] \in KeyRecord
             /\ ks[k].s \in {"START", "REMOVED"} => n[k].s = "NONE"
             /\ ks[k].s \notin {"START", "REMOVED"} =>
                  n[k].s = ks[k].s /\ n[k].last_change = ks[k].last_change
             /\ ks[k].s = "ADDPEND" => n[k] = ks[k]
  <2>1. n[k] = IF ks[k].s \in {"START", "REMOVED"} THEN Absent
               ELSE IF ks[k].s # "ADDPEND" THEN [ks[k] EXCEPT !.count = 0]
               ELSE ks[k]
    BY DEF autr_cleanup_keys
  <2>2. ks[k] \in AnyKey
    OBVIOUS
  <2>3. /\ [ks[k] EXCEPT !.count = 0] \in AnyKey
        /\ [ks[k] EXCEPT !.count = 0].s = ks[k].s
        /\ [ks[k] EXCEPT !.count = 0].last_change = ks[k].last_change
    BY <1>1, <2>2, SetCount
  <2> DEFINE j == [ks[k] EXCEPT !.count = 0]
  <2> HIDE DEF j, n
  <2> QED
    BY <1>1, <2>1, <2>2, <2>3, Zenon DEF KeyRecord, j
<1>3. n = [k \in Key |-> n[k]]
  BY DEF autr_cleanup_keys
<1> QED
  BY <1>2, <1>3

\* A verified response, from update_events to autr_cleanup_keys.
Updated(ks, t, r) ==
  autr_cleanup_keys(do_statetable(update_events(ks, t, r), Fetched(r)))

UpdatedList(ks, t, r, n) ==
  /\ n \in KeyList
  /\ Trusted(ks) # {} => Trusted(n) # {} \/ JustRevoked(n)
  /\ \A k \in Key :
       ks[k].s = "REVOKED" /\ (k \in Fetched(r) \/ ks[k].last_change = now)
         => n[k].s = "REVOKED" /\ n[k].last_change = now
  /\ \A k \in Fetched(r) :
       /\ ks[k].s = "NONE" /\ k \in t.ds => n[k].s = "VALID"
       /\ ks[k].s = "VALID" /\ ~ks[k].revoked => n[k].s = "VALID"
       /\ ks[k].s \in {"NONE", "ADDPEND", "VALID"} => n[k].s # "NONE"
  /\ \A k \in Ksk : n[k].s = "ADDPEND" =>
       /\ k \in Fetched(r)
       /\ \/ /\ ks[k].s = "NONE" /\ n[k].last_change = now
             /\ n[k].count = Count(0)
          \/ /\ ks[k].s = "ADDPEND"
             /\ n[k].last_change = ks[k].last_change
             /\ n[k].count = Count(ks[k].count)
  /\ \A k \in Ksk :
       /\ ks[k].s = "ADDPEND" /\ n[k].s \in {"VALID", "MISSING"}
       /\ \A z \in Zsk : ks[z].s # "VALID"
       => /\ check_holddown(ks[k], add_holddown)
          /\ k \in Fetched(r) /\ Count(ks[k].count) >= MIN_PENDINGCOUNT

LEMMA UpdatedKeys ==
  ASSUME NEW ks \in KeyList, NEW t \in Rrsets, NEW r \in Response, now \in Time
  PROVE  UpdatedList(ks, t, r, Updated(ks, t, r))
<1> DEFINE u == update_events(ks, t, r)
           m == [k \in Key |-> IF k \in Ksk
                               THEN anchor_state_update(u[k], k \in Fetched(r))
                               ELSE u[k]]
           g == remove_missing_trustanchors(m)
           n == Updated(ks, t, r)
<1>0. Ksk \subseteq Key /\ Zsk \subseteq Key /\ Ksk \cap Zsk = {} /\ Fetched(r) \subseteq Ksk
      /\ Key = Ksk \cup Zsk
  BY Constants DEF Key, Fetched
<1>1. n = autr_cleanup_keys(g)
  BY DEF Updated, do_statetable
<1>2. /\ u \in [Key -> AnyKey]
      /\ \A k \in Key : k \notin Fetched(r) => u[k] = ks[k]
      /\ \A k \in Fetched(r) :
           /\ ks[k].s # "NONE" =>
                /\ u[k].s = ks[k].s /\ u[k].revoked = ks[k].revoked
                /\ u[k].last_change = ks[k].last_change
                /\ u[k].count = Count(ks[k].count)
           /\ ks[k].s = "NONE" =>
                /\ u[k].s = IF k \in t.ds THEN "VALID" ELSE "START"
                /\ u[k].revoked = FALSE /\ u[k].count = Count(0)
  <2>1. EventsList(ks, t, r, u)
    BY UpdateEvents
  <2> QED
    BY <2>1 DEF EventsList
<1> HIDE DEF u, g, n
<1>3. ASSUME NEW k \in Ksk
      PROVE  /\ u[k] \in AnyKey /\ u[k].s \in State /\ k \in Key
             /\ k \in Fetched(r) => StateTable(u[k], TRUE, m[k])
             /\ k \notin Fetched(r) => StateTable(u[k], FALSE, m[k])
  <2>1. u[k] \in AnyKey /\ u[k].s \in State /\ k \in Key
    BY <1>0, <1>2 DEF AnyKey
  <2>2. m[k] = anchor_state_update(u[k], k \in Fetched(r))
    BY <1>0
  <2>3. StateTable(u[k], TRUE, anchor_state_update(u[k], TRUE))
    BY <2>1, StateUpdate, Zenon
  <2>4. StateTable(u[k], FALSE, anchor_state_update(u[k], FALSE))
    BY <2>1, StateUpdate, Zenon
  <2>5. CASE k \in Fetched(r)
    <3>1. (k \in Fetched(r)) = TRUE
      BY <2>5
    <3> QED
      BY <2>1, <2>2, <2>3, <2>5, <3>1, Zenon
  <2>6. CASE k \notin Fetched(r)
    <3>1. (k \in Fetched(r)) = FALSE
      BY <2>6
    <3> QED
      BY <2>1, <2>2, <2>4, <2>6, <3>1, Zenon
  <2> QED
    BY <2>5, <2>6
<1>3a. ASSUME NEW k \in Ksk
       PROVE  /\ u[k].s \in {"VALID", "MISSING"} =>
                   \/ m[k].s \in {"VALID", "MISSING"}
                   \/ m[k].s = "REVOKED" /\ m[k].last_change = now
              /\ u[k].s = "REVOKED" =>
                   IF k \in Fetched(r) \/ u[k].last_change = now
                   THEN m[k].s = "REVOKED" /\ m[k].last_change = now
                   ELSE m[k].s \in {"REVOKED", "REMOVED"}
              /\ m[k].s = "ADDPEND" =>
                   \/ u[k].s = "START" /\ k \in Fetched(r)
                      /\ m[k].last_change = now /\ m[k].count = u[k].count
                   \/ u[k].s = "ADDPEND" /\ k \in Fetched(r) /\ m[k] = u[k]
  <2>1. u[k].s \in State
    BY <1>3
  <2> HIDE DEF m
  <2>2. CASE k \in Fetched(r)
    <3>1. StateTable(u[k], TRUE, m[k])
      BY <1>3, <2>2
    <3> QED
      BY <2>1, <2>2, <3>1 DEF State, StateTable
  <2>3. CASE k \notin Fetched(r)
    <3>1. StateTable(u[k], FALSE, m[k])
      BY <1>3, <2>3
    <3> QED
      BY <2>1, <2>3, <3>1 DEF State, StateTable
  <2> QED
    BY <2>2, <2>3
<1>4. \A z \in Zsk : m[z] = ks[z]
  BY <1>0, <1>2
<1>5. ASSUME NEW k \in Ksk
      PROVE  m[k] \in AnyKey
  <2>1. StateTable(u[k], TRUE, m[k]) \/ StateTable(u[k], FALSE, m[k])
    BY <1>3
  <2> QED
    BY <2>1 DEF StateTable
<1>6. m \in [Key -> AnyKey]
  BY <1>0, <1>2, <1>5
<1> HIDE DEF m
<1>7. /\ g \in [Key -> AnyKey]
      /\ Trusted(m) # {} => Trusted(g) # {}
      /\ \A k \in Ksk :
           \/ g[k] = m[k]
           \/ m[k].s = "MISSING" /\ g[k].s = "REMOVED"
           \/ /\ m[k].s = "ADDPEND" /\ g[k].s = "VALID"
              /\ \E z \in Zsk : m[z].s = "VALID"
      /\ \A z \in Zsk : g[z] = m[z] \/ g[z].s = "REMOVED"
  BY <1>6, RemoveMissing DEF g
<1>8. /\ n \in [Key -> KeyRecord]
      /\ \A k \in Key :
           /\ g[k].s \in {"START", "REMOVED"} => n[k].s = "NONE"
           /\ g[k].s \notin {"START", "REMOVED"} =>
                n[k].s = g[k].s /\ n[k].last_change = g[k].last_change
           /\ g[k].s = "ADDPEND" => n[k] = g[k]
  BY <1>1, <1>7, CleanupKeys
<1>9. \A k \in Key : ks[k] \in AnyKey /\ ks[k].s \in State \ {"START", "REMOVED"}
                     /\ ks[k].revoked \in BOOLEAN
  BY DEF KeyList, KeyRecord, AnyKey
<1>10. n \in KeyList
  <2>1. ASSUME NEW z \in Zsk
        PROVE  n[z].s \in {"NONE", "VALID"}
    BY <1>0, <1>4, <1>7, <1>8 DEF KeyList
  <2> QED
    BY <1>8, <2>1 DEF KeyList
<1>11. \A k \in Ksk : m[k].s = "REVOKED" =>
         n[k].s = "REVOKED" /\ n[k].last_change = m[k].last_change
  BY <1>0, <1>7, <1>8
<1>12. \A k \in Ksk : m[k].s = "VALID" => n[k].s = "VALID"
  BY <1>0, <1>7, <1>8
<1>13. Trusted(ks) # {} => Trusted(n) # {} \/ JustRevoked(n)
  <2> SUFFICES ASSUME NEW k \in Key, ks[k].s \in {"VALID", "MISSING"}
               PROVE  Trusted(n) # {} \/ JustRevoked(n)
    BY DEF Trusted
  <2>1. Trusted(g) = Trusted(n)
    BY <1>8 DEF Trusted
  <2>2. CASE k \in Zsk
    <3>1. k \in Trusted(m)
      BY <1>4, <2>2 DEF Trusted
    <3> QED
      BY <1>7, <2>1, <3>1
  <2>3. CASE k \in Ksk
    <3>1. u[k] \in AnyKey /\ u[k].s \in {"VALID", "MISSING"}
      BY <1>2
    <3>2. m[k].s \in {"VALID", "MISSING"} \/ (m[k].s = "REVOKED" /\ m[k].last_change = now)
      BY <1>3a, <2>3, <3>1
    <3>3. CASE m[k].s \in {"VALID", "MISSING"}
      BY <1>7, <2>1, <3>3 DEF Trusted
    <3>4. CASE m[k].s = "REVOKED" /\ m[k].last_change = now
      BY <1>11, <2>3, <3>4 DEF JustRevoked
    <3> QED
      BY <3>2, <3>3, <3>4
  <2> QED
    BY <1>0, <2>2, <2>3
<1>14. ASSUME NEW k \in Key, ks[k].s = "REVOKED",
              k \in Fetched(r) \/ ks[k].last_change = now
       PROVE  n[k].s = "REVOKED" /\ n[k].last_change = now
  <2>1. k \in Ksk
    BY <1>0, <1>14 DEF KeyList
  <2>2. u[k] \in AnyKey /\ u[k].s = "REVOKED" /\ u[k].last_change = ks[k].last_change
    BY <1>2, <1>14
  <2>3. m[k].s = "REVOKED" /\ m[k].last_change = now
    BY <1>3a, <1>14, <2>1, <2>2
  <2> QED
    BY <1>11, <2>1, <2>3
<1>15. ASSUME NEW k \in Fetched(r)
       PROVE  /\ ks[k].s = "NONE" /\ k \in t.ds => n[k].s = "VALID"
              /\ ks[k].s = "VALID" /\ ~ks[k].revoked => n[k].s = "VALID"
              /\ ks[k].s \in {"NONE", "ADDPEND", "VALID"} => n[k].s # "NONE"
  <2>1. /\ k \in Ksk /\ k \in Key /\ u[k] \in AnyKey
        /\ StateTable(u[k], TRUE, m[k])
    BY <1>0, <1>3, Zenon
  <2>2. u[k].s = "VALID" /\ ~u[k].revoked => m[k].s = "VALID"
    BY <2>1 DEF StateTable
  <2>3. u[k].s = "START" => m[k].s = "ADDPEND"
    BY <2>1 DEF StateTable
  <2>4. u[k].s = "ADDPEND" => m[k].s \in {"ADDPEND", "VALID"}
    BY <2>1 DEF StateTable
  <2>5. u[k].s = "VALID" => m[k].s \in {"REVOKED", "VALID"}
    BY <2>1 DEF StateTable
  <2>6. m[k].s \in {"ADDPEND", "VALID", "REVOKED"} => n[k].s # "NONE"
    BY <1>7, <1>8, <2>1, Zenon
  <2> QED
    BY <1>2, <1>12, <2>1, <2>2, <2>3, <2>4, <2>5, <2>6, Zenon
<1>16. ASSUME NEW k \in Ksk, n[k].s = "ADDPEND"
       PROVE  /\ k \in Fetched(r)
              /\ \/ /\ ks[k].s = "NONE" /\ n[k].last_change = now
                    /\ n[k].count = Count(0)
                 \/ /\ ks[k].s = "ADDPEND"
                    /\ n[k].last_change = ks[k].last_change
                    /\ n[k].count = Count(ks[k].count)
  <2>1. k \in Key /\ u[k] \in AnyKey /\ u[k].s \in State
    BY <1>0, <1>2 DEF AnyKey
  <2>2. n[k] = m[k] /\ m[k].s = "ADDPEND"
    BY <1>7, <1>8, <1>16, <2>1
  <2>3. /\ k \in Fetched(r)
        /\ \/ u[k].s = "START" /\ m[k].last_change = now /\ m[k].count = u[k].count
           \/ u[k].s = "ADDPEND" /\ m[k] = u[k]
    BY <1>3a, <1>9, <2>1, <2>2, <1>2
  <2> QED
    BY <1>2, <1>9, <2>1, <2>2, <2>3
<1>17. ASSUME NEW k \in Ksk, ks[k].s = "ADDPEND", n[k].s \in {"VALID", "MISSING"},
              \A z \in Zsk : ks[z].s # "VALID"
       PROVE  /\ check_holddown(ks[k], add_holddown)
              /\ k \in Fetched(r) /\ Count(ks[k].count) >= MIN_PENDINGCOUNT
  <2>1. k \in Key /\ u[k] \in AnyKey /\ u[k].s = "ADDPEND"
        /\ u[k].last_change = ks[k].last_change
    BY <1>0, <1>2, <1>17
  <2>2. m[k] = g[k] /\ m[k].s \in {"VALID", "MISSING"}
    BY <1>4, <1>7, <1>8, <1>17, <2>1
  <2>3. k \in Fetched(r) /\ Passed(u[k])
    BY <1>3, <2>1, <2>2 DEF StateTable
  <2> QED
    BY <1>2, <1>17, <2>1, <2>3 DEF Passed, check_holddown
<1>18. UpdatedList(ks, t, r, n)
  BY <1>10, <1>13, <1>14, <1>15, <1>16, <1>17 DEF UpdatedList
<1> QED
  BY <1>18 DEF n

\* What a response makes of the list, of the rrsets, and of the list once it is
\* verified.
Checked(r) == check_contains_revoked(autr_holddown_exceed(keys), r)

Rrs(r) == IF Checked(r) # keys THEN autr_assemble(Checked(r), ds) ELSE trust

NewKeys(r) == Updated(Checked(r), Rrs(r), r)

-----------------------------------------------------------------------------
(* The initial states, and the actions. *)

\* What autr_write_file stores: the keys with their states.
LEMMA WrittenFile ==
  ASSUME NEW ks \in KeyList, NEW t \in PointRecord, run \in [Ksk -> RunRecord]
  PROVE  LET f == Written(ks, t)
         IN  /\ f \in FileRecord
             /\ f.ds = {} /\ f.run = run /\ f.revoked = t.revoked
             /\ f.success = t.success
             /\ \A k \in Key : /\ f.keys[k].s = ks[k].s
                               /\ f.keys[k].last_change = ks[k].last_change
                               /\ f.keys[k].count = ks[k].count
<1> DEFINE f == Written(ks, t)
           New(k) == IF ks[k].s \in {"START", "REMOVED"} THEN Absent
                     ELSE [ks[k] EXCEPT !.revoked = FALSE]
           l == [k \in Key |-> New(k)]
<1>1. f = [revoked |-> t.revoked, success |-> t.success, ds |-> {}, run |-> run,
           next |-> t.next_probe_time, keys |-> l]
  BY DEF Written
<1>2. ASSUME NEW k \in Key
      PROVE  /\ New(k) \in KeyRecord /\ New(k).s = ks[k].s
             /\ New(k).last_change = ks[k].last_change
             /\ New(k).count = ks[k].count
  <2>1. ks[k] \in AnyKey /\ ks[k].s \notin {"START", "REMOVED"}
    BY DEF KeyList, KeyRecord
  <2>2. New(k) = [ks[k] EXCEPT !.revoked = FALSE]
    BY <2>1
  <2> HIDE DEF New
  <2> QED
    BY <2>1, <2>2, SetRevoked, Zenon DEF KeyRecord
<1> HIDE DEF New
<1>3. l \in KeyList
  BY <1>2 DEF KeyList, Key
<1>4. \A k \in Key : l[k] = New(k)
  OBVIOUS
<1> HIDE DEF l, f
<1>5. f \in FileRecord
  BY <1>1, <1>3 DEF FileRecord, PointRecord
<1>6. f.keys = l /\ f.ds = {} /\ f.run = run /\ f.revoked = t.revoked
      /\ f.success = t.success
  BY <1>1
<1> QED
  BY <1>2, <1>4, <1>5, <1>6 DEF f

LEMMA FileWritten ==
  ASSUME NEW ks \in KeyList, NEW t \in PointRecord, run \in [Ksk -> RunRecord],
         RunOf(ks, run), Trusted(ks) = {} => OneRevoked(ks)
  PROVE  LET f == Written(ks, t)
         IN  /\ RunOf(f.keys, f.run)
             /\ Trusted(f.keys) = {} /\ f.ds = {} => OneRevoked(f.keys)
             /\ FirstUse(f.keys, f.ds)
             /\ f.success => f.ds = {}
<1> DEFINE f == Written(ks, t)
<1>1. /\ f.ds = {} /\ f.run = run
      /\ \A k \in Key : /\ f.keys[k].s = ks[k].s
                        /\ f.keys[k].last_change = ks[k].last_change
                        /\ f.keys[k].count = ks[k].count
  BY WrittenFile
<1> HIDE DEF f
<1>2. RunOf(f.keys, f.run)
  BY <1>1 DEF RunOf, Key
<1>3. Trusted(f.keys) = Trusted(ks) /\ (OneRevoked(ks) => OneRevoked(f.keys))
  BY <1>1 DEF Trusted, OneRevoked
<1> QED
  BY <1>1, <1>2, <1>3 DEF FirstUse, f

LEMMA NoLocRecord == NoLoc \in LocRecord
BY Constants DEF NoLoc, LocRecord, ProbeTime

LEMMA InitInv == Init => IInv
<1> SUFFICES ASSUME Init PROVE IInv
  OBVIOUS
<1>1. PICK valid \in SUBSET Key, d \in SUBSET Ksk :
        LET f == FromOperator(valid, d)
        IN  /\ valid # {} \/ d # {}
            /\ file = f
            /\ keys = f.keys /\ ds = f.ds /\ trust = autr_assemble(f.keys, f.ds)
            /\ tp = [success |-> FALSE, revoked |-> FALSE, deleted |-> FALSE,
                     next_probe_time |-> 0]
            /\ tree = TRUE /\ probe = TRUE
            /\ run = f.run
            /\ now = 1
            /\ tplock = None
            /\ pc = [w \in Worker |-> "idle"] /\ loc = [w \in Worker |-> NoLoc]
  BY DEF Init
<1> DEFINE New(k) == IF k \in valid THEN [Absent EXCEPT !.s = "VALID"] ELSE Absent
           l == [k \in Key |-> New(k)]
           f == FromOperator(valid, d)
<1>2. f = [revoked |-> FALSE, success |-> FALSE, next |-> 0, ds |-> d,
           run |-> [k \in Ksk |-> NoRun], keys |-> l]
  BY DEF FromOperator
<1>3. ASSUME NEW k \in Key
      PROVE  /\ New(k) \in KeyRecord /\ New(k).revoked = FALSE
             /\ New(k).s = IF k \in valid THEN "VALID" ELSE "NONE"
  <2>1. /\ Absent \in AnyKey /\ Absent.s = "NONE" /\ Absent.revoked = FALSE
        /\ "VALID" \in State
    BY Constants DEF Absent, AnyKey, State
  <2>2. \A j \in AnyKey : \A s \in State :
          /\ [j EXCEPT !.s = s] \in AnyKey /\ [j EXCEPT !.s = s].s = s
          /\ [j EXCEPT !.s = s].revoked = j.revoked
    BY DEF AnyKey
  <2> DEFINE v == [Absent EXCEPT !.s = "VALID"]
  <2>3. v \in AnyKey /\ v.s = "VALID" /\ v.revoked = FALSE
    BY <2>1, <2>2
  <2>4. New(k) = IF k \in valid THEN v ELSE Absent
    OBVIOUS
  <2> HIDE DEF v, New
  <2> QED
    BY <2>1, <2>3, <2>4 DEF KeyRecord
<1> HIDE DEF New
<1>4. l \in KeyList /\ \A k \in Key : l[k] = New(k)
  BY <1>3 DEF KeyList, Key
<1> HIDE DEF l
<1>5. valid # {} \/ d # {}
  BY <1>1
<1> HIDE DEF f
<1>6. /\ file = f /\ keys = l /\ ds = d /\ trust = autr_assemble(l, d)
      /\ run = [k \in Ksk |-> NoRun] /\ file.run = run /\ file.keys = l
      /\ file.ds = d /\ file.success = FALSE
  BY <1>1, <1>2 DEF f
<1>7. NoRun \in RunRecord /\ NoRun.n = 0 /\ 0 \in ProbeTime /\ now \in Time
  BY <1>1, Constants DEF NoRun, RunRecord, ProbeTime, Time
<1>8. file \in FileRecord
  BY <1>2, <1>4, <1>6, <1>7 DEF FileRecord
<1>9. tp \in PointRecord /\ tp.success = FALSE /\ tp.revoked = FALSE
  BY <1>1, <1>7 DEF PointRecord
<1>10. trust \in Rrsets
  BY <1>6 DEF autr_assemble, Rrsets, Key
<1>11. Types
  <2>1. pc \in [Worker -> PC] /\ loc \in [Worker -> LocRecord]
    <3>1. "idle" \in PC
      BY DEF PC
    <3>2. pc = [w \in Worker |-> "idle"] /\ loc = [w \in Worker |-> NoLoc]
      BY <1>1
    <3> QED
      BY <3>1, <3>2, NoLocRecord
  <2>2. run \in [Ksk -> RunRecord] /\ keys \in KeyList /\ ds \in SUBSET Ksk
    BY <1>1, <1>4, <1>6, <1>7
  <2>3. tplock \in Worker \cup {None} /\ tree \in BOOLEAN /\ probe \in BOOLEAN
    BY <1>1
  <2> QED
    BY <1>7, <1>8, <1>9, <1>10, <2>1, <2>2, <2>3 DEF Types
<1>12. \A w \in Worker : pc[w] = "idle"
  BY <1>1
<1>13. Locked
  BY <1>1, <1>12, Constants DEF Locked
<1>14. Trusted(l) = {} => d # {}
  BY <1>3, <1>4, <1>5, Zenon DEF Trusted
<1>15. RunOf(l, run)
  BY <1>3, <1>4, <1>6, <1>7, Zenon DEF RunOf, Key
<1>16. FirstUse(l, d)
  BY <1>3, <1>4, Zenon DEF FirstUse
<1>17. Assembled
  BY <1>6 DEF Assembled
<1>18. Pending /\ Stale /\ Lost
  BY <1>6, <1>14, <1>17 DEF Pending, Stale, Lost
<1>19. Removed /\ Anchors /\ Saved
  BY <1>1, <1>6, <1>9, <1>12, <1>16 DEF Removed, Anchors, Saved, Scheduling
<1>20. FileInv
  BY <1>6, <1>14, <1>15, <1>16 DEF FileInv
<1> QED
  BY <1>6, <1>11, <1>13, <1>15, <1>18, <1>19, <1>20 DEF IInv

-----------------------------------------------------------------------------
(* What the steps keep that leave parts of the state alone. *)

\* Who holds tp->lock has it from the step that takes it to the one that lets go.
LEMMA LockKept ==
  ASSUME Types, Locked, NEW w \in Worker, NEW l \in PC,
         pc' = [pc EXCEPT ![w] = l],
         \/ /\ tplock = None /\ tplock' = w /\ l \in {"found", "probe"}
         \/ /\ pc[w] \in {"found", "probe"} /\ tplock' = None
            /\ l \notin {"found", "probe"}
         \/ /\ pc[w] \notin {"found", "probe"} /\ tplock' = tplock
            /\ l \notin {"found", "probe"}
  PROVE  Locked' /\ pc' \in [Worker -> PC] /\ tplock' \in Worker \cup {None}
<1>1. pc \in [Worker -> PC] /\ tplock \in Worker \cup {None}
  BY DEF Types
<1>2. pc' \in [Worker -> PC] /\ tplock' \in Worker \cup {None}
  BY <1>1
<1>3. pc'[w] = l /\ \A v \in Worker : v # w => pc'[v] = pc[v]
  BY <1>1
<1>4. None \notin Worker
  BY Constants
<1>5. Locked'
  <2> SUFFICES ASSUME NEW v \in Worker
               PROVE  pc'[v] \in {"found", "probe"} <=> tplock' = v
    BY DEF Locked
  <2>1. pc[v] \in {"found", "probe"} <=> tplock = v
    BY DEF Locked
  <2>2. pc[w] \in {"found", "probe"} <=> tplock = w
    BY DEF Locked
  <2>3. CASE v = w
    BY <1>3, <1>4, <2>2, <2>3
  <2>4. CASE v # w
    BY <1>3, <1>4, <2>1, <2>2, <2>4
  <2> QED
    BY <2>3, <2>4
<1> QED
  BY <1>2, <1>5

\* The list, the rrsets and the clock are left alone.
LEMMA ListKept ==
  ASSUME Lost, Stale, UNCHANGED <<keys, ds, trust, now>>
  PROVE  /\ Lost' /\ Stale' /\ (Assembled' <=> Assembled)
         /\ Trusted(keys)' = Trusted(keys)
<1>1. Assembled' <=> Assembled
  BY DEF Assembled, autr_assemble
<1>2. Trusted(keys)' = Trusted(keys)
  BY DEF Trusted
<1>3. (OneRevoked(keys)' <=> OneRevoked(keys)) /\ (JustRevoked(keys)' <=> JustRevoked(keys))
  BY DEF OneRevoked, JustRevoked
<1>4. Lost'
  BY <1>1, <1>2, <1>3 DEF Lost
<1>5. NoAnchors(trust)' <=> NoAnchors(trust)
  BY DEF NoAnchors
<1>6. Stale'
  BY <1>1, <1>5 DEF Stale
<1> QED
  BY <1>1, <1>2, <1>4, <1>6

LEMMA FileKept ==
  ASSUME FileInv, UNCHANGED file
  PROVE  FileInv'
BY DEF FileInv, RunOf, Trusted, OneRevoked, FirstUse

\* A file that is written or read.
LEMMA NewFile ==
  ASSUME RunOf(file'.keys, file'.run),
         Trusted(file'.keys) = {} /\ file'.ds = {} => OneRevoked(file'.keys),
         FirstUse(file'.keys, file'.ds),
         file'.success => file'.ds = {}
  PROVE  FileInv'
BY DEF FileInv, RunOf, Trusted, OneRevoked, FirstUse

LEMMA NextProbe ==
  ASSUME NEW t \in PointRecord, now \in Time
  PROVE  /\ set_next_probe(t) \in PointRecord
         /\ set_next_probe(t).success = t.success
         /\ set_next_probe(t).revoked = t.revoked
<1>1. now + Interval \in ProbeTime
  BY Constants DEF Time, ProbeTime
<1> QED
  BY <1>1 DEF PointRecord, set_next_probe

LEMMA AnchorsKept ==
  ASSUME Anchors, RunOf(keys, run), UNCHANGED <<keys, ds, run>>,
         tp'.success = tp.success
  PROVE  Anchors' /\ RunOf(keys, run)'
<1>1. Anchors'
  BY DEF Anchors, FirstUse
<1>2. RunOf(keys, run)'
  BY DEF RunOf
<1> QED
  BY <1>1, <1>2

\* The workers that are going to schedule stay where they are.
LEMMA PendingKept ==
  ASSUME Pending, Assembled' <=> Assembled, tree' => tree,
         \A v \in Worker : pc[v] = "schedule" =>
           pc'[v] = "schedule" /\ loc'[v] = loc[v]
  PROVE  Pending'
<1> SUFFICES ASSUME tree', ~Assembled'
             PROVE  \E v \in Worker : pc'[v] = "schedule" /\ loc'[v].changed
  BY DEF Pending
<1>1. PICK v \in Worker : pc[v] = "schedule" /\ loc[v].changed
  BY DEF Pending
<1> QED
  BY <1>1

LEMMA SavedKept ==
  ASSUME Saved, UNCHANGED <<keys, file>>, tp'.success = tp.success,
         tp'.revoked = tp.revoked, tree' => tree,
         \A v \in Worker : pc[v] = "schedule" => pc'[v] = "schedule"
  PROVE  Saved'
<1>1. RevokedInFile' <=> RevokedInFile
  BY DEF RevokedInFile
<1>2. Scheduling => Scheduling'
  BY DEF Scheduling
<1> QED
  BY <1>1, <1>2 DEF Saved

LEMMA RemovedKept ==
  ASSUME Removed, Trusted(keys)' = Trusted(keys), Assembled' <=> Assembled,
         tp'.success = tp.success, tp'.revoked = tp.revoked,
         tree' \/ tp.revoked \/ (~tree /\ (AllIdle => AllIdle') /\ probe' = probe),
         \A v \in Worker : pc'[v] = "schedule" => pc[v] = "schedule",
         \A v \in Worker : pc'[v] \in {"remove", "delete"} =>
           tp.revoked \/ pc[v] \in {"remove", "delete"}
  PROVE  Removed'
<1>1. Scheduling' => Scheduling
  BY DEF Scheduling
<1>2. /\ tp'.revoked => tp'.success /\ Trusted(keys)' = {} /\ Assembled'
      /\ Scheduling' => tp'.success
  BY <1>1 DEF Removed
<1>3. ~tree' /\ ~tp'.revoked => AllIdle' /\ ~probe' /\ Assembled'
  BY DEF Removed
<1>4. \A v \in Worker : pc'[v] \in {"remove", "delete"} => tp'.revoked
  BY DEF Removed
<1> QED
  BY <1>2, <1>3, <1>4 DEF Removed

\* A step of a worker that changes where it is, and nothing of the list.
LEMMA MoveKept ==
  ASSUME IInv, NEW w \in Worker, NEW l \in PC, pc' = [pc EXCEPT ![w] = l],
         pc[w] # "schedule" \/ tp.revoked, l # "schedule",
         l \in {"remove", "delete"} => tp.revoked,
         UNCHANGED <<keys, ds, trust, run, now>>,
         tp'.success = tp.success, tp'.revoked = tp.revoked,
         tree' => tree, tree \/ tp.revoked, tree' \/ tp.revoked,
         \A v \in Worker : v # w => loc'[v] = loc[v],
         loc'[w] = loc[w] \/ tp.revoked
  PROVE  /\ Pending' /\ Lost' /\ Stale' /\ Removed' /\ Anchors' /\ RunOf(keys, run)'
         /\ UNCHANGED file => Saved' /\ FileInv'
<1>0. /\ pc \in [Worker -> PC] /\ Pending /\ Lost /\ Stale /\ Removed /\ Anchors
      /\ Saved /\ RunOf(keys, run) /\ FileInv
  BY DEF IInv, Types
<1>1. pc'[w] = l /\ \A v \in Worker : v # w => pc'[v] = pc[v]
  BY <1>0
<1>2. /\ Lost' /\ Stale' /\ (Assembled' <=> Assembled)
      /\ Trusted(keys)' = Trusted(keys)
  BY <1>0, ListKept
<1>3. tp.revoked => Assembled
  BY <1>0 DEF Removed
<1>4. Pending'
  <2>1. CASE tp.revoked
    BY <1>2, <1>3, <2>1 DEF Pending
  <2>2. CASE ~tp.revoked
    <3>1. \A v \in Worker : pc[v] = "schedule" => pc'[v] = "schedule" /\ loc'[v] = loc[v]
      BY <1>1, <2>2
    <3> QED
      BY <1>0, <1>2, <3>1, PendingKept
  <2> QED
    BY <2>1, <2>2
<1>5. Removed'
  <2>1. \A v \in Worker : pc'[v] = "schedule" => pc[v] = "schedule"
    BY <1>1
  <2>2. \A v \in Worker : pc'[v] \in {"remove", "delete"} =>
          tp.revoked \/ pc[v] \in {"remove", "delete"}
    BY <1>1
  <2> QED
    BY <1>0, <1>2, <2>1, <2>2, RemovedKept
<1>6. Anchors' /\ RunOf(keys, run)'
  BY <1>0, AnchorsKept
<1>7. UNCHANGED file => Saved'
  <2>1. CASE tp.revoked
    BY <2>1 DEF Saved
  <2>2. CASE ~tp.revoked
    <3>1. \A v \in Worker : pc[v] = "schedule" => pc'[v] = "schedule"
      BY <1>1, <2>2
    <3> QED
      BY <1>0, <3>1, SavedKept
  <2> QED
    BY <2>1, <2>2
<1>8. UNCHANGED file => FileInv'
  BY <1>0, FileKept
<1> QED
  BY <1>2, <1>4, <1>5, <1>6, <1>7, <1>8

-----------------------------------------------------------------------------
(* The steps that leave the list alone. *)

\* What a worker at the lock, or about to remove the trust point, knows of it.
LEMMA InTree ==
  ASSUME IInv, NEW w \in Worker, pc[w] # "idle"
  PROVE  /\ tree \/ tp.revoked
         /\ pc[w] \in {"remove", "delete"} => tp.revoked
BY DEF IInv, Removed, AllIdle

LEMMA FindInv ==
  ASSUME IInv, NEW w \in Worker, anchor_find(w)
  PROVE  IInv'
<1>1. /\ pc[w] = "idle" /\ tree /\ tplock = None /\ tplock' = w
      /\ pc' = [pc EXCEPT ![w] = "found"]
      /\ UNCHANGED <<keys, ds, trust, tp, run, tree, probe, file, now, loc>>
  BY DEF anchor_find, Goto, point
<1> DEFINE l == "found"
<1>2. l \in PC /\ l \in {"found", "probe"} /\ l \notin {"schedule", "remove", "delete"}
  BY DEF PC
<1>3. pc' = [pc EXCEPT ![w] = l] /\ pc[w] # "schedule"
  BY <1>1
<1> HIDE DEF l
<1>4. Locked' /\ pc' \in [Worker -> PC] /\ tplock' \in Worker \cup {None}
  BY <1>1, <1>2, <1>3, LockKept, Zenon DEF IInv
<1>5. Types'
  BY <1>1, <1>4 DEF IInv, Types
<1>6. /\ Pending' /\ Lost' /\ Stale' /\ Removed' /\ Anchors' /\ RunOf(keys, run)'
      /\ Saved' /\ FileInv'
  BY <1>1, <1>2, <1>3, MoveKept, Zenon
<1> QED
  BY <1>4, <1>5, <1>6 DEF IInv

LEMMA ReturnInv ==
  ASSUME IInv, NEW w \in Worker, PrimeRevoked(w) \/ probe_anchor(w)
  PROVE  IInv'
<1>1. /\ pc[w] \in {"found", "probe"} /\ tplock' = None
      /\ pc' = [pc EXCEPT ![w] = "idle"]
      /\ UNCHANGED <<keys, ds, trust, tp, run, tree, probe, file, now, loc>>
  BY DEF PrimeRevoked, probe_anchor, Return, Goto, point
<1> DEFINE l == "idle"
<1>2. l \in PC /\ l \notin {"found", "probe", "schedule", "remove", "delete"}
  BY DEF PC
<1>3. pc' = [pc EXCEPT ![w] = l] /\ pc[w] # "schedule" /\ pc[w] # "idle"
  BY <1>1
<1> HIDE DEF l
<1>4. Locked' /\ pc' \in [Worker -> PC] /\ tplock' \in Worker \cup {None}
  BY <1>1, <1>2, <1>3, LockKept, Zenon DEF IInv
<1>5. Types'
  BY <1>1, <1>4 DEF IInv, Types
<1>6. tree \/ tp.revoked
  BY <1>3, InTree
<1>7. /\ Pending' /\ Lost' /\ Stale' /\ Removed' /\ Anchors' /\ RunOf(keys, run)'
      /\ Saved' /\ FileInv'
  BY <1>1, <1>2, <1>3, <1>6, MoveKept, Zenon
<1> QED
  BY <1>4, <1>5, <1>7 DEF IInv

LEMMA ProbeInv ==
  ASSUME IInv, NEW w \in Worker, todo_probe(w)
  PROVE  IInv'
<1>1. /\ pc[w] = "idle" /\ probe /\ tplock = None /\ tplock' = w
      /\ tp' = set_next_probe(tp) /\ pc' = [pc EXCEPT ![w] = "probe"]
      /\ UNCHANGED <<keys, ds, trust, run, tree, probe, file, now, loc>>
  BY DEF todo_probe, Goto
<1> DEFINE l == "probe"
<1>2. l \in PC /\ l \in {"found", "probe"} /\ l \notin {"schedule", "remove", "delete"}
  BY DEF PC
<1>3. pc' = [pc EXCEPT ![w] = l] /\ pc[w] # "schedule"
  BY <1>1
<1> HIDE DEF l
<1>4. Locked' /\ pc' \in [Worker -> PC] /\ tplock' \in Worker \cup {None}
  BY <1>1, <1>2, <1>3, LockKept, Zenon DEF IInv
<1>5. tp' \in PointRecord /\ tp'.success = tp.success /\ tp'.revoked = tp.revoked
  BY <1>1, NextProbe DEF IInv, Types
<1>6. Types'
  BY <1>1, <1>4, <1>5 DEF IInv, Types
<1>7. tree \/ tp.revoked
  BY <1>1 DEF IInv, Removed
<1>8. /\ Pending' /\ Lost' /\ Stale' /\ Removed' /\ Anchors' /\ RunOf(keys, run)'
      /\ Saved' /\ FileInv'
  BY <1>1, <1>2, <1>3, <1>5, <1>7, MoveKept, Zenon
<1> QED
  BY <1>4, <1>6, <1>8 DEF IInv

\* set_next_probe finds that the trust point is deleted.
LEMMA DeletedInv ==
  ASSUME IInv, NEW w \in Worker, PrimeDeleted(w)
  PROVE  IInv'
<1>1. /\ pc[w] = "schedule" /\ ~tree /\ pc' = [pc EXCEPT ![w] = "idle"]
      /\ loc' = [loc EXCEPT ![w] = NoLoc]
      /\ UNCHANGED <<keys, ds, trust, tp, run, tree, probe, file, now, tplock>>
  BY DEF PrimeDeleted, Goto, Forget, point
<1> DEFINE l == "idle"
<1>2. l \in PC /\ l \notin {"found", "probe", "schedule", "remove", "delete"}
  BY DEF PC
<1>3. pc' = [pc EXCEPT ![w] = l] /\ pc[w] \notin {"found", "probe"} /\ pc[w] # "idle"
  BY <1>1
<1> HIDE DEF l
<1>4. Locked' /\ pc' \in [Worker -> PC] /\ tplock' \in Worker \cup {None}
  BY <1>1, <1>2, <1>3, LockKept, Zenon DEF IInv
<1>5. loc' \in [Worker -> LocRecord] /\ \A v \in Worker : v # w => loc'[v] = loc[v]
  BY <1>1, NoLocRecord DEF IInv, Types
<1>6. Types'
  BY <1>1, <1>4, <1>5 DEF IInv, Types
<1>7. tp.revoked
  BY <1>1, <1>3, InTree
<1>8. /\ tp'.success = tp.success /\ tp'.revoked = tp.revoked /\ tree' = tree
      /\ UNCHANGED <<keys, ds, trust, run, now>> /\ UNCHANGED file
  BY <1>1
<1>9. /\ Pending' /\ Lost' /\ Stale' /\ Removed' /\ Anchors' /\ RunOf(keys, run)'
      /\ Saved' /\ FileInv'
  BY <1>2, <1>3, <1>5, <1>7, <1>8, MoveKept, Zenon
<1> QED
  BY <1>4, <1>6, <1>9 DEF IInv

LEMMA RemoveInv ==
  ASSUME IInv, NEW w \in Worker, autr_tp_remove(w)
  PROVE  IInv'
<1> DEFINE l == IF tree THEN "delete" ELSE "idle"
<1>1. /\ pc[w] = "remove" /\ tree' = FALSE
      /\ probe' = (probe /\ loc[w].time # tp.next_probe_time)
      /\ pc' = [pc EXCEPT ![w] = l]
      /\ loc' = [loc EXCEPT ![w] = NoLoc]
      /\ UNCHANGED <<keys, ds, trust, tp, run, file, now, tplock>>
  BY DEF autr_tp_remove, Goto, Forget, point
<1>2. l \in PC /\ l \notin {"found", "probe", "schedule"}
  BY DEF PC
<1> HIDE DEF l
<1>3. pc[w] \notin {"found", "probe", "idle"}
  BY <1>1
<1>4. Locked' /\ pc' \in [Worker -> PC] /\ tplock' \in Worker \cup {None}
  BY <1>1, <1>2, <1>3, LockKept, Zenon DEF IInv
<1>5. loc' \in [Worker -> LocRecord] /\ \A v \in Worker : v # w => loc'[v] = loc[v]
  BY <1>1, NoLocRecord DEF IInv, Types
<1>6. probe' \in BOOLEAN /\ tree' \in BOOLEAN
  BY <1>1
<1>7. Types'
  BY <1>1, <1>4, <1>5, <1>6 DEF IInv, Types
<1>8. tp.revoked
  BY <1>1, <1>3, InTree
<1>9. /\ tp'.success = tp.success /\ tp'.revoked = tp.revoked /\ ~tree'
      /\ UNCHANGED <<keys, ds, trust, run, now>> /\ UNCHANGED file
  BY <1>1
<1>10. pc' = [pc EXCEPT ![w] = l]
  BY <1>1
<1>11. /\ Pending' /\ Lost' /\ Stale' /\ Removed' /\ Anchors' /\ RunOf(keys, run)'
       /\ Saved' /\ FileInv'
  BY <1>2, <1>5, <1>8, <1>9, <1>10, MoveKept, Zenon
<1> QED
  BY <1>4, <1>7, <1>11 DEF IInv

\* The keys of a trust point without DSes, as they are written.
LEMMA SaveInv ==
  ASSUME IInv, NEW t \in PointRecord, ds = {}, file' = Written(keys, t),
         UNCHANGED <<keys, run>>
  PROVE  /\ file' \in FileRecord
         /\ FileInv'
         /\ RevokedInFile'
<1>0. keys \in KeyList /\ run \in [Ksk -> RunRecord] /\ RunOf(keys, run)
  BY DEF IInv, Types
<1>1. Trusted(keys) = {} => OneRevoked(keys)
  BY DEF IInv, Lost
<1>2. /\ file' \in FileRecord
      /\ \A k \in Key : file'.keys[k].s = keys[k].s
  BY <1>0, WrittenFile
<1>3. /\ RunOf(file'.keys, file'.run)
      /\ Trusted(file'.keys) = {} /\ file'.ds = {} => OneRevoked(file'.keys)
      /\ FirstUse(file'.keys, file'.ds)
      /\ file'.success => file'.ds = {}
  BY <1>0, <1>1, FileWritten
<1>4. FileInv'
  BY <1>3, NewFile
<1>5. RevokedInFile'
  BY <1>2 DEF RevokedInFile
<1> QED
  BY <1>2, <1>4, <1>5

LEMMA DeleteInv ==
  ASSUME IInv, NEW w \in Worker, autr_point_delete(w)
  PROVE  IInv'
<1> DEFINE t == [tp EXCEPT !.next_probe_time = 0]
<1>1. /\ pc[w] = "delete" /\ file' = Written(keys, t)
      /\ tp' = [tp EXCEPT !.deleted = TRUE] /\ pc' = [pc EXCEPT ![w] = "idle"]
      /\ UNCHANGED <<keys, ds, trust, run, tree, probe, now, tplock, loc>>
  BY DEF autr_point_delete, Goto
<1>2. tp \in PointRecord
  BY DEF IInv, Types
<1>3. /\ t \in PointRecord
      /\ tp' \in PointRecord /\ tp'.success = tp.success /\ tp'.revoked = tp.revoked
  <2>1. 0 \in ProbeTime
    BY Constants DEF ProbeTime
  <2> QED
    BY <1>1, <1>2, <2>1 DEF PointRecord
<1> HIDE DEF t
<1> DEFINE l == "idle"
<1>4. l \in PC /\ l \notin {"found", "probe", "schedule", "remove", "delete"}
  BY DEF PC
<1>5. /\ pc' = [pc EXCEPT ![w] = l]
      /\ pc[w] \notin {"found", "probe", "idle", "schedule"}
  BY <1>1
<1> HIDE DEF l
<1>6. Locked' /\ pc' \in [Worker -> PC] /\ tplock' \in Worker \cup {None}
  BY <1>1, <1>4, <1>5, LockKept, Zenon DEF IInv
<1>7. tp.revoked
  BY <1>1, <1>5, InTree
<1>8. ds = {}
  BY <1>7 DEF IInv, Removed, Anchors
<1>9. file' \in FileRecord /\ FileInv'
  BY <1>1, <1>3, <1>8, SaveInv
<1>10. Types'
  BY <1>1, <1>3, <1>6, <1>9 DEF IInv, Types
<1>11. Pending' /\ Lost' /\ Stale' /\ Removed' /\ Anchors' /\ RunOf(keys, run)'
  BY <1>1, <1>3, <1>4, <1>5, <1>7, MoveKept, Zenon
<1>12. Saved'
  BY <1>3, <1>7 DEF Saved
<1> QED
  BY <1>6, <1>9, <1>10, <1>11, <1>12 DEF IInv
-----------------------------------------------------------------------------
(* A restart, and the clock. *)

LEMMA RestartInv ==
  ASSUME IInv, Restart
  PROVE  IInv'
<1>1. /\ keys' = file.keys /\ ds' = file.ds /\ run' = file.run
      /\ trust' = autr_assemble(file.keys, file.ds)
  BY DEF Restart, Read
<1>2. tp' = [success |-> file.success, revoked |-> FALSE, deleted |-> FALSE,
             next_probe_time |-> file.next]
  BY DEF Restart, Read
<1>3. tree' = ~file.revoked /\ probe' = ~file.revoked
  BY DEF Restart, Read
<1>4. /\ pc' = [v \in Worker |-> "idle"] /\ loc' = [v \in Worker |-> NoLoc]
      /\ tplock' = None
  BY DEF Restart
<1>5. UNCHANGED <<file, now>>
  BY DEF Restart
<1>6. /\ file \in FileRecord
      /\ file.keys \in KeyList /\ file.ds \in SUBSET Ksk /\ file.run \in [Ksk -> RunRecord]
      /\ file.success \in BOOLEAN /\ file.next \in ProbeTime
  <2>1. file \in FileRecord
    BY DEF IInv, Types
  <2> QED
    BY <2>1 DEF FileRecord
<1>7. tp' \in PointRecord /\ tp'.success = file.success /\ tp'.revoked = FALSE
  BY <1>2, <1>6 DEF PointRecord
<1>8. Types'
  <2>1. trust' \in Rrsets
    BY <1>1, <1>6 DEF Rrsets, autr_assemble, Key
  <2>2. tree' \in BOOLEAN /\ probe' \in BOOLEAN
    BY <1>3
  <2>3. pc' \in [Worker -> PC] /\ loc' \in [Worker -> LocRecord]
    BY <1>4, NoLocRecord DEF PC
  <2>4. now' \in Time /\ file' \in FileRecord
    BY <1>5 DEF IInv, Types
  <2>5. keys' \in KeyList /\ ds' \in SUBSET Ksk /\ run' \in [Ksk -> RunRecord]
    BY <1>1, <1>6
  <2>6. tplock' \in Worker \cup {None}
    BY <1>4
  <2> QED
    BY <1>7, <2>1, <2>2, <2>3, <2>4, <2>5, <2>6 DEF Types
<1>9. \A w \in Worker : pc'[w] = "idle"
  BY <1>4
<1>10. Locked'
  BY <1>4, <1>9, Constants DEF Locked
<1>11. Assembled'
  BY <1>1 DEF Assembled, autr_assemble
<1>12. Pending' /\ Stale'
  BY <1>11 DEF Pending, Stale
<1>13. /\ RunOf(file.keys, file.run)
       /\ Trusted(file.keys) = {} /\ file.ds = {} => OneRevoked(file.keys)
       /\ FirstUse(file.keys, file.ds)
       /\ file.success => file.ds = {}
  <2>1. FileInv
    BY DEF IInv
  <2> QED
    BY <2>1 DEF FileInv
<1>14. Lost'
  <2>1. Trusted(keys)' = Trusted(file.keys)
    BY <1>1 DEF Trusted
  <2>2. OneRevoked(file.keys) => OneRevoked(keys)'
    BY <1>1 DEF OneRevoked
  <2> QED
    BY <1>1, <1>11, <1>13, <2>1, <2>2 DEF Lost
<1>15. Removed'
  <2>1. AllIdle' /\ ~Scheduling'
    BY <1>9 DEF AllIdle, Scheduling
  <2>2. ~tree' => ~probe'
    BY <1>3
  <2> QED
    BY <1>7, <1>9, <1>11, <2>1, <2>2 DEF Removed
<1>16. Anchors'
  BY <1>1, <1>7, <1>13 DEF Anchors, FirstUse
<1>17. RunOf(keys, run)'
  BY <1>1, <1>13 DEF RunOf
<1>18. FileInv'
  BY <1>5, FileKept DEF IInv
<1>19. Saved'
  BY <1>1, <1>5 DEF Saved, RevokedInFile
<1> QED
  BY <1>8, <1>10, <1>12, <1>14, <1>15, <1>16, <1>17, <1>18, <1>19 DEF IInv

LEMMA ClockInv ==
  ASSUME IInv, Clock
  PROVE  IInv'
<1>0. /\ AllIdle /\ now' \in Time
      /\ UNCHANGED <<keys, ds, trust, tp, run, tree, probe, file, tplock, pc, loc>>
  BY DEF Clock, point, locks
<1>1. Types' /\ Locked'
  BY <1>0 DEF IInv, Types, Locked
<1>2. Assembled
  BY <1>0 DEF AllIdle, IInv, Pending, Removed
<1>3. Assembled'
  BY <1>0, <1>2 DEF Assembled, autr_assemble
<1>4. Trusted(keys)' = Trusted(keys) /\ (OneRevoked(keys) => OneRevoked(keys)')
  BY <1>0 DEF Trusted, OneRevoked
<1>5. Pending' /\ Stale'
  BY <1>3 DEF Pending, Stale
<1>6. Lost'
  BY <1>0, <1>3, <1>4 DEF IInv, Lost
<1>7. Removed'
  <2>1. AllIdle'
    BY <1>0 DEF AllIdle
  <2> QED
    BY <1>0, <1>2, <1>3, <1>4, <2>1, RemovedKept DEF IInv
<1>8. Anchors' /\ RunOf(keys, run)' /\ FileInv'
  BY <1>0, AnchorsKept, FileKept DEF IInv
<1>9. Saved'
  BY <1>0, SavedKept DEF IInv
<1> QED
  BY <1>1, <1>5, <1>6, <1>7, <1>8, <1>9 DEF IInv
=============================================================================
