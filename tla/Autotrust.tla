----------------------------- MODULE Autotrust -----------------------------
(***************************************************************************)
(* RFC 5011 tracking of the keys of one trust point                        *)
(* (validator/autotrust.c) by the workers, with the file that the trust    *)
(* point is saved in.                                                      *)
(*                                                                         *)
(* A worker that primes the trust point looks it up, and processes the     *)
(* DNSKEY rrset with the lock of the point.  That lock is let go of to     *)
(* schedule the next probe and to delete the point, where other workers    *)
(* come in between.  A step begins when a worker gets a lock, and           *)
(* whoever has that lock waits for no other, so that taking it with         *)
(* anchors->lock, which is held for that long only, is one step.            *)
(***************************************************************************)
EXTENDS Naturals, FiniteSets

CONSTANTS
  Worker, None,
  ProbeWorker,       \* the worker with the probe timer, of thread 0
  Ksk, Zsk,          \* the DNSKEYs with and without the SEP flag
  MaxTime,           \* bound: the clock
  Interval,          \* query_interval and retry_time
  add_holddown, del_holddown, keep_missing,
  MIN_PENDINGCOUNT,
  MaxCount,          \* bound: the pending count, 250 in the code
  MaxAnchors         \* bound: what the operator configures

ASSUME AutotrustAssumption ==
  /\ None \notin Worker /\ ProbeWorker \in Worker /\ Ksk \cap Zsk = {}
  /\ {add_holddown, del_holddown, keep_missing} \subseteq Nat
  /\ {MaxTime, Interval} \subseteq Nat \ {0}
  /\ MIN_PENDINGCOUNT \in Nat /\ MaxCount \in Nat /\ MIN_PENDINGCOUNT <= MaxCount

VARIABLES
  keys,              \* tp->autr->keys: the DNSKEYs of the list, by key
  ds,                \* the DSes of the list, each by the key that it is of
  trust,             \* tp->ds_rrset and tp->dnskey_rrset, that queries use
  tp,                \* the other fields of the trust point
  tree, probe,       \* is it in anchors->tree, in anchors->autr->probe
  file,              \* what a restart reads
  now,               \* the clock, which may be set
  tplock,            \* who holds tp->lock
  pc, loc,           \* where the workers are, and their local variables
  run                \* history: per key, the verified responses that had it

vars == <<keys, ds, trust, tp, tree, probe, file, now, tplock, pc, loc,
          run>>

locks == <<tplock, pc, loc>>
point == <<keys, ds, trust, tp, run>>

Key == Ksk \cup Zsk
Time == 1 .. MaxTime

State == {"NONE", "START", "ADDPEND", "VALID", "MISSING", "REVOKED", "REMOVED"}

\* No key in the list, and a new one.
Absent == [s |-> "NONE", last_change |-> 0, count |-> 0, revoked |-> FALSE]

NewKey == [Absent EXCEPT !.s = "START"]

NoLoc == [time |-> 0, changed |-> FALSE]

NoRun == [since |-> 0, n |-> 0]

-----------------------------------------------------------------------------
(* The state table *)

set_trustanchor_state(k, s) == [k EXCEPT !.s = s, !.last_change = now]

\* A clock that went back delays the holddown.
check_holddown(k, holddown) ==
  now >= k.last_change /\ now - k.last_change > holddown

\* A faulty variant: the pending count is not looked at.
do_addtime_uncounted(k) ==
  IF check_holddown(k, add_holddown)
  THEN [set_trustanchor_state(k, "VALID") EXCEPT !.count = 0] ELSE k

do_addtime(k) ==
  IF check_holddown(k, add_holddown) /\ k.count >= MIN_PENDINGCOUNT
  THEN [set_trustanchor_state(k, "VALID") EXCEPT !.count = 0] ELSE k

do_remtime(k) == IF check_holddown(k, del_holddown)
                 THEN set_trustanchor_state(k, "REMOVED") ELSE k

do_keyrem(k) == IF k.s = "ADDPEND"
                THEN [set_trustanchor_state(k, "START") EXCEPT !.count = 0]
                ELSE set_trustanchor_state(k, "MISSING")

do_revoked(k) == IF k.s \in {"VALID", "MISSING"}
                 THEN set_trustanchor_state(k, "REVOKED") ELSE k

anchor_state_update(k, fetched) ==
  CASE k.s = "START"   -> IF fetched THEN set_trustanchor_state(k, "ADDPEND")
                          ELSE k
    [] k.s = "ADDPEND" -> IF fetched THEN do_addtime(k) ELSE do_keyrem(k)
    [] k.s = "VALID"   -> IF k.revoked THEN do_revoked(k)
                          ELSE IF ~fetched THEN do_keyrem(k)
                          ELSE IF k.last_change = 0
                          THEN [k EXCEPT !.last_change = now] ELSE k
    [] k.s = "MISSING" -> IF k.revoked THEN do_revoked(k)
                          ELSE IF fetched THEN set_trustanchor_state(k, "VALID")
                          ELSE k
    [] k.s = "REVOKED" -> IF fetched THEN [k EXCEPT !.last_change = now]
                          ELSE do_remtime(k)
    [] OTHER           -> k

\* "if ZSK init then trust KSKs"
init_zsk_to_ksk(ks) ==
  IF \E k \in Zsk : ks[k].s = "VALID" /\ ks[k].last_change = 0
  THEN [k \in Key |-> IF k \in Ksk /\ ks[k].s = "ADDPEND"
                      THEN set_trustanchor_state(ks[k], "VALID") ELSE ks[k]]
  ELSE ks

HasValidKsk(ks) == \E k \in Ksk : ks[k].s = "VALID"

\* A faulty variant: keys are removed although no KSK is valid.
remove_missing_trustanchors_always(ks) ==
  [k \in Key |-> IF k \in Zsk /\ ks[k].s \notin {"NONE", "START"}
                 THEN set_trustanchor_state(ks[k], "REMOVED") ELSE ks[k]]

remove_missing_trustanchors(ks) ==
  LET init == IF HasValidKsk(ks) THEN ks ELSE init_zsk_to_ksk(ks)
      Gone(k) == \/ k \in Zsk /\ init[k].s \notin {"NONE", "START"}
                 \/ /\ k \in Ksk /\ init[k].s = "MISSING" /\ keep_missing # 0
                    /\ check_holddown(init[k], keep_missing)
  IN  IF ~HasValidKsk(init) THEN init
      ELSE [k \in Key |-> IF Gone(k) THEN set_trustanchor_state(init[k], "REMOVED")
                          ELSE init[k]]

do_statetable(ks, fetched) ==
  remove_missing_trustanchors(
    [k \in Key |-> IF k \in Ksk THEN anchor_state_update(ks[k], k \in fetched)
                   ELSE ks[k]])

autr_cleanup_keys(ks) ==
  [k \in Key |-> IF ks[k].s \in {"START", "REMOVED"} THEN Absent
                 ELSE IF ks[k].s # "ADDPEND" THEN [ks[k] EXCEPT !.count = 0]
                 ELSE ks[k]]

-----------------------------------------------------------------------------
(* A response to the DNSKEY query: each key with the SEP flag is absent, plain, or
   revoked with a signature of its own; a revoked key without one counts as
   absent.  One signature over the rrset is enough, or there is none. *)

Response == [has : [Ksk -> {"absent", "plain", "revoked"}],
             signer : Key \cup {None}]

Fetched(r) == {k \in Ksk : r.has[k] = "plain"}

\* "see if time alone makes ADDPEND to VALID transition"
autr_holddown_exceed(ks) ==
  [k \in Key |-> IF k \in Ksk /\ ks[k].s = "ADDPEND" THEN do_addtime(ks[k])
                 ELSE ks[k]]

\* The keys that are in the list and revoke themselves.
check_contains_revoked(ks, r) ==
  [k \in Key |-> IF k \in Ksk /\ ks[k].s # "NONE" /\ r.has[k] = "revoked"
                 THEN do_revoked([ks[k] EXCEPT !.revoked = TRUE]) ELSE ks[k]]

\* The rrsets that validation uses.
autr_assemble(ks, d) ==
  [ds |-> d, dnskey |-> {k \in Key : ks[k].s \in {"VALID", "MISSING"}}]

NoAnchors(t) == t.ds = {} /\ t.dnskey = {}

\* Signed by a trusted key, or by a key of the response that a DS matches.
verify_dnskey(t, r) ==
  r.signer \in t.dnskey \cup (t.ds \cap Fetched(r))

\* seen_trustanchor counts up to a limit.
Count(c) == IF c < MaxCount THEN c + 1 ELSE c

\* The keys of the response: new ones are added, trusted if a DS matches.
update_events(ks, t, r) ==
  LET Known(k) == IF ks[k].s # "NONE" THEN ks[k]
                  ELSE IF k \in t.ds THEN [NewKey EXCEPT !.s = "VALID"] ELSE NewKey
  IN  [k \in Key |-> IF k \in Fetched(r) THEN [Known(k) EXCEPT !.count = Count(@)]
                     ELSE ks[k]]

\* history of the verified responses, for the keys that are not trusted
NextRun(r) ==
  [k \in Ksk |-> IF k \notin Fetched(r) \/ keys[k].s \notin {"NONE", "ADDPEND"}
                 THEN NoRun
                 ELSE IF run[k].n = 0 THEN [since |-> now, n |-> 1]
                 ELSE [run[k] EXCEPT !.n = IF @ < MaxCount THEN @ + 1 ELSE @]]

\* A faulty variant: the state is not stored for a revoked key, and a key without
\* a state is valid.
Written_stateless(ks, t) ==
  [revoked |-> t.revoked, success |-> t.success, ds |-> {}, run |-> run,
   next |-> t.next_probe_time,
   keys |-> [k \in Key |-> IF ks[k].s \in {"START", "REMOVED"} THEN Absent
                           ELSE IF ks[k].s = "REVOKED"
                           THEN [Absent EXCEPT !.s = "VALID"]
                           ELSE [ks[k] EXCEPT !.revoked = FALSE]]]

\* autr_write_file: a temporary file, and a rename.  The keys of some states are
\* not stored, and neither are DSes.
Written(ks, t) ==
  [revoked |-> t.revoked, success |-> t.success, ds |-> {}, run |-> run,
   next |-> t.next_probe_time,
   keys |-> [k \in Key |-> IF ks[k].s \in {"START", "REMOVED"} THEN Absent
                           ELSE [ks[k] EXCEPT !.revoked = FALSE]]]

-----------------------------------------------------------------------------
(* Workers *)

Goto(w, label) == pc' = [pc EXCEPT ![w] = label]

\* process_prime_response looks up the trust point, and takes its lock.
anchor_find(w) ==
  /\ pc[w] = "idle" /\ tree /\ tplock = None
  /\ tplock' = w
  /\ Goto(w, "found")
  /\ UNCHANGED <<point, tree, probe, file, now, loc>>

\* autr_tp_remove: the trust point is marked, and its lock let go of.
StartRemove(w, time) ==
  /\ loc' = [loc EXCEPT ![w].time = time]
  /\ tplock' = None
  /\ Goto(w, "remove")

Return(w) == tplock' = None /\ Goto(w, "idle") /\ UNCHANGED loc

Forget(w) == loc' = [loc EXCEPT ![w] = NoLoc]

\* Another worker is busy deleting it.
PrimeRevoked(w) ==
  /\ pc[w] = "found" /\ tp.revoked
  /\ Return(w)
  /\ UNCHANGED <<point, tree, probe, file, now>>

\* A faulty variant: the rrsets are not assembled for keys that time makes valid.
PrimeFailed_stale(w) ==
  /\ pc[w] = "found" /\ ~tp.revoked
  /\ keys' = autr_holddown_exceed(keys)
  /\ Return(w)
  /\ UNCHANGED <<ds, trust, tp, tree, probe, file, now, run>>

\* "no dnskey rrset"
PrimeFailed(w) ==
  LET ks == autr_holddown_exceed(keys)
  IN  /\ pc[w] = "found" /\ ~tp.revoked
      /\ keys' = ks
      /\ trust' = IF ks # keys THEN autr_assemble(ks, ds) ELSE trust
      /\ Return(w)
      /\ UNCHANGED <<ds, tp, tree, probe, file, now, run>>

set_next_probe(t) == [t EXCEPT !.next_probe_time = now + Interval]

\* A key was added or taken out, or its holddown was reset.
Changed(old, new) ==
  \E k \in Key : \/ old[k].s # new[k].s
                 \/ old[k].last_change # new[k].last_change

\* autr_process_prime with a response, up to where the lock is let go of.
\* set_tp_times sets changed if the times do: always while there are DSes, since
\* no response has verified yet and the times are 0.
autr_process_prime(w) ==
  /\ pc[w] = "found" /\ ~tp.revoked
  /\ \E r \in Response :
       LET checked == check_contains_revoked(autr_holddown_exceed(keys), r)
           revoked == checked # keys
           t1 == IF revoked THEN autr_assemble(checked, ds) ELSE trust
           gone == revoked /\ NoAnchors(t1)
           updated == autr_cleanup_keys(
                   do_statetable(update_events(checked, t1, r), Fetched(r)))
       IN  \/ /\ gone                          \* "no more keys, all are revoked"
              /\ keys' = checked /\ trust' = t1
              /\ tp' = [tp EXCEPT !.success = TRUE, !.revoked = TRUE]
              /\ StartRemove(w, tp.next_probe_time)
              /\ UNCHANGED <<ds, file, run>>
           \/ /\ ~gone /\ ~verify_dnskey(t1, r)
              /\ keys' = checked /\ trust' = t1
              /\ file' = IF tp.success THEN Written(checked, tp) ELSE file
              /\ Return(w)
              /\ UNCHANGED <<ds, tp, run>>
           \/ /\ ~gone /\ verify_dnskey(t1, r)
              /\ keys' = updated /\ ds' = {} /\ trust' = t1
              /\ tp' = [tp EXCEPT !.success = TRUE]
              /\ run' = NextRun(r)
              /\ \E times \in BOOLEAN :
                   loc' = [loc EXCEPT ![w].changed =
                             times \/ revoked \/ ds # {} \/ Changed(keys, updated)]
              /\ tplock' = None /\ Goto(w, "schedule")
              /\ UNCHANGED file
  /\ UNCHANGED <<tree, probe, now>>

\* set_next_probe: the trust point is looked up again, and is not there,
PrimeDeleted(w) ==
  /\ pc[w] = "schedule" /\ ~tree
  /\ Goto(w, "idle") /\ Forget(w)
  /\ UNCHANGED <<point, tree, probe, file, now, tplock>>

\* or it is scheduled.  Then the rest of autr_process_prime: the trust point is
\* saved, and the rrsets are assembled, or it is removed.
PrimeEnd(w) ==
  LET t == set_next_probe(tp)
      a == IF loc[w].changed THEN autr_assemble(keys, ds) ELSE trust
  IN  /\ pc[w] = "schedule" /\ tree /\ tplock = None
      /\ probe' = TRUE
      /\ file' = Written(keys, t)
      /\ trust' = a
      /\ IF loc[w].changed /\ NoAnchors(a)
         THEN tp' = [t EXCEPT !.revoked = TRUE] /\ StartRemove(w, t.next_probe_time)
         ELSE tp' = t /\ Goto(w, "idle") /\ Forget(w) /\ UNCHANGED tplock
      /\ UNCHANGED <<keys, ds, run, tree, now>>

\* autr_tp_remove, with anchors->lock.  The node in the probe tree is found by the
\* time that it had.
autr_tp_remove(w) ==
  /\ pc[w] = "remove"
  /\ tree' = FALSE
  /\ probe' = (probe /\ loc[w].time # tp.next_probe_time)
  /\ Goto(w, IF tree THEN "delete" ELSE "idle")
  /\ Forget(w)
  /\ UNCHANGED <<point, file, now, tplock>>

\* The file says that it is revoked, and the trust point is deleted.
autr_point_delete(w) ==
  /\ pc[w] = "delete"
  /\ file' = Written(keys, [tp EXCEPT !.next_probe_time = 0])
  /\ tp' = [tp EXCEPT !.deleted = TRUE]
  /\ Goto(w, "idle")
  /\ UNCHANGED <<keys, ds, trust, run, tree, probe, now, tplock, loc>>

\* autr_probe_timer: the first of the probe tree is scheduled for the retry if it
\* is time, and a query is made.
todo_probe(w) ==
  /\ w = ProbeWorker /\ pc[w] = "idle" /\ probe /\ ~tp.deleted /\ tplock = None
  /\ tp.next_probe_time <= now
  /\ tp' = set_next_probe(tp)
  /\ tplock' = w
  /\ Goto(w, "probe")
  /\ UNCHANGED <<keys, ds, trust, run, tree, probe, file, now, loc>>

probe_anchor(w) ==
  /\ pc[w] = "probe"
  /\ Return(w)
  /\ UNCHANGED <<point, tree, probe, file, now>>

-----------------------------------------------------------------------------
(* Start: the file has keys or DSes from the operator, or what was saved. *)

\* autr_read_file
Read(f) ==
  /\ keys' = f.keys /\ ds' = f.ds
  /\ trust' = autr_assemble(f.keys, f.ds)
  /\ tp' = [success |-> f.success, revoked |-> FALSE, deleted |-> FALSE,
            next_probe_time |-> f.next]
  /\ tree' = ~f.revoked /\ probe' = ~f.revoked
  /\ run' = f.run

FromOperator(valid, d) ==
  [revoked |-> FALSE, success |-> FALSE, next |-> 0, ds |-> d,
   run |-> [k \in Ksk |-> NoRun],
   keys |-> [k \in Key |-> IF k \in valid THEN [Absent EXCEPT !.s = "VALID"]
                           ELSE Absent]]

Init ==
  \E valid \in SUBSET Key, d \in SUBSET Ksk :
    LET f == FromOperator(valid, d)
    IN  /\ valid # {} \/ d # {}
        /\ Cardinality(valid) + Cardinality(d) <= MaxAnchors
        /\ file = f
        /\ keys = f.keys /\ ds = f.ds /\ trust = autr_assemble(f.keys, f.ds)
        /\ tp = [success |-> FALSE, revoked |-> FALSE, deleted |-> FALSE,
                 next_probe_time |-> 0]
        /\ tree = TRUE /\ probe = TRUE
        /\ run = f.run
        /\ now = 1
        /\ tplock = None
        /\ pc = [w \in Worker |-> "idle"] /\ loc = [w \in Worker |-> NoLoc]

\* The server stops at any moment, and starts again.
Restart ==
  /\ Read(file)
  /\ pc' = [w \in Worker |-> "idle"] /\ loc' = [w \in Worker |-> NoLoc]
  /\ tplock' = None
  /\ UNCHANGED <<file, now>>

AllIdle == \A w \in Worker : pc[w] = "idle"

\* Time passes, or the clock is set.  Holddowns are days: no time passes while a
\* response is processed.
Clock ==
  /\ AllIdle
  /\ now' \in Time
  /\ UNCHANGED <<point, tree, probe, file, locks>>

Next ==
  \/ \E w \in Worker :
       \/ anchor_find(w) \/ PrimeRevoked(w) \/ PrimeFailed(w)
       \/ autr_process_prime(w) \/ PrimeDeleted(w) \/ PrimeEnd(w)
       \/ autr_tp_remove(w) \/ autr_point_delete(w)
       \/ todo_probe(w) \/ probe_anchor(w)
  \/ Restart \/ Clock

Spec == Init /\ [][Next]_vars

-----------------------------------------------------------------------------
(* Properties *)

TypeOK ==
  /\ keys \in [Key -> [s : State, last_change : 0 .. MaxTime,
                       count : 0 .. MaxCount, revoked : BOOLEAN]]
  /\ ds \subseteq Key /\ trust \in [ds : SUBSET Key, dnskey : SUBSET Key]
  /\ tplock \in Worker \cup {None}
  /\ {tree, probe} \subseteq BOOLEAN
  /\ tp.next_probe_time \in 0 .. MaxTime + Interval

\* The step trusts the pending key k only after its add-holddown, or leaves it.
KeptHoldDown(k) ==
  /\ keys[k].s = "ADDPEND" /\ keys'[k].s \in {"VALID", "MISSING"}
  /\ \A z \in Zsk : keys[z].s # "VALID"
  => /\ run[k].n >= MIN_PENDINGCOUNT \/ run'[k].n >= MIN_PENDINGCOUNT
     /\ now >= run[k].since /\ now - run[k].since > add_holddown

\* A pending key becomes trusted only if every verified response of a period
\* longer than the add-holddown had it, and there were enough of them, or because
\* the operator configured a key without the SEP flag.  A restart goes back to
\* what was saved.
HoldDown == [][~Restart => \A k \in Ksk : KeptHoldDown(k)]_vars

\* The rrsets that validation uses are those of the list: no key is trusted that
\* is revoked or still pending.
AssembledExact == TypeOK /\ (AllIdle /\ tree => trust = autr_assemble(keys, ds))

\* When no worker is busy with a trust point that was probed with success and is
\* still in use, every key that it has as revoked is revoked in the file as well,
\* so a restart does not trust it (autr_write_file at the end of
\* autr_process_prime).  Between the update in memory and that write it is not.
RevocationSaved ==
  AllIdle /\ tp.success /\ tree /\ ~tp.revoked =>
    \A k \in Key : keys[k].s = "REVOKED" =>
       file.revoked \/ file.keys[k].s = "REVOKED"

\* The trust point stops being trusted only when a key has been revoked, and no
\* trusted key is left.
OnlyWhenRevoked ==
  tp.revoked \/ NoAnchors(trust) =>
    /\ autr_assemble(keys, {}).dnskey = {}
    /\ \E k \in Key : keys[k].s = "REVOKED"

\* "another thread is busy deleting it. Just unlock and let the other do its
\* job": a deleted trust point is in no tree, and nobody has its lock.
NotDeletedInUse == tp.deleted => ~probe /\ tplock = None
=============================================================================
