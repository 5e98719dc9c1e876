-------------------------- MODULE AutotrustProofs --------------------------
(***************************************************************************)
(* Proofs about Autotrust: no step of the workers, no restart and no change *)
(* of the clock trusts a key that it should not trust.                      *)
(***************************************************************************)
EXTENDS AutotrustInv

-----------------------------------------------------------------------------
(* A response. *)

\* The lock is let go of to schedule the next probe, and others have been in
\* between: the trust point may be revoked by now.
LEMMA EndInv ==
  ASSUME IInv, NEW w \in Worker, PrimeEnd(w)
  PROVE  IInv'
<1> DEFINE t == set_next_probe(tp)
           a == IF loc[w].changed THEN autr_assemble(keys, ds) ELSE trust
           r == loc[w].changed /\ NoAnchors(a)
<1>1. /\ pc[w] = "schedule" /\ tree /\ tplock = None
      /\ probe' = TRUE /\ file' = Written(keys, t) /\ trust' = a
      /\ r => /\ tp' = [t EXCEPT !.revoked = TRUE]
              /\ StartRemove(w, t.next_probe_time)
      /\ ~r => tp' = t /\ Goto(w, "idle") /\ Forget(w) /\ UNCHANGED tplock
      /\ UNCHANGED <<keys, ds, run, tree, now>>
  BY DEF PrimeEnd
<1>2. /\ tp \in PointRecord /\ t \in PointRecord
      /\ t.success = tp.success /\ t.revoked = tp.revoked
  <2>1. tp \in PointRecord /\ now \in Time
    BY DEF IInv, Types
  <2> QED
    BY <2>1, NextProbe
<1>3. tp.success /\ ds = {}
  BY <1>1 DEF IInv, Removed, Scheduling, Anchors
<1> HIDE DEF t
<1>4. file' \in FileRecord /\ FileInv' /\ RevokedInFile'
  BY <1>1, <1>2, <1>3, SaveInv
<1>5. /\ tp' \in PointRecord /\ tp'.success
      /\ tp'.revoked <=> tp.revoked \/ r
  BY <1>1, <1>2, <1>3 DEF PointRecord
<1> DEFINE l == IF r THEN "remove" ELSE "idle"
<1>6. /\ tplock' = None
      /\ pc' = [pc EXCEPT ![w] = l]
      /\ loc' \in [Worker -> LocRecord]
      /\ \A v \in Worker : v # w => loc'[v] = loc[v]
  <2>1. NoLoc \in LocRecord
    BY NoLocRecord
  <2>2. t.next_probe_time \in ProbeTime
    BY <1>2 DEF PointRecord
  <2>3. loc \in [Worker -> LocRecord]
    BY DEF IInv, Types
  <2>4. [loc[w] EXCEPT !.time = t.next_probe_time] \in LocRecord
    BY <2>2, <2>3 DEF LocRecord
  <2> HIDE DEF r
  <2>5. CASE r
    <3>1. /\ loc' = [loc EXCEPT ![w] = [loc[w] EXCEPT !.time = t.next_probe_time]]
          /\ pc' = [pc EXCEPT ![w] = "remove"] /\ tplock' = None
      BY <1>1, <2>5 DEF StartRemove, Goto
    <3> QED
      BY <2>3, <2>4, <2>5, <3>1
  <2>6. CASE ~r
    <3>1. /\ loc' = [loc EXCEPT ![w] = NoLoc]
          /\ pc' = [pc EXCEPT ![w] = "idle"] /\ tplock' = None
      BY <1>1, <2>6 DEF Forget, Goto
    <3> QED
      BY <2>1, <2>3, <2>6, <3>1
  <2> QED
    BY <2>5, <2>6
<1>7. trust' \in Rrsets
  BY <1>1 DEF IInv, Types, Rrsets, autr_assemble, Key
<1>8. Types' /\ Locked'
  <2>1. l \in PC /\ l \notin {"found", "probe"}
    BY DEF PC
  <2>2. Types /\ Locked
    BY DEF IInv
  <2>3. pc[w] \notin {"found", "probe"} /\ tplock' = tplock
    BY <1>1, <1>6
  <2> HIDE DEF l
  <2>4. Locked' /\ pc' \in [Worker -> PC] /\ tplock' \in Worker \cup {None}
    BY <1>6, <2>1, <2>2, <2>3, LockKept, Zenon
  <2>5. /\ UNCHANGED <<keys, ds, run, tree, now>>
        /\ probe' = TRUE
    BY <1>1
  <2> QED
    BY <1>4, <1>5, <1>6, <1>7, <2>2, <2>4, <2>5 DEF Types
<1>10. loc[w].changed => Assembled'
  BY <1>1 DEF Assembled, autr_assemble
<1>11. ~loc[w].changed => (Assembled' <=> Assembled)
  BY <1>1 DEF Assembled, autr_assemble
<1>12. Pending'
  <2> SUFFICES ASSUME ~Assembled'
               PROVE  \E v \in Worker : pc'[v] = "schedule" /\ loc'[v].changed
    BY DEF Pending
  <2>1. ~loc[w].changed /\ ~Assembled
    BY <1>10, <1>11
  <2>2. PICK v \in Worker : pc[v] = "schedule" /\ loc[v].changed
    BY <1>1, <2>1 DEF IInv, Pending
  <2> QED
    BY <1>6, <2>1, <2>2 DEF IInv, Types
<1>13. Lost' /\ Stale'
  <2>1. ~Assembled' => ~Assembled /\ trust' = trust
    BY <1>1, <1>10, <1>11
  <2> QED
    BY <1>1, <2>1 DEF IInv, Lost, Stale, Trusted, OneRevoked, JustRevoked, NoAnchors
<1>14. Removed'
  <2>1. tp'.revoked => Trusted(keys)' = {}
    <3>1. r => Trusted(keys) = {}
      BY DEF NoAnchors, autr_assemble, Trusted
    <3> QED
      BY <1>1, <1>5, <3>1 DEF IInv, Removed, Trusted
  <2>2. tp'.revoked => Assembled'
    BY <1>5, <1>10, <1>11 DEF IInv, Removed
  <2>3. \A v \in Worker : pc'[v] \in {"remove", "delete"} => tp'.revoked
    BY <1>5, <1>6 DEF IInv, Types, Removed
  <2> QED
    BY <1>1, <1>5, <2>1, <2>2, <2>3 DEF Removed
<1>15. Anchors' /\ RunOf(keys, run)' /\ Saved'
  BY <1>1, <1>3, <1>4 DEF IInv, Anchors, FirstUse, RunOf, Saved
<1> QED
  BY <1>4, <1>8, <1>12, <1>13, <1>14, <1>15 DEF IInv

\* Keys after the checks that come before the signature is looked at.
LEMMA CheckedInv ==
  ASSUME IInv, NEW r \in Response
  PROVE  /\ Checked(r) \in KeyList
         /\ RunOf(Checked(r), run)
         /\ FirstUse(Checked(r), ds)
         /\ Trusted(Checked(r)) = {} /\ ds = {} => OneRevoked(Checked(r))
<1> DEFINE c == Checked(r)
<1>0. keys \in KeyList /\ now \in Time
  BY DEF IInv, Types
<1>1. /\ c \in KeyList
      /\ \A k \in Key : CheckedKey(keys[k], c[k])
      /\ \A k \in Key : keys[k].s \in {"NONE", "VALID"} /\ ~keys[k].revoked
                         => c[k].s = "REVOKED" \/ c[k] = keys[k]
  <2>1. CheckedList(keys, c)
    BY <1>0, CheckedKeys DEF Checked
  <2> QED
    BY <2>1 DEF CheckedList
<1> HIDE DEF c
<1>2. ASSUME NEW k \in Key
      PROVE  keys[k].s \in {"NONE", "ADDPEND", "VALID", "MISSING", "REVOKED"}
  BY <1>0 DEF KeyList, KeyRecord, AnyKey, State
<1>3. RunOf(c, run)
  <2> SUFFICES ASSUME NEW k \in Ksk
               PROVE  /\ c[k].s = "NONE" => keys[k].s = "NONE"
                      /\ c[k].s = "ADDPEND" =>
                           /\ keys[k].s = "ADDPEND" /\ c[k].count = keys[k].count
                           /\ c[k].last_change = keys[k].last_change
    BY DEF IInv, RunOf
  <2>1. k \in Key
    BY DEF Key
  <2> QED
    BY <1>1, <1>2, <2>1 DEF CheckedKey
<1>4. FirstUse(c, ds)
  BY <1>1 DEF IInv, Anchors, FirstUse, CheckedKey
<1>5. Trusted(c) = {} /\ ds = {} => OneRevoked(c)
  <2> SUFFICES ASSUME Trusted(c) = {}, ds = {}
               PROVE  OneRevoked(c)
    OBVIOUS
  <2>1. CASE Trusted(keys) = {}
    <3>1. PICK k \in Key : keys[k].s = "REVOKED"
      BY <2>1 DEF IInv, Lost, OneRevoked
    <3> QED
      BY <1>1, <3>1 DEF CheckedKey, OneRevoked
  <2>2. CASE Trusted(keys) # {}
    <3>1. PICK k \in Key : keys[k].s \in {"VALID", "MISSING"}
      BY <2>2 DEF Trusted
    <3>2. c[k].s \notin {"VALID", "MISSING"}
      BY DEF Trusted
    <3> QED
      BY <1>1, <3>1, <3>2 DEF CheckedKey, OneRevoked
  <2> QED
    BY <2>1, <2>2
<1> QED
  BY <1>1, <1>3, <1>4, <1>5 DEF c

\* "no dnskey rrset" is the case of a response that changes nothing more.
LEMMA ExceedInv ==
  ASSUME IInv
  PROVE  LET c == autr_holddown_exceed(keys)
         IN  /\ c \in KeyList
             /\ RunOf(c, run)
             /\ FirstUse(c, ds)
             /\ Trusted(c) = {} => Trusted(keys) = {}
             /\ OneRevoked(keys) => OneRevoked(c)
             /\ \A k \in Key : c[k].s = "REVOKED" => keys[k].s = "REVOKED"
<1> DEFINE c == autr_holddown_exceed(keys)
<1>0. keys \in KeyList /\ now \in Time
  BY DEF IInv, Types
<1>1. /\ c \in KeyList
      /\ \A k \in Key : \/ c[k] = keys[k]
                        \/ keys[k].s = "ADDPEND" /\ c[k].s = "VALID"
  BY <1>0, ExceedKeys
<1> HIDE DEF c
<1>2. RunOf(c, run)
  BY <1>1 DEF IInv, RunOf, Key
<1>3. FirstUse(c, ds)
  BY <1>1 DEF IInv, Anchors, FirstUse
<1>4. Trusted(c) = {} => Trusted(keys) = {}
  BY <1>1 DEF Trusted
<1>5. OneRevoked(keys) => OneRevoked(c)
  BY <1>1 DEF OneRevoked
<1> QED
  BY <1>1, <1>2, <1>3, <1>4, <1>5 DEF c

LEMMA FailedInv ==
  ASSUME IInv, NEW w \in Worker, PrimeFailed(w)
  PROVE  IInv'
<1> DEFINE c == autr_holddown_exceed(keys)
<1>0. /\ pc[w] = "found" /\ ~tp.revoked /\ keys' = c
      /\ trust' = IF c # keys THEN autr_assemble(c, ds) ELSE trust
      /\ UNCHANGED <<ds, tp, tree, probe, file, now, run, loc>>
      /\ tplock' = None /\ pc' = [pc EXCEPT ![w] = "idle"]
  BY DEF PrimeFailed, Return, Goto
<1>1. /\ c \in KeyList /\ RunOf(c, run) /\ FirstUse(c, ds)
      /\ Trusted(c) = {} => Trusted(keys) = {}
      /\ OneRevoked(keys) => OneRevoked(c)
      /\ \A k \in Key : c[k].s = "REVOKED" => keys[k].s = "REVOKED"
  BY ExceedInv
<1> HIDE DEF c
<1>2. tree
  BY <1>0 DEF IInv, Removed, AllIdle
<1>3. c # keys => Assembled'
  BY <1>0 DEF Assembled, autr_assemble
<1>4. c = keys => UNCHANGED <<keys, trust>> /\ (Assembled' <=> Assembled)
  BY <1>0 DEF Assembled, autr_assemble
<1>5. Types'
  <2>1. trust' \in Rrsets
    BY <1>0 DEF IInv, Types, Rrsets, autr_assemble, Key
  <2> QED
    BY <1>0, <1>1, <2>1 DEF IInv, Types, PC
<1>6. Locked'
  <2>1. Types /\ Locked /\ "idle" \in PC /\ pc[w] \in {"found", "probe"}
    BY <1>0 DEF IInv, PC
  <2> QED
    BY <1>0, <2>1, LockKept, Zenon
<1>7. \A v \in Worker : pc[v] = "schedule" <=> pc'[v] = "schedule"
  BY <1>0 DEF IInv, Types
<1>8. Pending'
  BY <1>0, <1>3, <1>4, <1>7 DEF IInv, Pending
<1>9. Lost' /\ Stale'
  <2>1. Stale'
    BY <1>3, <1>4 DEF IInv, Stale, NoAnchors
  <2>2. CASE c = keys
    <3>1. UNCHANGED <<keys, ds, now>> /\ (Assembled' <=> Assembled)
      BY <1>0, <1>4, <2>2
    <3> QED
      BY <2>1, <3>1 DEF IInv, Lost, Trusted, OneRevoked, JustRevoked
  <2>3. CASE c # keys
    <3>1. /\ Trusted(keys)' = Trusted(c)
          /\ OneRevoked(keys)' <=> OneRevoked(c)
      BY <1>0 DEF Trusted, OneRevoked
    <3>2. Assembled' /\ ds' = ds
      BY <1>0, <1>3, <2>3
    <3> QED
      BY <1>1, <2>1, <3>1, <3>2 DEF IInv, Lost
  <2> QED
    BY <2>1, <2>2, <2>3
<1>10. Removed'
  BY <1>0, <1>2, <1>7 DEF IInv, Types, Removed, Scheduling
<1>11. Anchors' /\ RunOf(keys, run)' /\ FileInv'
  <2>1. Anchors' /\ RunOf(keys, run)'
    BY <1>0, <1>1 DEF IInv, Anchors, FirstUse, RunOf
  <2> QED
    BY <1>0, <2>1, FileKept DEF IInv
<1>12. Saved'
  BY <1>0, <1>1, <1>7 DEF IInv, Saved, RevokedInFile, Scheduling
<1> QED
  BY <1>5, <1>6, <1>8, <1>9, <1>10, <1>11, <1>12 DEF IInv

\* The three ways a response ends: "no more keys, all are revoked", a signature
\* that does not verify, and one that does.
Gone(w, r) ==
  /\ Checked(r) # keys /\ NoAnchors(Rrs(r))
  /\ keys' = Checked(r) /\ trust' = Rrs(r)
  /\ tp' = [tp EXCEPT !.success = TRUE, !.revoked = TRUE]
  /\ StartRemove(w, tp.next_probe_time)
  /\ UNCHANGED <<ds, file, run>>

Unverified(w, r) ==
  /\ keys' = Checked(r) /\ trust' = Rrs(r)
  /\ file' = IF tp.success THEN Written(Checked(r), tp) ELSE file
  /\ Return(w)
  /\ UNCHANGED <<ds, tp, run>>

MarkChanged(w, r, times) ==
  loc' = [loc EXCEPT ![w].changed =
            times \/ Checked(r) # keys \/ ds # {} \/ Changed(keys, NewKeys(r))]

Verified(w, r) ==
  /\ ~(Checked(r) # keys /\ NoAnchors(Rrs(r))) /\ verify_dnskey(Rrs(r), r)
  /\ keys' = NewKeys(r) /\ ds' = {} /\ trust' = Rrs(r)
  /\ tp' = [tp EXCEPT !.success = TRUE]
  /\ run' = NextRun(r)
  /\ \E times \in BOOLEAN : MarkChanged(w, r, times)
  /\ tplock' = None /\ Goto(w, "schedule")
  /\ UNCHANGED file

\* The rrsets that are put together from checked keys.
LEMMA AssembledRrsets ==
  ASSUME NEW c \in KeyList, ds \in SUBSET Ksk
  PROVE  /\ autr_assemble(c, ds) \in Rrsets
         /\ NoAnchors(autr_assemble(c, ds)) => Trusted(c) = {} /\ ds = {}
<1>1. autr_assemble(c, ds) = [ds |-> ds, dnskey |-> Trusted(c)]
  BY DEF autr_assemble, Trusted
<1>2. Trusted(c) \in SUBSET Key /\ ds \in SUBSET Key
  BY DEF Trusted, Key
<1> QED
  BY <1>1, <1>2 DEF Rrsets, NoAnchors

\* A list that changes has its rrsets put together again.
LEMMA Reassembled ==
  ASSUME NEW c, keys' = c, UNCHANGED ds,
         trust' = IF c # keys THEN autr_assemble(c, ds) ELSE trust
  PROVE  /\ c # keys => Assembled'
         /\ c = keys => UNCHANGED <<keys, trust>> /\ (Assembled' <=> Assembled)
<1>1. autr_assemble(keys, ds)' = autr_assemble(c, ds)
  BY DEF autr_assemble
<1>2. CASE c # keys
  BY <1>1, <1>2 DEF Assembled
<1>3. CASE c = keys
  BY <1>1, <1>3 DEF Assembled
<1> QED
  BY <1>2, <1>3

LEMMA GoneInv ==
  ASSUME IInv, NEW w \in Worker, pc[w] = "found", ~tp.revoked, NEW r \in Response,
         Gone(w, r), UNCHANGED <<tree, probe, now>>
  PROVE  IInv'
<1> DEFINE c == Checked(r)
<1>1. /\ NoAnchors(autr_assemble(c, ds)) /\ keys' = c
      /\ trust' = autr_assemble(c, ds)
      /\ UNCHANGED <<ds, file, run>>
  BY DEF Gone, Rrs
<1>2. /\ c \in KeyList /\ RunOf(c, run)
      /\ Trusted(c) = {} /\ ds = {} => OneRevoked(c)
  BY CheckedInv
<1> HIDE DEF c
<1>3. Trusted(c) = {} /\ ds = {} /\ trust' \in Rrsets
  <2>1. ds \in SUBSET Ksk
    BY DEF IInv, Types
  <2> QED
    BY <1>1, <1>2, <2>1, AssembledRrsets
<1>4. tp' \in PointRecord /\ tp'.success /\ tp'.revoked
  <2>1. tp \in PointRecord
    BY DEF IInv, Types
  <2>2. tp' = [tp EXCEPT !.success = TRUE, !.revoked = TRUE]
    BY DEF Gone
  <2> QED
    BY <2>1, <2>2, Zenon DEF PointRecord
<1>5. tree
  BY DEF IInv, Removed, AllIdle
<1>6. /\ pc' = [pc EXCEPT ![w] = "remove"] /\ tplock' = None
      /\ loc' \in [Worker -> LocRecord]
  <2>1. loc \in [Worker -> LocRecord] /\ tp.next_probe_time \in ProbeTime
    BY DEF IInv, Types, PointRecord
  <2>2. [loc[w] EXCEPT !.time = tp.next_probe_time] \in LocRecord
    BY <2>1 DEF LocRecord
  <2>3. /\ loc' = [loc EXCEPT ![w] = [loc[w] EXCEPT !.time = tp.next_probe_time]]
        /\ pc' = [pc EXCEPT ![w] = "remove"] /\ tplock' = None
    BY DEF Gone, StartRemove, Goto
  <2> QED
    BY <2>1, <2>2, <2>3
<1>7. Types' /\ Locked'
  <2>1. Types /\ Locked /\ "remove" \in PC /\ pc[w] \in {"found", "probe"}
    BY DEF IInv, PC
  <2>2. Locked' /\ pc' \in [Worker -> PC] /\ tplock' \in Worker \cup {None}
    BY <1>6, <2>1, LockKept, Zenon
  <2> QED
    BY <1>1, <1>2, <1>3, <1>4, <1>6, <2>1, <2>2 DEF Types
<1>8. Assembled'
  BY <1>1 DEF Assembled, autr_assemble
<1>9. Pending' /\ Stale' /\ Saved'
  BY <1>4, <1>8 DEF Pending, Stale, Saved
<1>10. Trusted(keys)' = {} /\ OneRevoked(keys)'
  BY <1>1, <1>2, <1>3 DEF Trusted, OneRevoked
<1>11. Lost'
  BY <1>8, <1>10 DEF Lost
<1>12. Removed'
  BY <1>4, <1>5, <1>8, <1>10 DEF Removed
<1>13. Anchors' /\ RunOf(keys, run)' /\ FileInv'
  <2>1. Anchors'
    BY <1>1, <1>3 DEF Anchors, FirstUse
  <2>2. RunOf(keys, run)'
    BY <1>1, <1>2 DEF RunOf
  <2> QED
    BY <1>1, <2>1, <2>2, FileKept DEF IInv
<1> QED
  BY <1>7, <1>9, <1>11, <1>12, <1>13 DEF IInv

\* The signature does not verify: only what the checks found is kept.
LEMMA UnverifiedInv ==
  ASSUME IInv, NEW w \in Worker, pc[w] = "found", ~tp.revoked, NEW r \in Response,
         Unverified(w, r), UNCHANGED <<tree, probe, now>>
  PROVE  IInv'
<1> DEFINE c == Checked(r)
<1>1. /\ keys' = c /\ UNCHANGED <<ds, tp, run>>
      /\ trust' = IF c # keys THEN autr_assemble(c, ds) ELSE trust
  BY DEF Unverified, Rrs
<1>2. /\ c \in KeyList /\ RunOf(c, run) /\ FirstUse(c, ds)
      /\ Trusted(c) = {} /\ ds = {} => OneRevoked(c)
  BY CheckedInv
<1>3. /\ tp.success => file' = Written(c, tp)
      /\ ~tp.success => file' = file
  BY DEF Unverified
<1>4. pc' = [pc EXCEPT ![w] = "idle"] /\ tplock' = None /\ loc' = loc
  BY DEF Unverified, Return, Goto
<1> HIDE DEF c
<1>5. /\ tp \in PointRecord /\ run \in [Ksk -> RunRecord] /\ (tp.success => ds = {})
      /\ ds \in SUBSET Ksk /\ trust \in Rrsets /\ pc \in [Worker -> PC] /\ tree
  BY DEF IInv, Types, Anchors, Removed, AllIdle
<1>6. tp.success => /\ file' \in FileRecord /\ FileInv'
                    /\ \A k \in Key : file'.keys[k].s = c[k].s
  <2> SUFFICES ASSUME tp.success
               PROVE  /\ file' \in FileRecord /\ FileInv'
                      /\ \A k \in Key : file'.keys[k].s = c[k].s
    OBVIOUS
  <2>1. file' = Written(c, tp)
    BY <1>3
  <2>2. file' \in FileRecord /\ \A k \in Key : file'.keys[k].s = c[k].s
    BY <1>2, <1>5, <2>1, WrittenFile
  <2>3. /\ RunOf(file'.keys, file'.run)
        /\ Trusted(file'.keys) = {} /\ file'.ds = {} => OneRevoked(file'.keys)
        /\ FirstUse(file'.keys, file'.ds)
        /\ file'.success => file'.ds = {}
    BY <1>2, <1>5, <2>1, FileWritten
  <2>4. FileInv'
    BY <2>3, NewFile
  <2> QED
    BY <2>2, <2>4
<1>7. file' \in FileRecord /\ FileInv'
  <2>1. CASE ~tp.success
    <3>1. file' = file /\ file \in FileRecord /\ FileInv
      BY <1>3, <2>1 DEF IInv, Types
    <3> QED
      BY <3>1, FileKept
  <2> QED
    BY <1>6, <2>1
<1>8. /\ c # keys => Assembled'
      /\ c = keys => UNCHANGED <<keys, trust>> /\ (Assembled' <=> Assembled)
  BY <1>1, Reassembled, Zenon
<1>9. Types' /\ Locked'
  <2>1. trust' \in Rrsets
    BY <1>1, <1>2, <1>5, AssembledRrsets
  <2>2. Types /\ Locked /\ "idle" \in PC /\ pc[w] \in {"found", "probe"}
    BY DEF IInv, PC
  <2>3. Locked' /\ pc' \in [Worker -> PC] /\ tplock' \in Worker \cup {None}
    BY <1>4, <2>2, LockKept, Zenon
  <2>4. keys' \in KeyList /\ UNCHANGED <<ds, tp, run, loc>>
    BY <1>1, <1>2, <1>4
  <2> QED
    BY <1>7, <2>1, <2>2, <2>3, <2>4 DEF Types
<1>10. \A v \in Worker : /\ pc[v] = "schedule" <=> pc'[v] = "schedule"
                         /\ pc'[v] \in {"remove", "delete"} => pc'[v] = pc[v]
  BY <1>4, <1>5
<1>11. Pending' /\ Stale'
  <2>1. Pending /\ Stale
    BY DEF IInv
  <2>2. CASE c # keys
    BY <1>8, <2>2 DEF Pending, Stale
  <2>3. CASE c = keys
    <3>1. trust' = trust /\ (Assembled' <=> Assembled)
      BY <1>8, <2>3
    <3>2. Pending'
      BY <1>4, <1>10, <2>1, <3>1 DEF Pending
    <3>3. Stale'
      BY <2>1, <3>1 DEF Stale, NoAnchors
    <3> QED
      BY <3>2, <3>3
  <2> QED
    BY <2>2, <2>3
<1>12. Lost'
  <2>1. CASE c = keys
    <3>1. UNCHANGED <<keys, ds, trust, now>>
      BY <1>1, <1>8, <2>1
    <3> QED
      BY <3>1, ListKept DEF IInv
  <2>2. CASE c # keys
    <3>1. /\ Trusted(keys)' = Trusted(c)
          /\ OneRevoked(keys)' <=> OneRevoked(c)
      BY <1>1 DEF Trusted, OneRevoked
    <3>2. Assembled' /\ ds' = ds
      BY <1>1, <1>8, <2>2
    <3> QED
      BY <1>2, <3>1, <3>2 DEF Lost
  <2> QED
    BY <2>1, <2>2
<1>13. Removed'
  <2>1. Removed
    BY DEF IInv
  <2>2. tp' = tp /\ tree'
    BY <1>1, <1>5
  <2>3. Scheduling' => Scheduling
    BY <1>10 DEF Scheduling
  <2> QED
    BY <1>10, <2>1, <2>2, <2>3 DEF Removed
<1>14. Anchors' /\ RunOf(keys, run)'
  <2>1. Anchors
    BY DEF IInv
  <2>2. Anchors'
    BY <1>1, <1>2, <2>1 DEF Anchors, FirstUse
  <2>3. RunOf(keys, run)'
    BY <1>1, <1>2 DEF RunOf
  <2> QED
    BY <2>2, <2>3
<1>15. Saved'
  <2>1. CASE tp.success
    <3>1. keys' = c /\ \A k \in Key : file'.keys[k].s = c[k].s
      BY <1>1, <1>6, <2>1
    <3>2. RevokedInFile'
      BY <3>1 DEF RevokedInFile
    <3> QED
      BY <3>2 DEF Saved
  <2>2. CASE ~tp.success
    BY <1>1, <2>2 DEF Saved
  <2> QED
    BY <2>1, <2>2
<1> QED
  BY <1>7, <1>9, <1>11, <1>12, <1>13, <1>14, <1>15 DEF IInv

\* A verified response extends the history of the pending keys that it has.
LEMMA RunUpdated ==
  ASSUME IInv, NEW r \in Response, NEW t \in Rrsets
  PROVE  /\ NextRun(r) \in [Ksk -> RunRecord]
         /\ RunOf(Updated(Checked(r), t, r), NextRun(r))
         /\ \A k \in Ksk : keys[k].s = "ADDPEND" /\ Checked(r)[k].s = "ADDPEND"
                           /\ k \in Fetched(r)
              => NextRun(r)[k].n >= Count(Checked(r)[k].count)
<1> DEFINE c == Checked(r)
           n == Updated(c, t, r)
           q == NextRun(r)
           One == [since |-> now, n |-> 1]
           More(k) == [run[k] EXCEPT !.n = IF run[k].n < MaxCount THEN run[k].n + 1
                                           ELSE run[k].n]
<1>0. keys \in KeyList /\ now \in Time /\ run \in [Ksk -> RunRecord] /\ RunOf(keys, run)
  BY DEF IInv, Types
<1>1. c \in KeyList /\ \A k \in Key : CheckedKey(keys[k], c[k])
  <2>1. CheckedList(keys, c)
    BY <1>0, CheckedKeys DEF Checked
  <2> QED
    BY <2>1 DEF CheckedList
<1> HIDE DEF c
<1>2. /\ \A k \in Key :
           c[k].s = "REVOKED" /\ (k \in Fetched(r) \/ c[k].last_change = now)
             => n[k].s = "REVOKED" /\ n[k].last_change = now
      /\ \A k \in Fetched(r) :
           c[k].s \in {"NONE", "ADDPEND", "VALID"} => n[k].s # "NONE"
      /\ \A k \in Ksk : n[k].s = "ADDPEND" =>
           /\ k \in Fetched(r)
           /\ \/ /\ c[k].s = "NONE" /\ n[k].last_change = now
                 /\ n[k].count = Count(0)
              \/ /\ c[k].s = "ADDPEND"
                 /\ n[k].last_change = c[k].last_change
                 /\ n[k].count = Count(c[k].count)
  <2>1. UpdatedList(c, t, r, n)
    BY <1>0, <1>1, UpdatedKeys
  <2> QED
    BY <2>1, Zenon DEF UpdatedList
<1> HIDE DEF n
<1>3. q = [k \in Ksk |-> IF k \notin Fetched(r) \/ keys[k].s \notin {"NONE", "ADDPEND"}
                         THEN NoRun ELSE IF run[k].n = 0 THEN One ELSE More(k)]
  BY DEF NextRun
<1>4. ASSUME NEW k \in Ksk
      PROVE  /\ One \in RunRecord /\ One.since = now /\ One.n = 1
             /\ NoRun \in RunRecord /\ NoRun.n = 0
             /\ run[k] \in RunRecord /\ run[k].n \in Nat
             /\ More(k) \in RunRecord /\ More(k).since = run[k].since
             /\ More(k).n = IF run[k].n < MaxCount THEN run[k].n + 1 ELSE run[k].n
  <2>1. One \in RunRecord /\ One.since = now /\ One.n = 1
    BY <1>0, Constants DEF RunRecord, Time
  <2>2. NoRun \in RunRecord /\ NoRun.n = 0
    BY Constants DEF RunRecord, NoRun
  <2>3. run[k] \in RunRecord /\ run[k].n \in Nat
    BY <1>0 DEF RunRecord
  <2>4. \A x \in RunRecord : \A i \in Nat :
          /\ [x EXCEPT !.n = i] \in RunRecord /\ [x EXCEPT !.n = i].n = i
          /\ [x EXCEPT !.n = i].since = x.since
    BY DEF RunRecord
  <2>5. (IF run[k].n < MaxCount THEN run[k].n + 1 ELSE run[k].n) \in Nat
    BY <2>3
  <2>6. /\ More(k) \in RunRecord /\ More(k).since = run[k].since
        /\ More(k).n = IF run[k].n < MaxCount THEN run[k].n + 1 ELSE run[k].n
    BY <2>3, <2>4, <2>5
  <2> QED
    BY <2>1, <2>2, <2>3, <2>6
<1> HIDE DEF One, More
<1>5. q \in [Ksk -> RunRecord]
  BY <1>3, <1>4
<1>6. ASSUME NEW k \in Ksk
      PROVE  /\ k \in Key
             /\ k \notin Fetched(r) => q[k].n = 0
             /\ keys[k].s \notin {"NONE", "ADDPEND"} => q[k].n = 0
             /\ k \in Fetched(r) /\ keys[k].s = "NONE" => q[k] = One
             /\ k \in Fetched(r) /\ keys[k].s = "ADDPEND" => q[k] = More(k)
  <2>1. q[k] = IF k \notin Fetched(r) \/ keys[k].s \notin {"NONE", "ADDPEND"}
               THEN NoRun ELSE IF run[k].n = 0 THEN One ELSE More(k)
    BY <1>3
  <2>2. /\ keys[k].s = "NONE" => run[k].n = 0
        /\ keys[k].s = "ADDPEND" => run[k].n >= 1
    BY <1>0 DEF RunOf
  <2> QED
    BY <1>4, <2>1, <2>2 DEF Key
<1> HIDE DEF q
<1>7. ASSUME NEW k \in Ksk
      PROVE  /\ keys[k].s \in {"NONE", "ADDPEND", "VALID", "MISSING", "REVOKED"}
             /\ keys[k].count \in 0 .. MaxCount
  BY <1>0, <1>6 DEF KeyList, KeyRecord, AnyKey, State
<1>8. ASSUME NEW k \in Ksk, n[k].s = "NONE"
      PROVE  q[k].n = 0
  <2>1. CASE k \notin Fetched(r)
    BY <1>6, <2>1
  <2>2. CASE k \in Fetched(r)
    <3>1. c[k].s \notin {"NONE", "ADDPEND", "VALID", "REVOKED"}
      BY <1>2, <1>6, <1>8, <2>2
    <3>2. keys[k].s \notin {"NONE", "ADDPEND"}
      BY <1>1, <1>6, <3>1 DEF CheckedKey
    <3> QED
      BY <1>6, <3>2
  <2> QED
    BY <2>1, <2>2
<1>9. ASSUME NEW k \in Ksk, k \in Fetched(r), c[k].s = "ADDPEND"
      PROVE  /\ q[k].n >= 1 /\ q[k].n >= Count(c[k].count)
             /\ q[k].since = c[k].last_change
  <2>1. /\ keys[k].s = "ADDPEND" /\ c[k].count = keys[k].count
        /\ c[k].last_change = keys[k].last_change
    BY <1>1, <1>6, <1>7, <1>9 DEF CheckedKey
  <2>2. /\ run[k].n >= 1 /\ run[k].n >= keys[k].count
        /\ run[k].since = keys[k].last_change
    BY <1>0, <2>1 DEF RunOf
  <2>3. q[k] = More(k)
    BY <1>6, <1>9, <2>1
  <2> QED
    BY <1>4, <1>7, <2>1, <2>2, <2>3, Constants DEF Count
<1>10. ASSUME NEW k \in Ksk, k \in Fetched(r), c[k].s = "NONE"
       PROVE  q[k].n = 1 /\ q[k].since = now
  <2>1. keys[k].s = "NONE"
    BY <1>1, <1>6, <1>7, <1>10 DEF CheckedKey
  <2> QED
    BY <1>4, <1>6, <1>10, <2>1
<1>11. ASSUME NEW k \in Ksk, n[k].s = "ADDPEND"
       PROVE  /\ q[k].n >= 1 /\ q[k].n >= n[k].count
              /\ q[k].since = n[k].last_change
  <2>1. Count(0) <= 1
    BY Constants DEF Count
  <2>2. CASE c[k].s = "NONE" /\ n[k].last_change = now /\ n[k].count = Count(0)
    BY <1>2, <1>10, <1>11, <2>1, <2>2, CountType
  <2>3. CASE /\ c[k].s = "ADDPEND" /\ n[k].last_change = c[k].last_change
             /\ n[k].count = Count(c[k].count)
    BY <1>2, <1>9, <1>11, <2>3
  <2> QED
    BY <1>2, <1>11, <2>2, <2>3
<1>12. RunOf(n, q)
  BY <1>8, <1>11 DEF RunOf
<1> QED
  BY <1>5, <1>9, <1>12, Zenon DEF n, c, q

\* A trust point is never left without anchors by a verified response, unless a
\* key has been revoked: rrsets that are out of date stand for that.
LEMMA VerifiedLost ==
  ASSUME IInv, tree, NEW r \in Response,
         Checked(r) = keys \/ ~NoAnchors(Rrs(r)), verify_dnskey(Rrs(r), r)
  PROVE  /\ Rrs(r) \in Rrsets /\ ~NoAnchors(Rrs(r))
         /\ NewKeys(r) \in KeyList
         /\ Trusted(NewKeys(r)) # {} \/ JustRevoked(NewKeys(r))
<1> DEFINE c == Checked(r)
           t == Rrs(r)
           n == NewKeys(r)
<1>0. keys \in KeyList /\ now \in Time /\ ds \in SUBSET Ksk /\ trust \in Rrsets
  BY DEF IInv, Types
<1>1. c \in KeyList /\ FirstUse(c, ds)
  BY CheckedInv
<1>2. c # keys => ~NoAnchors(t)
  OBVIOUS
<1>3. verify_dnskey(t, r)
  OBVIOUS
<1> HIDE DEF c
<1>4. t \in Rrsets
  BY <1>0, <1>1 DEF Rrs, Rrsets, autr_assemble, Key, c
<1>5. c # keys => t = autr_assemble(c, ds)
  BY DEF Rrs, c
<1>6. c = keys => t = trust
  BY DEF Rrs, c
<1> HIDE DEF t
<1>7. /\ n \in KeyList
      /\ Trusted(c) # {} => Trusted(n) # {} \/ JustRevoked(n)
      /\ \A k \in Key :
           c[k].s = "REVOKED" /\ (k \in Fetched(r) \/ c[k].last_change = now)
             => n[k].s = "REVOKED" /\ n[k].last_change = now
      /\ \A k \in Fetched(r) : c[k].s = "NONE" /\ k \in t.ds => n[k].s = "VALID"
  <2>1. UpdatedList(c, t, r, n)
    BY <1>0, <1>1, <1>4, UpdatedKeys DEF NewKeys, c, t
  <2> QED
    BY <2>1, Zenon DEF UpdatedList
<1> HIDE DEF n
<1>8. ~NoAnchors(t)
  BY <1>3 DEF verify_dnskey, NoAnchors
<1>9. ASSUME Trusted(c) = {}, ds = {}
      PROVE  JustRevoked(n)
  <2>1. c = keys
    BY <1>2, <1>5, <1>9 DEF NoAnchors, autr_assemble, Trusted
  <2>2. ~Assembled
    BY <1>6, <1>8, <1>9, <2>1 DEF Assembled, NoAnchors, autr_assemble, Trusted
  <2>3. PICK k \in Key : keys[k].s = "REVOKED" /\ keys[k].last_change = now
    BY <1>9, <2>1, <2>2 DEF IInv, Lost, JustRevoked
  <2> QED
    BY <1>7, <2>1, <2>3 DEF JustRevoked
<1>10. ASSUME Trusted(c) = {}, ds # {}
       PROVE  Trusted(n) # {} \/ JustRevoked(n)
  <2>1. Assembled
    BY <1>10 DEF IInv, Anchors, Removed, Pending, Scheduling
  <2>2. t = autr_assemble(c, ds)
    BY <1>5, <1>6, <2>1 DEF Assembled
  <2>3. t.dnskey = {} /\ t.ds = ds
    BY <1>10, <2>2 DEF autr_assemble, Trusted
  <2>4. PICK k \in Fetched(r) : k \in ds
    BY <1>3, <2>3 DEF verify_dnskey
  <2>5. k \in Key
    BY DEF Fetched, Key
  <2>6. c[k].s \in {"NONE", "REVOKED"}
    BY <1>1, <1>10, <2>5 DEF FirstUse, Trusted
  <2>7. n[k].s = "VALID" \/ (n[k].s = "REVOKED" /\ n[k].last_change = now)
    BY <1>7, <2>3, <2>4, <2>5, <2>6
  <2> QED
    BY <2>5, <2>7 DEF Trusted, JustRevoked
<1> QED
  BY <1>4, <1>7, <1>8, <1>9, <1>10 DEF n, t, c

LEMMA VerifiedInv ==
  ASSUME IInv, NEW w \in Worker, pc[w] = "found", ~tp.revoked, NEW r \in Response,
         Verified(w, r), UNCHANGED <<tree, probe, now>>
  PROVE  IInv'
<1>0. PICK times \in BOOLEAN : MarkChanged(w, r, times)
  BY Zenon DEF Verified
<1> DEFINE c == Checked(r)
           t == Rrs(r)
           n == NewKeys(r)
           ch == times \/ c # keys \/ ds # {} \/ Changed(keys, n)
<1>1. /\ keys' = n /\ trust' = t /\ ds' = {} /\ run' = NextRun(r)
      /\ pc' = [pc EXCEPT ![w] = "schedule"] /\ tplock' = None
      /\ UNCHANGED file
  BY DEF Verified, Goto
<1>1a. loc' = [loc EXCEPT ![w].changed = ch]
  BY <1>0, Zenon DEF MarkChanged
<1>2. tree
  BY DEF IInv, Removed, AllIdle
<1>3. /\ t \in Rrsets /\ ~NoAnchors(t) /\ n \in KeyList
      /\ Trusted(n) # {} \/ JustRevoked(n)
  <2>1. Checked(r) = keys \/ ~NoAnchors(Rrs(r))
    BY Zenon DEF Verified
  <2>2. verify_dnskey(Rrs(r), r)
    BY Zenon DEF Verified
  <2> QED
    BY <1>2, <2>1, <2>2, VerifiedLost
<1>4. NextRun(r) \in [Ksk -> RunRecord] /\ RunOf(n, NextRun(r))
  BY <1>3, RunUpdated DEF NewKeys
<1>5. ~ch => /\ t = trust
             /\ ds = {} /\ \A k \in Key : keys[k].s = n[k].s
  BY DEF Changed, Rrs
<1> HIDE DEF n, t, c
<1>6. ch \in BOOLEAN
  OBVIOUS
<1> HIDE DEF ch
<1>7. tp' \in PointRecord /\ tp'.success /\ ~tp'.revoked
  <2>1. tp \in PointRecord
    BY DEF IInv, Types
  <2>2. tp' = [tp EXCEPT !.success = TRUE]
    BY DEF Verified
  <2> QED
    BY <2>1, <2>2, Zenon DEF PointRecord
<1>8. loc' \in [Worker -> LocRecord] /\ loc'[w].changed = ch
  <2>1. loc \in [Worker -> LocRecord]
    BY DEF IInv, Types
  <2>2. /\ [loc[w] EXCEPT !.changed = ch] \in LocRecord
        /\ [loc[w] EXCEPT !.changed = ch].changed = ch
    BY <1>6, <2>1 DEF LocRecord
  <2>3. loc' = [loc EXCEPT ![w] = [loc[w] EXCEPT !.changed = ch]]
    BY <1>1a
  <2> QED
    BY <2>1, <2>2, <2>3
<1>9. Types' /\ Locked'
  <2>1. Types /\ Locked /\ "schedule" \in PC /\ pc[w] \in {"found", "probe"}
    BY DEF IInv, PC
  <2>2. "schedule" \notin {"found", "probe"}
    OBVIOUS
  <2>3. Locked' /\ pc' \in [Worker -> PC] /\ tplock' \in Worker \cup {None}
    BY <1>1, <2>1, <2>2, LockKept, Zenon
  <2> QED
    BY <1>1, <1>3, <1>4, <1>7, <1>8, <2>1, <2>3 DEF Types
<1>10. pc'[w] = "schedule" /\ loc'[w].changed = ch
  BY <1>1, <1>8 DEF IInv, Types
<1>11. Pending'
  <2>1. CASE ch
    BY <1>10, <2>1, Zenon DEF Pending
  <2>2. CASE ~ch
    <3>1. Assembled' <=> Assembled
      <4>1. Trusted(n) = Trusted(keys)
        BY <1>5, <2>2 DEF Trusted
      <4>2. autr_assemble(keys, ds) = [ds |-> ds, dnskey |-> Trusted(keys)]
        BY DEF autr_assemble, Trusted
      <4>3. autr_assemble(keys, ds)' = [ds |-> {}, dnskey |-> Trusted(n)]
        BY <1>1 DEF autr_assemble, Trusted
      <4>4. ds = {} /\ trust' = trust
        BY <1>1, <1>5, <2>2
      <4> QED
        BY <4>1, <4>2, <4>3, <4>4 DEF Assembled
    <3>2. CASE Assembled
      BY <3>1, <3>2 DEF Pending
    <3>3. CASE ~Assembled
      <4>1. PICK v \in Worker : pc[v] = "schedule" /\ loc[v].changed
        BY <1>2, <3>3 DEF IInv, Pending
      <4>2. v # w /\ pc \in [Worker -> PC]
        BY <4>1 DEF IInv, Types
      <4>3. pc'[v] = "schedule" /\ loc'[v] = loc[v]
        BY <1>1, <1>1a, <4>1, <4>2 DEF IInv, Types
      <4> QED
        BY <4>1, <4>3 DEF Pending
    <3> QED
      BY <3>2, <3>3
  <2> QED
    BY <2>1, <2>2
<1>12. Lost'
  <2>1. /\ Trusted(keys)' = Trusted(n)
        /\ JustRevoked(keys)' <=> JustRevoked(n)
        /\ JustRevoked(n) => OneRevoked(keys)'
    BY <1>1 DEF Trusted, OneRevoked, JustRevoked
  <2> QED
    BY <1>3, <2>1 DEF Lost
<1>13. Stale'
  BY <1>1, <1>3 DEF Stale, NoAnchors
<1>14. Removed'
  BY <1>1, <1>2, <1>7 DEF IInv, Types, Removed
<1>15. Anchors' /\ FileInv'
  <2>1. Anchors'
    BY <1>1 DEF Anchors, FirstUse
  <2> QED
    BY <1>1, <2>1, FileKept DEF IInv
<1>16. RunOf(keys, run)'
  BY <1>1, <1>4 DEF RunOf
<1>17. Saved'
  BY <1>10 DEF Saved, Scheduling
<1> QED
  BY <1>9, <1>11, <1>12, <1>13, <1>14, <1>15, <1>16, <1>17 DEF IInv

LEMMA ProcessInv ==
  ASSUME IInv, NEW w \in Worker, autr_process_prime(w)
  PROVE  IInv'
<1>1. pc[w] = "found" /\ ~tp.revoked /\ UNCHANGED <<tree, probe, now>>
  BY DEF autr_process_prime
<1>2. PICK r \in Response : Gone(w, r) \/ Unverified(w, r) \/ Verified(w, r)
  BY Zenon DEF autr_process_prime, Gone, Unverified, Verified, MarkChanged, NewKeys,
               Updated, Rrs, Checked
<1> QED
  BY <1>1, <1>2, GoneInv, UnverifiedInv, VerifiedInv, Zenon

-----------------------------------------------------------------------------
(* The theorems. *)

LEMMA StepInv == IInv /\ [Next]_vars => IInv'
<1> SUFFICES ASSUME IInv, [Next]_vars PROVE IInv'
  OBVIOUS
<1>1. ASSUME NEW w \in Worker,
             \/ anchor_find(w) \/ PrimeRevoked(w) \/ PrimeFailed(w)
             \/ autr_process_prime(w) \/ PrimeDeleted(w) \/ PrimeEnd(w)
             \/ autr_tp_remove(w) \/ autr_point_delete(w)
             \/ todo_probe(w) \/ probe_anchor(w)
      PROVE  IInv'
  BY <1>1, FindInv, ReturnInv, FailedInv, ProcessInv, DeletedInv, EndInv, RemoveInv,
     DeleteInv, ProbeInv
<1>2. CASE Restart
  BY <1>2, RestartInv
<1>3. CASE Clock
  BY <1>3, ClockInv
<1>4. CASE UNCHANGED vars
  <2> USE <1>4 DEF vars
  <2>1. Types' /\ Locked'
    BY DEF IInv, Types, Locked
  <2>2. /\ Lost' /\ Stale' /\ (Assembled' <=> Assembled)
        /\ Trusted(keys)' = Trusted(keys)
    BY ListKept DEF IInv
  <2>3. Pending'
    BY <2>2 DEF IInv, Pending
  <2>4. Removed'
    BY <2>2 DEF IInv, Removed, AllIdle, Scheduling
  <2>5. Saved'
    BY DEF IInv, Saved, RevokedInFile, Scheduling
  <2>6. Anchors' /\ RunOf(keys, run)' /\ FileInv'
    BY AnchorsKept, FileKept DEF IInv
  <2> QED
    BY <2>1, <2>2, <2>3, <2>4, <2>5, <2>6 DEF IInv
<1> QED
  BY <1>1, <1>2, <1>3, <1>4 DEF Next

\* The invariant that the results below come from: what the workers, restarts and
\* the clock leave of a trust point between any two locks of autr_process_prime.
THEOREM Invariance == Spec => []IInv
<1>1. Init => IInv
  BY InitInv
<1>2. IInv /\ [Next]_vars => IInv'
  BY StepInv
<1> QED
  BY <1>1, <1>2, PTL DEF Spec

\* autr_assemble: when no worker processes a response, the rrsets that validation
\* uses are exactly the VALID and MISSING keys and the DSes of the list.
THEOREM RrsetsAssembled == Spec => []AssembledExact
<1>1. IInv => AssembledExact
  <2> SUFFICES ASSUME IInv PROVE AssembledExact
    OBVIOUS
  <2>0. Types
    BY DEF IInv
  <2>1. keys \in [Key -> AnyKey] /\ tp.next_probe_time \in ProbeTime
    BY <2>0 DEF Types, KeyList, KeyRecord, PointRecord
  <2>2. TypeOK
    BY <2>0, <2>1 DEF Types, TypeOK, AnyKey, Rrsets, ProbeTime, Key
  <2>3. AllIdle /\ tree => trust = autr_assemble(keys, ds)
    BY DEF IInv, Pending, Assembled, AllIdle
  <2> QED
    BY <2>2, <2>3 DEF AssembledExact
<1> QED
  BY <1>1, Invariance, PTL

\* autr_write_file: a revocation that has been seen is in the file before the
\* worker returns, so that no restart trusts the key again.
THEOREM RevocationIsSaved == Spec => []RevocationSaved
<1>1. IInv => RevocationSaved
  BY DEF IInv, Saved, RevokedInFile, Scheduling, RevocationSaved, AllIdle
<1> QED
  BY <1>1, Invariance, PTL

\* autr_tp_remove: a trust point is marked revoked, or its rrsets are empty, only
\* when the list has a revoked key and no trusted one.
THEOREM RemovedWhenRevoked == Spec => []OnlyWhenRevoked
<1>1. IInv => OnlyWhenRevoked
  <2> SUFFICES ASSUME IInv, tp.revoked \/ NoAnchors(trust)
               PROVE  Trusted(keys) = {} /\ OneRevoked(keys)
    BY DEF OnlyWhenRevoked, Trusted, OneRevoked, autr_assemble
  <2>1. Trusted(keys) = {} /\ ds = {}
    <3>1. CASE tp.revoked
      BY <3>1 DEF IInv, Removed, Anchors
    <3>2. CASE NoAnchors(trust)
      BY <3>2 DEF IInv, Stale, Assembled, NoAnchors, autr_assemble, Trusted
    <3> QED
      BY <3>1, <3>2
  <2> QED
    BY <2>1 DEF IInv, Lost
<1> QED
  BY <1>1, Invariance, PTL

\* A pending key that the clock lets pass has been in enough responses.
LEMMA PassedRun ==
  ASSUME IInv, NEW k \in Ksk, keys[k].s = "ADDPEND",
         check_holddown(keys[k], add_holddown),
         \/ keys[k].count >= MIN_PENDINGCOUNT
         \/ run'[k].n >= MIN_PENDINGCOUNT
  PROVE  /\ run[k].n >= MIN_PENDINGCOUNT \/ run'[k].n >= MIN_PENDINGCOUNT
         /\ now >= run[k].since /\ now - run[k].since > add_holddown
<1>1. /\ run[k].n >= keys[k].count /\ run[k].since = keys[k].last_change
      /\ run[k].n \in Nat /\ keys[k].count \in Nat
  <2>1. k \in Key
    BY DEF Key
  <2> QED
    BY <2>1 DEF IInv, Types, RunOf, KeyList, KeyRecord, AnyKey, RunRecord
<1>2. now >= run[k].since /\ now - run[k].since > add_holddown
  BY <1>1 DEF check_holddown
<1> QED
  BY <1>1, <1>2, Constants

\* The step of autr_process_prime with a response.
LEMMA ProcessHoldDown ==
  ASSUME IInv, NEW w \in Worker, autr_process_prime(w), NEW k \in Ksk
  PROVE  KeptHoldDown(k)
<1> SUFFICES ASSUME keys[k].s = "ADDPEND", keys'[k].s \in {"VALID", "MISSING"},
                    \A z \in Zsk : keys[z].s # "VALID"
             PROVE  /\ check_holddown(keys[k], add_holddown)
                    /\ \/ keys[k].count >= MIN_PENDINGCOUNT
                       \/ run'[k].n >= MIN_PENDINGCOUNT
  BY PassedRun DEF KeptHoldDown
<1>0. keys \in KeyList /\ now \in Time /\ trust \in Rrsets /\ ds \in SUBSET Ksk
      /\ k \in Key
  BY DEF IInv, Types, Key
<1>1. PICK r \in Response :
        keys' = Checked(r) \/ (keys' = NewKeys(r) /\ run' = NextRun(r))
  BY Zenon DEF autr_process_prime, NewKeys, Updated, Rrs, Checked
<1> DEFINE c == Checked(r)
           t == Rrs(r)
           n == NewKeys(r)
<1>2. /\ c \in KeyList /\ CheckedKey(keys[k], c[k])
      /\ \A z \in Zsk : c[z] = keys[z]
  <2>1. CheckedList(keys, c)
    BY <1>0, CheckedKeys DEF Checked
  <2> QED
    BY <1>0, <2>1 DEF CheckedList
<1>3. keys' = c \/ (keys' = n /\ run' = NextRun(r))
  BY <1>1
<1>4. t \in Rrsets
  BY <1>0, <1>2 DEF Rrs, Rrsets, autr_assemble, Key
<1>5. keys[k].s = "ADDPEND" /\ c[k].s = "ADDPEND" /\ k \in Fetched(r)
        => NextRun(r)[k].n >= Count(c[k].count)
  BY <1>4, RunUpdated
<1>6. NextRun(r)[k].n \in Nat
  BY <1>4, RunUpdated DEF RunRecord
<1>7. /\ c[k].s = "ADDPEND" /\ n[k].s \in {"VALID", "MISSING"}
      /\ \A z \in Zsk : c[z].s # "VALID"
      => /\ check_holddown(c[k], add_holddown)
         /\ k \in Fetched(r) /\ Count(c[k].count) >= MIN_PENDINGCOUNT
  <2>1. UpdatedList(c, t, r, n)
    BY <1>0, <1>2, <1>4, UpdatedKeys DEF NewKeys
  <2> QED
    BY <2>1 DEF UpdatedList
<1> HIDE DEF c, t, n
<1>8. CASE Passed(keys[k])
  BY <1>8 DEF Passed
<1>9. CASE ~Passed(keys[k])
  <2>1. c[k].s = "ADDPEND" /\ c[k].last_change = keys[k].last_change
    BY <1>2, <1>9 DEF CheckedKey
  <2>2. keys' = n /\ run' = NextRun(r)
    BY <1>3, <2>1
  <2>3. /\ check_holddown(c[k], add_holddown)
        /\ k \in Fetched(r) /\ Count(c[k].count) >= MIN_PENDINGCOUNT
    BY <1>2, <1>7, <2>1, <2>2
  <2>4. c[k].count \in 0 .. MaxCount
    BY <1>0, <1>2 DEF KeyList, KeyRecord, AnyKey
  <2>5. run'[k].n >= MIN_PENDINGCOUNT
    BY <1>5, <1>6, <2>1, <2>2, <2>3, <2>4, CountType, Constants
  <2> QED
    BY <2>1, <2>3, <2>5 DEF check_holddown
<1> QED
  BY <1>8, <1>9

\* do_addtime and remove_missing_trustanchors: no step of a worker makes a pending
\* key trusted before the add-holddown has passed with the key in every verified
\* response, unless the operator configured a key without the SEP flag.
THEOREM HoldDownKept == Spec => HoldDown
<1>1. IInv /\ [Next]_vars => [~Restart => \A k \in Ksk : KeptHoldDown(k)]_vars
  <2> SUFFICES ASSUME IInv, [Next]_vars, ~Restart, NEW k \in Ksk
               PROVE  KeptHoldDown(k)
    OBVIOUS
  <2>0. k \in Key /\ keys \in KeyList /\ now \in Time
    BY DEF IInv, Types, Key
  <2>1. ASSUME NEW w \in Worker, PrimeFailed(w)
        PROVE  KeptHoldDown(k)
    <3>1. keys' = autr_holddown_exceed(keys)
      BY <2>1 DEF PrimeFailed
    <3>2. keys'[k] = keys[k] \/ Passed(keys[k])
      BY <2>0, <3>1, ExceedKeys
    <3> QED
      BY <3>2, PassedRun DEF KeptHoldDown, Passed
  <2>2. ASSUME NEW w \in Worker, autr_process_prime(w)
        PROVE  KeptHoldDown(k)
    BY <2>2, ProcessHoldDown
  <2>3. ASSUME NEW w \in Worker,
               \/ anchor_find(w) \/ PrimeRevoked(w) \/ PrimeDeleted(w) \/ PrimeEnd(w)
               \/ autr_tp_remove(w) \/ autr_point_delete(w)
               \/ todo_probe(w) \/ probe_anchor(w)
        PROVE  keys' = keys
    BY <2>3 DEF anchor_find, PrimeRevoked, PrimeDeleted, PrimeEnd, autr_tp_remove,
                autr_point_delete, todo_probe, probe_anchor, point
  <2>4. Clock \/ UNCHANGED vars => keys' = keys
    BY DEF Clock, vars, point
  <2>5. keys' = keys => KeptHoldDown(k)
    BY DEF KeptHoldDown
  <2> QED
    BY <2>1, <2>2, <2>3, <2>4, <2>5 DEF Next
<1> QED
  BY <1>1, Invariance, PTL DEF Spec, HoldDown
=============================================================================
