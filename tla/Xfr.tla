-------------------------------- MODULE Xfr --------------------------------
(***************************************************************************)
(* Zone transfer of one authority zone (services/authzone.c) by the        *)
(* workers.  The work is in three tasks: wait for the next probe, probe    *)
(* the serial of the primaries, transfer the zone.  A task is owned by at  *)
(* most one worker, whose event loop has the task's timer, socket and      *)
(* address lookup.                                                         *)
(*                                                                         *)
(* A handler runs with the lock of the auth_xfer held.  The handlers that  *)
(* let go of it in the middle (address lookups, ZONEMD verification,       *)
(* applying the data, expiry) are chains of steps: a step begins when the  *)
(* worker gets a lock.  pc has where a worker is in such a chain.          *)
(***************************************************************************)
EXTENDS Integers, Sequences, FiniteSets, TLC

CONSTANTS
  Worker, None,
  FirstWorker,     \* that of thread 0: it picks up the zone and has remote control
  Urls, Primaries, AllowNotify,  \* sequences of hosts from the config
  IpHosts,         \* the hosts written as an IP address
  Prefixes,        \* those of AllowNotify that are netblocks
  do_ip6,          \* AAAA lookups are done as well
  MaxAddrs,        \* bound: addresses found in a lookup
  MaxSerial,       \* bound: versions of the zone
  MaxChunks,       \* bound: packets of a transfer before the last
  NumTimeouts,     \* NUM_TIMEOUTS_FALLBACK_IXFR
  MaxRetries,      \* times that the probe timeout is doubled
  zonemd_check,    \* "off", "local", or "lookup" when keys have to be fetched
  Bad,             \* versions whose ZONEMD does not verify
  zonefile,        \* there is a zonefile in the config
  Happens,         \* what happens besides the events of the tasks
  Malformed,       \* transfers and zonefiles may be malformed
  OutOfMemory      \* what may fail: allocations, sends, writes

ASSUME XfrAssumption ==
  /\ None \notin Worker /\ FirstWorker \in Worker
  /\ MaxAddrs \in Nat \ {0} /\ MaxSerial \in Nat \ {0} /\ MaxChunks \in Nat
  /\ NumTimeouts \in Nat \ {0} /\ MaxRetries \in Nat
  /\ {do_ip6, zonefile, Malformed} \subseteq BOOLEAN
  /\ OutOfMemory \subseteq {"timer", "lookup", "fetch", "write"}
  /\ zonemd_check \in {"off", "local", "lookup"}
  /\ Happens \subseteq {"notify", "expiry", "auth_zone_transfer",
                         "auth_zone_reload", "reload"}
  /\ Bad \subseteq 1 .. MaxSerial

VARIABLES
  xfr,             \* struct auth_xfer
  task_nextprobe, task_probe, task_transfer,
  allow,           \* allow_notify_list: the hosts whose notify is accepted
  z,               \* struct auth_zone; data is the serial of the contents, or 0
  file,            \* what is in the zonefile: a serial, 0 if it is empty
  chunk_list,      \* a download that a worker is about to write, or 0
  xlock, zlock,    \* who holds xfr->lock and z->lock
  pc,              \* where the workers are
  published        \* the serial that the primaries have

tasks == <<task_nextprobe, task_probe, task_transfer>>
locks == <<xlock, zlock, pc>>
zone  == <<z, file, chunk_list>>
vars  == <<xfr, tasks, allow, zone, locks, published>>

NULL == 0

\* Contents that are no version: parts of several, and records without an SOA.
Mixed == -1
Headless == -2

\* There is no zonefile on disk.
NoFile == -3

-----------------------------------------------------------------------------
(* Lists of masters. *)

Entries(hosts, kind) ==
  [i \in DOMAIN hosts |-> [host |-> hosts[i], kind |-> kind]]

\* xfer_set_masters, with the urls and without.
ProbeMasters == Entries(Primaries, "primary") \o Entries(AllowNotify, "notify")

TransferMasters == Entries(Urls, "url") \o ProbeMasters

\* Positions in a list are pointers, NULL is the end.
First(list) == IF list = <<>> THEN NULL ELSE 1

After(list, i) == IF i = Len(list) THEN NULL ELSE i + 1

find_master_by_host(list, host) ==
  IF \E i \in DOMAIN list : list[i].host = host
  THEN CHOOSE i \in DOMAIN list :
         list[i].host = host /\ \A j \in 1 .. i - 1 : list[j].host # host
  ELSE NULL

have_probe_targets(list) == \E i \in DOMAIN list : list[i].kind # "notify"

\* The scan of both tasks: at is scan_specific or scan_target, addr counts the
\* addresses of that master still to be tried, found is the number of addresses
\* that a lookup found for each master.
NoAddrs(list) == [i \in DOMAIN list |-> 0]

Current(t) == IF t.specific # NULL THEN t.specific ELSE t.target

end_of_list(t) == t.specific = NULL /\ t.target = NULL

start_list(t, list, spec) ==
  LET s == find_master_by_host(list, spec)
  IN  [t EXCEPT !.specific = s,
                !.target = IF s = NULL THEN First(list) ELSE NULL]

\* xfr_transfer_lookup_host and xfr_probe_lookup_host: the masters with a name
\* to look up.
TransferNeedsLookup ==
  {i \in DOMAIN TransferMasters :
     LET m == TransferMasters[i] IN m.host \notin IpHosts /\ m.kind # "notify"}

ProbeNeedsLookup ==
  {i \in DOMAIN ProbeMasters :
     LET m == ProbeMasters[i]
     IN  m.host \notin IpHosts /\ ~(m.kind = "notify" /\ m.host \in Prefixes)}

\* The first master from i on with a name to look up, or NULL: the others are
\* passed over by the loops over the lookups.
LookupFrom(needs, i) ==
  LET todo == {j \in needs : j >= i}
  IN  IF todo = {} THEN NULL ELSE CHOOSE j \in todo : \A k \in todo : j <= k

\* The addresses of earlier lookups are forgotten.
start_lookups(t, list, needs) ==
  [t EXCEPT !.addr = 0, !.found = NoAddrs(list),
            !.lookup = LookupFrom(needs, 1), !.aaaa = FALSE]

move_to_next_lookup(t, needs) ==
  IF ~t.aaaa /\ do_ip6 THEN [t EXCEPT !.aaaa = TRUE]
  ELSE [t EXCEPT !.lookup = LookupFrom(needs, @ + 1), !.aaaa = FALSE]

\* The next address, or the next master; after the specific one the whole list.
nextmaster(t, list) ==
  LET n == IF t.specific # NULL THEN First(list) ELSE After(list, t.target)
  IN  IF end_of_list(t) THEN t
      ELSE IF t.addr > 1 THEN [t EXCEPT !.addr = @ - 1]
      ELSE [t EXCEPT !.specific = NULL, !.target = n,
                     !.addr = IF n = NULL THEN 0 ELSE t.found[n]]

\* What the lookup callbacks do with n addresses for the name.
AddAddrs(t, n) ==
  LET f == [t.found EXCEPT ![t.lookup] = @ + n]
  IN  [t EXCEPT !.found = f,
                !.addr = IF f[t.lookup] > 0 /\ t.lookup = Current(t)
                         THEN f[t.lookup] ELSE @]

Known(list, found) ==
  {list[i].host : i \in {j \in DOMAIN list :
     found[j] > 0 \/ list[j].host \in IpHosts \cup Prefixes}}

-----------------------------------------------------------------------------
(* Control. *)

\* Where a worker is without xfr->lock.
Unlocked == {"idle", "expire_xfr", "expire_zone", "timer_again", "apply_zone",
             "apply_xfr", "verify", "verify_again", "finish_zone",
             "finish_xfr", "fail_zone", "fail_xfr", "write_zone", "write_xfr",
             "reload_xfr", "reload_verify", "reload_again", "zonemd_write",
             "verify_write", "reload_write", "transfer_again",
             "probe_again", "fetch_zone", "fetch_xfr", "pickup_xfr",
             "pickup_verify", "pickup_again", "pickup_write"}

Goto(w, label) ==
  /\ pc' = [pc EXCEPT ![w] = label]
  /\ xlock' = IF label \in Unlocked THEN None ELSE w

\* A handler starts: the event loop calls it, and it gets the lock.
Handler(w) == pc[w] = "idle" /\ xlock = None

\* A worker that waits for xfr->lock gets it.
GetXfr(w, label) == pc[w] = label /\ xlock = None

\* A worker gets z->lock; it does not hold xfr->lock.
GetZone(w, label) == pc[w] = label /\ zlock = None

Fails(what) == what \in OutOfMemory

-----------------------------------------------------------------------------
(* task_nextprobe *)

\* xfr_nextprobe_disown
NoNextProbe == [worker |-> None, timer |-> FALSE]

\* The task waits with a timer, or the timer cannot be allocated: "no refresh".
xfr_set_timeout(w) ==
  \/ task_nextprobe' = [worker |-> w, timer |-> TRUE]
  \/ Fails("timer") /\ ~task_nextprobe.timer /\ UNCHANGED task_nextprobe

\* A faulty variant: the timer is set only while the lease runs.
TimeoutIfFree_quiet(w) ==
  IF task_nextprobe.worker = None /\ xfr.lease # "none" THEN xfr_set_timeout(w)
  ELSE UNCHANGED task_nextprobe

\* "pick up the nextprobe task and wait"
TimeoutIfFree(w) ==
  IF task_nextprobe.worker = None THEN xfr_set_timeout(w)
  ELSE UNCHANGED task_nextprobe

-----------------------------------------------------------------------------
(* Serial numbers.  The versions are few and do not wrap, so that the serial
   arithmetic of compare_serial is the order of numbers. *)

SerialMeansUpdate(x, s) == ~x.have_zone \/ x.zone_expired \/ x.serial < s

xfr_note_notify_serial(x, has, s) ==
  IF x.notify_received /\ x.notify_has_serial
  THEN IF has THEN [x EXCEPT !.notify_serial = IF @ < s THEN s ELSE @]
       ELSE [x EXCEPT !.notify_has_serial = FALSE, !.notify_serial = 0]
  ELSE IF x.notify_received THEN x
  ELSE [x EXCEPT !.notify_received = TRUE, !.notify_has_serial = has,
                 !.notify_serial = s]

ForgetNotify(x) == [x EXCEPT !.notify_received = FALSE,
                             !.notify_has_serial = FALSE, !.notify_serial = 0]

-----------------------------------------------------------------------------
(* task_transfer *)

\* xfr_transfer_disown: no chunks, timer, socket or lookup, and no owner.  The
\* scan and the fields of the last request have no reader until the next one
\* sets them; ixfr_fail, timeouts and the addresses are kept.
xfr_transfer_disown(t) ==
  [t EXCEPT !.worker = None, !.chunks = 0, !.cp = FALSE, !.lookup = NULL,
            !.aaaa = FALSE, !.specific = NULL, !.target = NULL, !.addr = 0,
            !.on_ixfr = FALSE, !.is_axfr = FALSE, !.base = 0, !.incoming = 0]

\* The task of worker w, from the notified master or from the first.
StartTransfer(t, w, spec) ==
  start_lookups(start_list([t EXCEPT !.worker = w], TransferMasters, spec),
                TransferMasters, TransferNeedsLookup)

xfr_start_transfer(w, spec) ==
  /\ task_transfer' = StartTransfer(task_transfer, w, spec)
  /\ Goto(w, "transfer_next")

\* xfr_transfer_nexttarget_or_end: look up the names, each in turn.  The lookup
\* is for the callback to go on with, or it cannot be made.
TransferLookup(w) ==
  /\ pc[w] = "transfer_next" /\ task_transfer.lookup # NULL
  /\ Goto(w, "idle") \/ (Fails("lookup") /\ Goto(w, "transfer_again"))
  /\ UNCHANGED <<xfr, tasks, allow, zone, zlock, published>>

\* mesh_new_callback had failed; the lock is taken again.
TransferLookupAgain(w) ==
  /\ GetXfr(w, "transfer_again")
  /\ task_transfer' = move_to_next_lookup(task_transfer, TransferNeedsLookup)
  /\ Goto(w, "transfer_next")
  /\ UNCHANGED <<xfr, task_nextprobe, task_probe, allow, zone, zlock,
                 published>>

\* Can xfr_transfer_init_fetch make a request to this master?
Fetchable(t) ==
  LET m == TransferMasters[Current(t)]
  IN  m.kind # "notify" /\ (t.addr > 0 \/ m.host \in IpHosts)

\* xfr_create_ixfr_packet
xfr_create_ixfr_packet(t) ==
  LET axfr == ~xfr.have_zone \/ t.ixfr_fail
  IN  [t EXCEPT !.on_ixfr = ~axfr, !.is_axfr = FALSE,
                !.ixfr_fail = IF axfr THEN FALSE ELSE @,
                !.base = IF axfr THEN 0 ELSE xfr.serial, !.incoming = 0]

\* xfr_transfer_init_fetch, over TCP
TransferFetch(w) ==
  /\ pc[w] = "transfer_next" /\ task_transfer.lookup = NULL
  /\ ~end_of_list(task_transfer)
  /\ TransferMasters[Current(task_transfer)].kind # "url"
  /\ \/ /\ Fetchable(task_transfer)
        /\ task_transfer' = [xfr_create_ixfr_packet(task_transfer)
                               EXCEPT !.cp = TRUE]
        /\ Goto(w, "idle")
     \/ /\ ~Fetchable(task_transfer) \/ Fails("fetch")
        /\ task_transfer' = nextmaster(task_transfer, TransferMasters)
        /\ Goto(w, "transfer_next")
  /\ UNCHANGED <<xfr, task_nextprobe, task_probe, allow, zone, zlock,
                 published>>

\* and over HTTP: the etag is read with both locks.
TransferFetchHttp(w) ==
  /\ pc[w] = "transfer_next" /\ task_transfer.lookup = NULL
  /\ ~end_of_list(task_transfer)
  /\ TransferMasters[Current(task_transfer)].kind = "url"
  /\ \/ /\ Fetchable(task_transfer)
        /\ Goto(w, "fetch_zone")
        /\ UNCHANGED task_transfer
     \/ /\ ~Fetchable(task_transfer) \/ Fails("fetch")
        /\ task_transfer' = nextmaster(task_transfer, TransferMasters)
        /\ Goto(w, "transfer_next")
  /\ UNCHANGED <<xfr, task_nextprobe, task_probe, allow, zone, zlock,
                 published>>

\* probe_copy_masters_for_allow_notify
AllowList == Known(ProbeMasters, task_probe.found)
             \cup Known(Entries(Urls, "url"), task_transfer.found)

FetchEtag(w) ==
  \/ /\ GetZone(w, "fetch_zone")
     /\ zlock' = w /\ Goto(w, "fetch_xfr") /\ UNCHANGED <<task_transfer, allow>>
     /\ UNCHANGED <<xfr, task_nextprobe, task_probe, zone, published>>
  \/ /\ GetXfr(w, "fetch_xfr")
     /\ zlock' = None
     /\ \/ /\ task_transfer' = [task_transfer EXCEPT !.on_ixfr = FALSE,
                                  !.cp = TRUE, !.incoming = 0, !.base = 0]
           /\ allow' = AllowList
           /\ Goto(w, "idle")
        \/ /\ Fails("fetch")
           /\ task_transfer' = nextmaster([task_transfer EXCEPT
                                             !.on_ixfr = FALSE],
                                          TransferMasters)
           /\ Goto(w, "transfer_next") /\ UNCHANGED allow
     /\ UNCHANGED <<xfr, task_nextprobe, task_probe, zone, published>>

\* "auth zone transfer failed, wait"
TransferEnd(w) ==
  /\ pc[w] = "transfer_next" /\ task_transfer.lookup = NULL
  /\ end_of_list(task_transfer)
  /\ task_transfer' = xfr_transfer_disown(task_transfer)
  /\ TimeoutIfFree(w)
  /\ Goto(w, "idle")
  /\ UNCHANGED <<xfr, task_probe, allow, zone, zlock, published>>

auth_xfer_transfer_lookup_callback(w) ==
  /\ Handler(w) /\ task_transfer.worker = w /\ task_transfer.lookup # NULL
  /\ \E n \in 0 .. MaxAddrs :
       task_transfer' = move_to_next_lookup(AddAddrs(task_transfer, n),
                                            TransferNeedsLookup)
  /\ Goto(w, "transfer_next")
  /\ UNCHANGED <<xfr, task_nextprobe, task_probe, allow, zone, zlock,
                 published>>

\* The transfer of this master has failed; an IXFR may be tried as AXFR first.
Failed(w, t, gonextonfail) ==
  LET u == [t EXCEPT !.chunks = 0, !.cp = FALSE]
  IN  /\ task_transfer' = IF gonextonfail THEN nextmaster(u, TransferMasters)
                          ELSE u
      /\ Goto(w, "transfer_next")

\* No answer: the timer, or the connection is lost.
ConnectionFails(w) ==
  LET t == task_transfer
      n == IF t.on_ixfr /\ t.timeouts < NumTimeouts THEN t.timeouts + 1
           ELSE t.timeouts
      fallback == t.on_ixfr /\ n >= NumTimeouts
  IN  Failed(w, [t EXCEPT !.timeouts = n,
                          !.ixfr_fail = @ \/ fallback], ~fallback)

auth_xfer_transfer_timer_callback(w) ==
  /\ Handler(w) /\ task_transfer.worker = w /\ task_transfer.cp
  /\ ConnectionFails(w)
  /\ UNCHANGED <<xfr, task_nextprobe, task_probe, allow, zone, zlock,
                 published>>

\* check_xfer_packet of the first packet: the serial of the transfer, and whether
\* the primary answers the IXFR with a full zone.
Answers(t) ==
  IF t.incoming # 0 THEN {t}
  ELSE {[t EXCEPT !.incoming = published, !.is_axfr = t.on_ixfr /\ full] :
          full \in IF ~t.on_ixfr THEN {FALSE}
                   ELSE IF published = t.base THEN {TRUE} ELSE BOOLEAN}

\* A packet of the zone; the last one ends the transfer.
Packet(w, t) ==
  \E u \in Answers(t) :
    \/ /\ t.chunks < MaxChunks
       /\ task_transfer' = [u EXCEPT !.chunks = @ + 1]
       /\ Goto(w, "idle")
    \/ /\ task_transfer' = [u EXCEPT !.chunks = @ + 1, !.cp = FALSE]
       /\ Goto(w, "apply_zone")

auth_xfer_transfer_tcp_callback(w) ==
  LET t == [task_transfer EXCEPT !.timeouts = IF task_transfer.on_ixfr THEN 0
                                              ELSE @]
  IN  /\ Handler(w) /\ task_transfer.worker = w /\ task_transfer.cp
      /\ TransferMasters[Current(task_transfer)].kind # "url"
      /\ \/ ConnectionFails(w)
         \/ Failed(w, t, TRUE)
         \/ t.on_ixfr /\ Failed(w, [t EXCEPT !.ixfr_fail = TRUE], FALSE)
         \/ Packet(w, t)
      /\ UNCHANGED <<xfr, task_nextprobe, task_probe, allow, zone, zlock,
                     published>>

auth_xfer_transfer_http_callback(w) ==
  /\ Handler(w) /\ task_transfer.worker = w /\ task_transfer.cp
  /\ TransferMasters[Current(task_transfer)].kind = "url"
  /\ \/ Failed(w, task_transfer, TRUE)
     \/ Packet(w, task_transfer)
  /\ UNCHANGED <<xfr, task_nextprobe, task_probe, allow, zone, zlock,
                 published>>

-----------------------------------------------------------------------------
(* task_probe *)

xfr_probe_disown(t) ==
  [t EXCEPT !.worker = None, !.cp = FALSE, !.lookup = NULL, !.aaaa = FALSE,
            !.specific = NULL, !.target = NULL, !.addr = 0, !.retries = 0,
            !.have_new_lease = FALSE]

\* "see if we need to start a probe (or maybe it is already in progress)":
\* without masters to probe the transfer starts.
CanStart == /\ task_probe.worker = None
            /\ ProbeMasters # <<>> \/ task_transfer.worker = None

StartProbe(p, w, spec) ==
  start_lookups(start_list(
    [p EXCEPT !.worker = w, !.cp = FALSE, !.have_new_lease = FALSE,
              !.only_lookup = @ \/ ~have_probe_targets(ProbeMasters)],
    ProbeMasters, spec), ProbeMasters, ProbeNeedsLookup)

\* p and t are the tasks up to now.
xfr_start_probe(w, spec, p, t) ==
  IF ProbeMasters = <<>>
  THEN /\ task_transfer' = StartTransfer(t, w, spec) /\ task_probe' = p
       /\ Goto(w, "transfer_next")
  ELSE /\ task_probe' = StartProbe(p, w, spec) /\ task_transfer' = t
       /\ Goto(w, "probe_next")

\* xfr_probe_send_or_end: look up the names, each in turn.
ProbeLookup(w) ==
  /\ pc[w] = "probe_next" /\ task_probe.lookup # NULL
  /\ Goto(w, "idle") \/ (Fails("lookup") /\ Goto(w, "probe_again"))
  /\ UNCHANGED <<xfr, tasks, allow, zone, zlock, published>>

ProbeLookupAgain(w) ==
  /\ GetXfr(w, "probe_again")
  /\ task_probe' = move_to_next_lookup(task_probe, ProbeNeedsLookup)
  /\ Goto(w, "probe_next")
  /\ UNCHANGED <<xfr, task_nextprobe, task_transfer, allow, zone, zlock,
                 published>>

auth_xfer_probe_lookup_callback(w) ==
  /\ Handler(w) /\ task_probe.worker = w /\ task_probe.lookup # NULL
  /\ \E n \in 0 .. MaxAddrs :
       task_probe' = move_to_next_lookup(AddAddrs(task_probe, n), ProbeNeedsLookup)
  /\ Goto(w, "probe_next")
  /\ UNCHANGED <<xfr, task_nextprobe, task_transfer, allow, zone, zlock,
                 published>>

\* "only wanted lookups for copy, stop probe and start wait"
OnlyLookupDone(w) ==
  /\ pc[w] = "probe_next" /\ task_probe.lookup = NULL /\ task_probe.only_lookup
  /\ task_probe' = xfr_probe_disown([task_probe EXCEPT !.only_lookup = FALSE])
  /\ IF have_probe_targets(ProbeMasters)
     THEN TimeoutIfFree(w) /\ Goto(w, "idle") /\ UNCHANGED task_transfer
     ELSE /\ IF task_transfer.worker = None THEN xfr_start_transfer(w, None)
             ELSE Goto(w, "idle") /\ UNCHANGED task_transfer
          /\ UNCHANGED task_nextprobe
  /\ allow' = AllowList
  /\ UNCHANGED <<xfr, zone, zlock, published>>

\* xfr_probe_send_probe
Probeable(t) ==
  LET m == ProbeMasters[Current(t)]
  IN  m.kind # "notify" /\ (t.addr > 0 \/ m.host \in IpHosts)

ProbeSend(w) ==
  /\ pc[w] = "probe_next" /\ task_probe.lookup = NULL
  /\ ~task_probe.only_lookup /\ ~end_of_list(task_probe)
  /\ \/ /\ Probeable(task_probe)
        /\ task_probe' = [task_probe EXCEPT !.cp = TRUE, !.retries = 0]
        /\ Goto(w, "idle")
     \/ /\ ~Probeable(task_probe) \/ Fails("fetch")
        /\ task_probe' = nextmaster(task_probe, ProbeMasters)
        /\ Goto(w, "probe_next")
  /\ allow' = AllowList
  /\ UNCHANGED <<xfr, task_nextprobe, task_transfer, zone, zlock, published>>

\* "done with probe sequence, wait"
ProbeEnd(w) ==
  /\ pc[w] = "probe_next" /\ task_probe.lookup = NULL
  /\ ~task_probe.only_lookup /\ end_of_list(task_probe)
  /\ task_probe' = xfr_probe_disown(task_probe)
  /\ xfr' = [xfr EXCEPT !.lease = IF task_probe.have_new_lease /\ xfr.have_zone
                                  THEN "fresh" ELSE @]
  /\ TimeoutIfFree(w)
  /\ Goto(w, "idle")
  /\ allow' = AllowList
  /\ UNCHANGED <<task_transfer, zone, zlock, published>>

\* The timeout is doubled until it is over AUTH_PROBE_TIMEOUT_STOP.
auth_xfer_probe_timer_callback(w) ==
  /\ Handler(w) /\ task_probe.worker = w /\ task_probe.cp
  /\ \/ /\ task_probe.retries < MaxRetries
        /\ task_probe' = [task_probe EXCEPT !.retries = @ + 1]
        /\ Goto(w, "idle")
     \/ /\ task_probe.retries = MaxRetries \/ Fails("fetch")
        /\ task_probe' = nextmaster([task_probe EXCEPT !.cp = FALSE],
                                    ProbeMasters)
        /\ Goto(w, "probe_next")
  /\ UNCHANGED <<xfr, task_nextprobe, task_transfer, allow, zone, zlock,
                 published>>

\* A primary reports serial s, which may be old when it gets here.
ProbeReports(w, s) ==
  IF SerialMeansUpdate(xfr, s)
  THEN LET m == ProbeMasters[Current(task_probe)].host
       IN  /\ task_probe' = xfr_probe_disown(task_probe)
           /\ IF task_transfer.worker = None
              THEN xfr_start_transfer(w, IF Urls # <<>> THEN None ELSE m)
              ELSE Goto(w, "idle") /\ UNCHANGED task_transfer
  ELSE /\ task_probe' = nextmaster([task_probe EXCEPT !.cp = FALSE,
                                      !.have_new_lease = TRUE], ProbeMasters)
       /\ Goto(w, "probe_next")
       /\ UNCHANGED task_transfer

auth_xfer_probe_udp_callback(w) ==
  /\ Handler(w) /\ task_probe.worker = w /\ task_probe.cp
  /\ \/ \E s \in 1 .. published : ProbeReports(w, s)
     \/ /\ task_probe' = nextmaster([task_probe EXCEPT !.cp = FALSE],
                                    ProbeMasters)
        /\ Goto(w, "probe_next")
        /\ UNCHANGED task_transfer
  /\ UNCHANGED <<xfr, task_nextprobe, allow, zone, zlock, published>>

-----------------------------------------------------------------------------
(* Notifies, and the auth_zone_transfer command. *)

xfr_process_notify(w, has, s, spec) ==
  /\ Handler(w)
  /\ IF has /\ ~SerialMeansUpdate(xfr, s)
     THEN UNCHANGED <<xfr, task_probe, task_transfer, xlock, pc>>
     ELSE IF CanStart
     THEN /\ xfr_start_probe(w, spec,
               [task_probe EXCEPT !.only_lookup = FALSE], task_transfer)
          /\ UNCHANGED xfr
     ELSE /\ xfr' = xfr_note_notify_serial(xfr, has, s)
          /\ UNCHANGED <<task_probe, task_transfer, xlock, pc>>
  /\ UNCHANGED <<task_nextprobe, allow, zone, zlock, published>>

\* The source address of a notify is that of a known host; a netblock has no
\* host to start with.
auth_zones_notify(w) ==
  /\ "notify" \in Happens
  /\ \E h \in allow :
    LET spec == IF h \in Prefixes THEN None ELSE h
    IN  \/ xfr_process_notify(w, FALSE, 0, spec)
        \/ \E s \in 1 .. published : xfr_process_notify(w, TRUE, s, spec)

auth_zones_startprobesequence(w) ==
  /\ "auth_zone_transfer" \in Happens /\ w = FirstWorker
  /\ xfr_process_notify(w, FALSE, 0, None)

-----------------------------------------------------------------------------
(* xfr_process_chunk_list: put the transfer in the zone.  z->lock is taken
   before xfr->lock. *)

ZoneThenXfr(w, from, to) ==
  /\ GetZone(w, from) /\ zlock' = w /\ Goto(w, to)
  /\ UNCHANGED <<xfr, tasks, allow, z, file, chunk_list, published>>

Kind(t) == IF TransferMasters[Current(t)].kind = "url" THEN "http"
           ELSE IF t.on_ixfr /\ ~t.is_axfr THEN "ixfr" ELSE "axfr"

NoZone(x) == [x EXCEPT !.have_zone = FALSE, !.serial = 0]

\* The differences are from the serial that we have (ixfr_start_serial), and
\* delete only what is there and add only what is not.
CleanIxfr(t) == t.base = xfr.serial /\ z.data = t.base

\* A faulty variant: apply_axfr does not clear the zone first.
Applied_uncleared(t) ==
  IF z.data \in {0, t.base} THEN t.incoming ELSE Mixed

\* The zone with the transfer in it.  Differences to another version than the
\* one they are from give a zone that is no version at all.
Applied(t) == IF Kind(t) # "ixfr" \/ z.data = t.base THEN t.incoming ELSE Mixed

\* What apply_http, apply_ixfr and apply_axfr leave in the auth_xfer when they
\* stop at an error.
StoppedApply(t) ==
  CASE Kind(t) = "http" -> {xfr, NoZone(xfr)}
    [] Kind(t) = "ixfr" -> {xfr}
    [] Kind(t) = "axfr" -> {NoZone(xfr)}

\* xfr_find_soa does not find a good SOA after the update.
NoSoa(t) ==
  LET x == IF Kind(t) = "ixfr" THEN xfr ELSE NoZone(xfr)
  IN  [x EXCEPT !.zone_expired = FALSE,
                !.serial = IF Kind(t) = "http" THEN @ ELSE t.incoming]

\* process_list_end_transfer after a failure: try AXFR, or the next primary.
ProcessingFailed(w, ixfr_fail) ==
  LET t == [task_transfer EXCEPT !.chunks = 0]
  IN  /\ task_transfer' = IF ixfr_fail THEN [t EXCEPT !.ixfr_fail = TRUE]
                          ELSE nextmaster(t, TransferMasters)
      /\ Goto(w, "transfer_next")

\* "could not store data": the zone is cleared.
ApplyFailed(w, zn, ixfr_fail) ==
  /\ z' = [zn EXCEPT !.data = 0]
  /\ zlock' = None
  /\ ProcessingFailed(w, ixfr_fail)

\* The transfer cannot be read, or is a difference to another serial.
ApplyStops(w, t) ==
  /\ Malformed \/ (Kind(t) = "ixfr" /\ t.base # xfr.serial)
  /\ xfr' \in StoppedApply(t)
  /\ ApplyFailed(w, z, Kind(t) = "ixfr")

\* "IXFR did not apply cleanly": what is deleted is not there, or what is added
\* is there already.  It goes on to the end and takes the serial.
IxfrSoftFails(w, t) ==
  /\ Kind(t) = "ixfr" /\ t.base = xfr.serial
  /\ Malformed \/ z.data # t.base
  /\ xfr' = [xfr EXCEPT !.serial = t.incoming]
  /\ ApplyFailed(w, z, TRUE)

apply(w) ==
  LET t == task_transfer
  IN  /\ GetXfr(w, "apply_xfr")
      /\ \/ ApplyStops(w, t)
         \/ IxfrSoftFails(w, t)
         \/ /\ Malformed /\ (Kind(t) = "ixfr" => CleanIxfr(t))
            /\ xfr' = NoSoa(t)
            /\ ApplyFailed(w, [z EXCEPT !.zone_expired = FALSE], FALSE)
         \/ /\ Kind(t) = "ixfr" => CleanIxfr(t)
            /\ xfr' = [xfr EXCEPT !.have_zone = TRUE, !.serial = t.incoming,
                                  !.zone_expired = FALSE]
            /\ z' = [z EXCEPT !.data = Applied(t), !.zone_expired = FALSE]
            /\ Goto(w, "verify")         \* with z->lock
            /\ UNCHANGED <<zlock, task_transfer>>
      /\ UNCHANGED <<task_nextprobe, task_probe, allow, file, chunk_list,
                     published>>

\* auth_zone_verify_zonemd with the keys at hand
Verified(zn) ==
  [zn EXCEPT !.zone_expired = @ \/ (zonemd_check # "off" /\ zn.data \in Bad)]

\* Does the verification wait for a lookup of keys?
NeedsLookup(zn) == zonemd_check = "lookup" /\ zn.data # 0

\* The zone zn goes back to the caller, which releases z->lock: a transfer of a
\* zone that failed has failed too.
TransferVerified(w, zn) ==
  /\ z' = zn
  /\ zlock' = None
  /\ Goto(w, IF zn.zone_expired THEN "fail_zone" ELSE "finish_zone")

ReloadVerified(w, zn) == z' = zn /\ zlock' = None /\ Goto(w, "idle")

WithZone(w, again, zn) ==
  IF again = "verify_again" THEN TransferVerified(w, zn) ELSE ReloadVerified(w, zn)

\* zonemd_lookup_dnskey: z->lock is released for the lookup, which may be done
\* by another worker already; again is where it goes on.
Verify(w, again) ==
  IF ~NeedsLookup(z) THEN WithZone(w, again, Verified(z))
  ELSE IF z.callback_env # None THEN WithZone(w, again, z)
  ELSE /\ z' = [z EXCEPT !.callback_env = w]
       /\ zlock' = None
       /\ Goto(w, again)

\* z->lock again; if there is no memory for the lookup, the zone fails.
VerifyAgain(w, again) ==
  /\ GetZone(w, again)
  /\ \/ WithZone(w, again, z)
     \/ /\ Fails("lookup") /\ z.callback_env = w
        /\ WithZone(w, again,
                    [z EXCEPT !.callback_env = None, !.zone_expired = TRUE])

VerifyTransfer(w) ==
  /\ \/ pc[w] = "verify" /\ Verify(w, "verify_again")
     \/ VerifyAgain(w, "verify_again")
  /\ UNCHANGED <<xfr, tasks, allow, file, chunk_list, published>>

\* "ZONEMD failed, transfer is failed"
TransferFails(w) ==
  /\ GetXfr(w, "fail_xfr")
  /\ xfr' = [xfr EXCEPT !.zone_expired = TRUE]
  /\ zlock' = None
  /\ ProcessingFailed(w, FALSE)
  /\ UNCHANGED <<task_nextprobe, task_probe, allow, zone,
                 published>>

\* process_list_end_transfer: "it worked!"  A notify that came in the meantime
\* starts a new probe, if there is none; otherwise wait.  x is the auth_xfer.
Success(w, x) ==
  LET t == xfr_transfer_disown(task_transfer)
      update == x.notify_received /\ (x.notify_has_serial =>
                                       SerialMeansUpdate(x, x.notify_serial))
  IN  \/ /\ update /\ task_probe.worker = None
         /\ xfr' = ForgetNotify(x)
         /\ xfr_start_probe(w, None, task_probe, t)
         /\ UNCHANGED task_nextprobe
      \/ /\ ~update \/ task_probe.worker # None
         /\ xfr' = x
         /\ task_transfer' = t
         /\ IF update THEN UNCHANGED task_nextprobe ELSE TimeoutIfFree(w)
         /\ Goto(w, "idle")
         /\ UNCHANGED task_probe

\* The lease is renewed.  The zonefile is written, or left to the callback of
\* the ZONEMD verification.
finish(w) ==
  LET http == IF Kind(task_transfer) = "http" THEN task_transfer.incoming ELSE 0
      x == [xfr EXCEPT !.lease = IF xfr.have_zone THEN "fresh" ELSE @]
  IN  /\ GetXfr(w, "finish_xfr")
      /\ zlock' = None
      /\ IF z.callback_env # None
         THEN /\ z' = [z EXCEPT !.perform_write = TRUE, !.write_list = http]
              /\ Success(w, x)
              /\ UNCHANGED chunk_list
         ELSE /\ z' = [z EXCEPT !.perform_write = FALSE]
              /\ xfr' = x
              /\ chunk_list' = [chunk_list EXCEPT ![w] = http]
              /\ Goto(w, "write_zone")
              /\ UNCHANGED tasks
      /\ UNCHANGED <<allow, file, published>>

\* zone_write_after_update: the download, or what the zone has now.  The write
\* of the temporary file may fail.
zone_write_after_update(w) ==
  /\ \/ zonefile /\ file' = IF chunk_list[w] # 0 THEN chunk_list[w] ELSE z.data
     \/ (~zonefile \/ Fails("write")) /\ UNCHANGED file
  /\ chunk_list' = [chunk_list EXCEPT ![w] = 0]

xfr_write_after_update(w) ==
  /\ GetXfr(w, "write_xfr")
  /\ zone_write_after_update(w)
  /\ zlock' = None
  /\ Success(w, xfr)
  /\ UNCHANGED <<allow, z, published>>

-----------------------------------------------------------------------------
(* ZONEMD verification after a lookup of keys *)

\* The callback is called by the event loop, or straight away when the lookup is
\* made; where it goes on to write for each.
WriteFrom == [idle |-> "zonemd_write", verify_again |-> "verify_write",
              reload_again |-> "reload_write", pickup_again |-> "pickup_write"]

\* Without the keys the zone fails; with them it is verified and, if that is
\* okay, what the transfer left to write is written after z->lock is released.
auth_zonemd_dnskey_lookup_callback(w) ==
  LET zn == [Verified(z) EXCEPT !.callback_env = None]
      write == z.perform_write /\ ~zn.zone_expired
  IN  /\ pc[w] \in DOMAIN WriteFrom /\ z.callback_env = w /\ zlock = None
      /\ \/ /\ z' = [z EXCEPT !.callback_env = None, !.zone_expired = TRUE]
            /\ UNCHANGED <<chunk_list, pc>>
         \/ /\ z' = [zn EXCEPT !.perform_write = FALSE,
                                !.write_list = IF z.perform_write THEN 0 ELSE @]
            /\ chunk_list' = [chunk_list EXCEPT ![w] =
                                IF write THEN z.write_list ELSE 0]
            /\ pc' = [pc EXCEPT ![w] = IF write THEN WriteFrom[@] ELSE @]
      /\ UNCHANGED <<xfr, tasks, allow, file, xlock, zlock, published>>

\* zone_write_after_update_reacq: z->lock again
zone_write_after_update_reacq(w) ==
  /\ \E l \in DOMAIN WriteFrom : /\ GetZone(w, WriteFrom[l])
                               /\ pc' = [pc EXCEPT ![w] = l]
  /\ zone_write_after_update(w)
  /\ UNCHANGED <<xfr, tasks, allow, z, xlock, zlock, published>>

-----------------------------------------------------------------------------
(* Expiry *)

\* The wait is over: the task is released, and a probe starts unless there is
\* one.
NextProbe(w) ==
  /\ task_nextprobe' = NoNextProbe
  /\ IF CanStart THEN xfr_start_probe(w, None, task_probe, task_transfer)
     ELSE Goto(w, "idle") /\ UNCHANGED <<task_probe, task_transfer>>

\* A faulty variant: the zone expires only while a probe is in progress.
auth_xfer_timer_probing(w) ==
  /\ Handler(w) /\ task_nextprobe.worker = w /\ task_nextprobe.timer
  /\ IF /\ xfr.have_zone /\ ~xfr.zone_expired /\ xfr.lease # "fresh"
        /\ task_probe.worker # None
     THEN /\ task_nextprobe' = [task_nextprobe EXCEPT !.timer = FALSE]
          /\ Goto(w, "expire_xfr")
          /\ UNCHANGED <<task_probe, task_transfer>>
     ELSE NextProbe(w)
  /\ UNCHANGED <<xfr, allow, zone, zlock, published>>

\* A zone for which no lease was noted yet (lease_time 0) expires as well.
auth_xfer_timer(w) ==
  /\ Handler(w) /\ task_nextprobe.worker = w /\ task_nextprobe.timer
  /\ IF xfr.have_zone /\ ~xfr.zone_expired /\ xfr.lease # "fresh"
     THEN /\ task_nextprobe' = [task_nextprobe EXCEPT !.timer = FALSE]
          /\ Goto(w, "expire_xfr")
          /\ UNCHANGED <<task_probe, task_transfer>>
     ELSE NextProbe(w)
  /\ UNCHANGED <<xfr, allow, zone, zlock, published>>

\* auth_xfer_set_expired: first the auth_xfer, then the zone; then the timer
\* goes on.
auth_xfer_set_expired(w) ==
  \/ /\ GetXfr(w, "expire_xfr")
     /\ xfr' = [xfr EXCEPT !.zone_expired = TRUE]
     /\ Goto(w, "expire_zone")
     /\ UNCHANGED <<tasks, allow, zone, zlock, published>>
  \/ /\ GetZone(w, "expire_zone")
     /\ z' = [z EXCEPT !.zone_expired = TRUE]
     /\ Goto(w, "timer_again")
     /\ UNCHANGED <<xfr, tasks, allow, file, chunk_list, zlock, published>>
  \/ /\ GetXfr(w, "timer_again")
     /\ NextProbe(w)
     /\ UNCHANGED <<xfr, allow, zone, zlock, published>>

-----------------------------------------------------------------------------
(* The auth_zone_reload command: read the zonefile. *)

ReloadStart(w) ==
  /\ "auth_zone_reload" \in Happens /\ w = FirstWorker
  /\ pc[w] = "idle" /\ zlock = None
  /\ zlock' = w
  /\ pc' = [pc EXCEPT ![w] = "reload_xfr"]
  /\ UNCHANGED <<xfr, tasks, allow, zone, xlock, published>>

\* auth_zone_read_zonefile, and auth_zone_clear_data when it fails: without a
\* file nothing is read.
ReadResults(old) ==
  IF file = NoFile THEN {[ok |-> TRUE, data |-> old]}
  ELSE {[ok |-> TRUE, data |-> file]} \cup
       (IF Malformed THEN {[ok |-> FALSE, data |-> 0],
                           [ok |-> TRUE, data |-> Headless]} ELSE {})

\* A faulty variant: the serial is taken only for a zone that was not there.
FindSoa_once(x, data) ==
  IF data <= 0 \/ x.have_zone THEN x
  ELSE [x EXCEPT !.have_zone = TRUE, !.serial = data]

\* xfr_find_soa for what is in the zone: nothing is changed without an SOA.
FindSoa(x, data) ==
  IF data <= 0 THEN x ELSE [x EXCEPT !.have_zone = TRUE, !.serial = data]

Lease(x) == [x EXCEPT !.lease = IF x.have_zone THEN "fresh" ELSE @]

\* "failed to read", "zone has no contents", "no SOA in zone after read", or the
\* zone is verified.
do_auth_zone_reload(w) ==
  /\ GetXfr(w, "reload_xfr")
  /\ \E r \in ReadResults(z.data) :
       LET x == FindSoa([xfr EXCEPT !.zone_expired = FALSE], r.data)
       IN  /\ z' = [z EXCEPT !.data = r.data, !.zone_expired = ~r.ok]
           /\ xfr' = IF ~r.ok THEN xfr ELSE IF r.data <= 0 THEN x ELSE Lease(x)
           /\ IF r.data <= 0 THEN zlock' = None /\ Goto(w, "idle")
              ELSE Goto(w, "reload_verify") /\ UNCHANGED zlock
  /\ UNCHANGED <<tasks, allow, file, chunk_list, published>>

ReloadVerify(w) ==
  /\ \/ pc[w] = "reload_verify" /\ Verify(w, "reload_again")
     \/ VerifyAgain(w, "reload_again")
  /\ UNCHANGED <<xfr, tasks, allow, file, chunk_list, published>>

-----------------------------------------------------------------------------
(* Start and reload of the server.  While there are no threads,
   auth_zones_cleanup releases the tasks, deleting a worker's mesh ends its
   lookups, and auth_zones_apply_cfg reads the zonefile.  The main thread then
   starts the other workers, and picks up the zone as the first worker while
   they serve already. *)

NewTask(list) == [worker |-> None, cp |-> FALSE, lookup |-> NULL,
                  aaaa |-> FALSE, specific |-> NULL, target |-> NULL,
                  addr |-> 0, found |-> NoAddrs(list)]

NewProbe == NewTask(ProbeMasters) @@
            [only_lookup |-> FALSE, have_new_lease |-> FALSE, retries |-> 0]

NewTransfer == NewTask(TransferMasters) @@
               [chunks |-> 0, ixfr_fail |-> FALSE, timeouts |-> 0,
                on_ixfr |-> FALSE, is_axfr |-> FALSE, base |-> 0,
                incoming |-> 0]

NewXfr == [zone_expired |-> FALSE, have_zone |-> FALSE, serial |-> 0,
           lease |-> "none", notify_received |-> FALSE,
           notify_has_serial |-> FALSE, notify_serial |-> 0]

NewZone == [data |-> 0, zone_expired |-> FALSE, callback_env |-> None,
            perform_write |-> FALSE, write_list |-> 0]

\* auth_zones_read_zones: verification with the keys at hand (zonemd_offline_verify).
ReadZone(zn, r) ==
  LET read == [zn EXCEPT !.data = r.data]
  IN  IF r.ok /\ zonefile /\ zonemd_check = "local" THEN Verified(read) ELSE read

Pickup == [w \in Worker |-> IF w = FirstWorker THEN "pickup_xfr" ELSE "idle"]

Init ==
  /\ file \in IF zonefile THEN {NoFile} \cup 0 .. MaxSerial ELSE {NoFile}
  /\ published \in 1 .. MaxSerial
  /\ \E r \in ReadResults(0) : /\ z = ReadZone(NewZone, r)
                             /\ xfr = FindSoa(NewXfr, r.data)
  /\ task_nextprobe = NoNextProbe
  /\ task_probe = NewProbe
  /\ task_transfer = NewTransfer
  /\ allow = AllowList
  /\ chunk_list = [v \in Worker |-> 0]
  /\ xlock = None /\ zlock = None
  /\ pc = Pickup

Reload ==
  /\ "reload" \in Happens
  /\ \A v \in Worker : pc[v] = "idle"
  /\ \E r \in ReadResults(z.data) :
       /\ z' = ReadZone([z EXCEPT !.callback_env = None], r)
       /\ xfr' = FindSoa(xfr, r.data)
  /\ task_nextprobe' = NoNextProbe
  /\ task_probe' = [xfr_probe_disown(task_probe) EXCEPT
                      !.found = NoAddrs(ProbeMasters)]
  /\ task_transfer' = [xfr_transfer_disown(task_transfer) EXCEPT
                         !.found = NoAddrs(TransferMasters)]
  /\ pc' = Pickup
  /\ UNCHANGED <<allow, file, chunk_list, xlock, zlock, published>>

\* The addresses are looked up soon, if the timeout is not soon already.
auth_xfer_pickup_initial_zone(w) ==
  /\ GetXfr(w, "pickup_xfr")
  /\ xfr' = Lease(xfr)
  /\ TimeoutIfFree(w)
  /\ task_probe' =
       IF task_nextprobe' # task_nextprobe /\ task_probe.worker = None
       THEN [task_probe EXCEPT !.only_lookup = @ \/ (xfr.have_zone /\
                                                     ProbeMasters # <<>>)]
       ELSE task_probe
  /\ Goto(w, "pickup_verify")
  /\ UNCHANGED <<task_transfer, allow, zone, zlock, published>>

\* A faulty variant: the verification that needs keys is not picked up.
auth_zones_pickup_zonemd_verify_never(w) ==
  /\ GetZone(w, "pickup_verify") /\ ReloadVerified(w, z)
  /\ UNCHANGED <<xfr, tasks, allow, file, chunk_list, published>>

\* Only the verification that needs a lookup of keys is left to do.
auth_zones_pickup_zonemd_verify(w) ==
  /\ \/ /\ GetZone(w, "pickup_verify")
        /\ IF NeedsLookup(z) THEN Verify(w, "pickup_again")
           ELSE ReloadVerified(w, z)
     \/ VerifyAgain(w, "pickup_again")
  /\ UNCHANGED <<xfr, tasks, allow, file, chunk_list, published>>

-----------------------------------------------------------------------------
(* The surroundings *)

Publish ==
  /\ published < MaxSerial
  /\ published' = published + 1
  /\ UNCHANGED <<xfr, tasks, allow, zone, locks>>

\* The expiry time of the SOA has passed since the start of the lease.
LeasePasses ==
  /\ "expiry" \in Happens
  /\ xfr.lease = "fresh"
  /\ xfr' = [xfr EXCEPT !.lease = "past"]
  /\ UNCHANGED <<tasks, allow, zone, locks, published>>

\* What a worker does on its own: it waits for no message and no time.
Continue(w) ==
  \/ TransferLookup(w) \/ TransferLookupAgain(w) \/ TransferFetch(w)
  \/ TransferFetchHttp(w) \/ FetchEtag(w) \/ TransferEnd(w)
  \/ ProbeLookup(w) \/ ProbeLookupAgain(w) \/ OnlyLookupDone(w)
  \/ ProbeSend(w) \/ ProbeEnd(w)
  \/ ZoneThenXfr(w, "apply_zone", "apply_xfr") \/ apply(w)
  \/ VerifyTransfer(w)
  \/ ZoneThenXfr(w, "fail_zone", "fail_xfr") \/ TransferFails(w)
  \/ ZoneThenXfr(w, "finish_zone", "finish_xfr") \/ finish(w)
  \/ ZoneThenXfr(w, "write_zone", "write_xfr") \/ xfr_write_after_update(w)
  \/ zone_write_after_update_reacq(w)
  \/ auth_xfer_set_expired(w)
  \/ do_auth_zone_reload(w) \/ ReloadVerify(w)
  \/ auth_xfer_pickup_initial_zone(w) \/ auth_zones_pickup_zonemd_verify(w)

\* The callbacks of its event loop for the zone.
ProbeCallback(w) ==
  \/ auth_xfer_probe_lookup_callback(w) \/ auth_xfer_probe_timer_callback(w)
  \/ auth_xfer_probe_udp_callback(w)

TransferCallback(w) ==
  \/ auth_xfer_transfer_lookup_callback(w)
  \/ auth_xfer_transfer_timer_callback(w) \/ auth_xfer_transfer_tcp_callback(w)
  \/ auth_xfer_transfer_http_callback(w)

Callback(w) ==
  \/ auth_xfer_timer(w) \/ ProbeCallback(w) \/ TransferCallback(w)
  \/ auth_zonemd_dnskey_lookup_callback(w)

Next ==
  \/ \E w \in Worker :
       \/ Continue(w) \/ Callback(w)
       \/ auth_zones_notify(w) \/ auth_zones_startprobesequence(w)
       \/ ReloadStart(w)
  \/ Reload \/ Publish \/ LeasePasses

\* A worker goes on when it can get the lock.  What an event loop waits for
\* happens, since every wait has a timer; strongly, since other handlers of the
\* worker and other holders of the lock come in between.
Fairness ==
  \A w \in Worker :
    /\ SF_vars(Continue(w)) /\ SF_vars(auth_xfer_timer(w))
    /\ SF_vars(ProbeCallback(w) \/ TransferCallback(w))

Spec == Init /\ [][Next]_vars /\ Fairness

-----------------------------------------------------------------------------
(* Properties *)

TypeOK ==
  /\ {xlock, zlock, z.callback_env, task_nextprobe.worker, task_probe.worker,
      task_transfer.worker} \subseteq Worker \cup {None}
  /\ z.data \in Headless .. MaxSerial /\ file \in NoFile .. MaxSerial
  /\ {z.write_list, xfr.serial, xfr.notify_serial,
      task_transfer.base, task_transfer.incoming} \subseteq 0 .. MaxSerial
  /\ xfr.lease \in {"none", "fresh", "past"}
  /\ task_probe.retries \in 0 .. MaxRetries
  /\ task_transfer.timeouts \in 0 .. NumTimeouts
  /\ task_transfer.chunks \in 0 .. MaxChunks + 1
  /\ published \in 1 .. MaxSerial
  /\ allow \subseteq {TransferMasters[i].host : i \in DOMAIN TransferMasters}

AllIdle == \A w \in Worker : pc[w] = "idle"

\* A task that has an owner has an event in the owner's event loop, one that has
\* none has no event and no data, so the assertions of xfr_start_transfer hold;
\* and when no worker is busy with the zone some task is owned, so the refresh
\* never stops (without failure to allocate a timer).
TasksGoOn ==
  LET Waits(t) == t.cp \/ t.lookup # NULL
  IN  /\ \A t \in {task_probe, task_transfer} :
           IF t.worker = None THEN ~Waits(t)
           ELSE pc[t.worker] = "idle" => Waits(t)
      /\ task_transfer.worker = None => task_transfer.chunks = 0
      /\ task_nextprobe.worker = None => ~task_nextprobe.timer
      /\ AllIdle /\ ~Fails("timer") =>
           \/ task_nextprobe.timer
           \/ {task_probe.worker, task_transfer.worker} # {None}

\* The zone is never put together from two versions: an IXFR is not put on
\* contents that it is no difference to, whatever transfers failed before and
\* whatever was read from the zonefile since it was asked for.  After an IXFR
\* that did not apply cleanly the zone is empty until the next transfer, where
\* the comment in apply_ixfr would go on serving (ServedDuringRefetch).
WholeVersions == TypeOK /\ z.data # Mixed

\* When nobody has the locks, a zone that has contents with an SOA is known to
\* xfr with the serial of that SOA, so probes and IXFRs are about what is
\* served.  A zonefile without an SOA is the exception: its contents stay, and
\* xfr keeps the serial of the contents before it.
SerialOfData ==
  xlock = None /\ zlock = None /\ z.data > 0
    => xfr.have_zone /\ xfr.serial = z.data

\* The first worker has not come to auth_zones_pickup_zonemd_verify yet.
Starting == \E w \in Worker : pc[w] \in {"pickup_xfr", "pickup_verify"}

\* Queries are answered only from versions that passed the ZONEMD check:
\* auth_zones_lookup refuses an expired zone and one whose verification waits
\* for keys.  This is after the start, in which workers may serve what was read
\* from the zonefile before its verification is picked up; and contents without
\* an SOA are not verified.
ServedVerified ==
  zonemd_check # "off" /\ zlock = None /\ z.data \in Bad /\ ~Starting
    => z.zone_expired \/ z.callback_env # None

\* After an IXFR with records deleted or added twice the zone is still there
\* during the refetch, as the comment in apply_ixfr says: "we softfail, and
\* continue with the rest of the IXFR, so that we serve something fairly nice
\* during the refetch".
ServedDuringRefetch ==
  [][\A w \in Worker : /\ GetXfr(w, "apply_xfr") /\ z.data = xfr.serial
                       /\ IxfrSoftFails(w, task_transfer)
                       => z'.data # 0]_vars

\* Contents for which no primary confirmed the lease in time are not served for
\* ever: the zone expires, or the lease is renewed.
Expires ==
  xfr.have_zone /\ xfr.lease = "past"
    ~> z.zone_expired \/ xfr.lease = "fresh" \/ ~xfr.have_zone
=============================================================================
