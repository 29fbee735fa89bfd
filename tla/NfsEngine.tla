------------------------------ MODULE NfsEngine ------------------------------
(***************************************************************************)
(* The remote-filesystem variant: the TC ingress program nfs_server_tc     *)
(* (the BPF source embedded in src/src/test_nfs_server.sh) running on      *)
(* several CPUs, and the user-space nfs_server (src/unnamed/part_002):     *)
(* start-up pre-cache of test.txt, then a loop of ring_buffer__poll and    *)
(* one recvfrom per select().  Shared maps: nfs_file_cache, fh_to_name,    *)
(* client_track, nfs_stats, nfs_events.                                    *)
(*                                                                         *)
(* As in the file-fetch variant, nfs_server_tc returns TC_ACT_OK on every  *)
(* path, so every datagram for the server port also reaches the socket.   *)
(* An invocation is split into steps at its accesses to shared maps.       *)
(***************************************************************************)
EXTENDS Naturals, Sequences, FiniteSets, SequencesExt, Functions

CONSTANTS
    CPUs,                    \* CPUs that run the TC program in parallel
    Clients,                 \* client IPv4 source addresses
    Frames,                  \* datagrams that may arrive
    ServerPort,              \* env.nfs_port (-p), default NFS_PORT
    RingCap,                 \* records the nfs_events ring buffer holds
    EnableKernelProcessing,  \* const volatile enable_kernel_processing
    EnableKernelCache,       \* env.enable_kernel_cache (cleared by -n)
    ReqHandle,               \* the file handle a request record carries
    CacheTtlSeconds,         \* const volatile cache_ttl_seconds
    BootWall,                \* time(NULL) at boot, in seconds
    MaxFrames,               \* bound: datagrams that arrive in a behaviour
    MaxTicks                 \* bound: seconds of uptime that pass

VARIABLES
    lc,           \* per-CPU locals of the running nfs_server_tc
    clientTrack,  \* map client_track: address -> [gen, count, kernel, user]
                  \* (gen counts replaces; a store through a replaced
                  \* element is dropped, since only a CPU that saw the
                  \* key absent replaces it and none deletes it, so a
                  \* replaced element is never linked again for it)
    nfsCache,     \* map nfs_file_cache: name -> entry
    fhToName,     \* map fh_to_name: handle -> name
    stats,        \* map nfs_stats, slots 0..2
    events,       \* map nfs_events (ring buffer)
    sockq,        \* datagrams queued on the UDP socket
    cpPc,         \* control-plane position
    cpStats,      \* user-space struct nfs_server_stats (counted fields)
    clk,          \* seconds since boot
    arrivals,     \* datagrams arrived so far
    handled       \* ghost: request -> kernel-processed, as handle_event got it

vars == <<lc, clientTrack, nfsCache, fhToName, stats, events, sockq, cpPc,
          cpStats, clk, arrivals, handled>>

Ring == INSTANCE RingBuf WITH rb <- events
HH   == INSTANCE HandleHash

(***************************************************************************)
(* Constants of the code.                                                  *)
(***************************************************************************)
NfsPort        == 2049                  \* NFS_PORT, compiled into the kernel
RpcHeaderSize  == 32                    \* sizeof(struct rpc_header)
MaxNfsDataSize == 8192                  \* MAX_NFS_DATA_SIZE
NULLproc == 0                           \* enum nfs_proc
GETATTR  == 1
READ     == 6
TestTxt  == <<116, 101, 115, 116, 46, 116, 120, 116>>   \* "test.txt"
TestTxtSize == 23                       \* "Hello from NFS server!\n"

\* generate_nfs_file_handle("test.txt"), as cache_file_in_kernel stores it.
TestTxtHandle == HH!Handle(TestTxt)

\* bpf_ktime_get_ns and time(NULL) * 1000000000, in seconds.
Ktime == clk
Wall  == BootWall + clk

\* current_time - cache_time > ttl in __u64.  When current_time is below
\* cache_time the difference wraps to 2^64 - (cache_time - current_time),
\* which exceeds any TTL because cache_time < 2^31 s < 2^64 ns - TTL.
Expired(now, cacheTime) ==
    IF now >= cacheTime THEN now - cacheTime > CacheTtlSeconds ELSE TRUE

(***************************************************************************)
(* Header walker and RPC envelope check.  A frame is                       *)
(* [trunc, l2, l3, dport, src, len, hdr, proc]; hdr = "call" when          *)
(* msg_type, rpc_version, program and version are CALL, 2, 100003 and 3.   *)
(***************************************************************************)
\* nfs_server_tc lines 569-611.
Recognized(f) ==
    /\ f.trunc = "none" /\ f.l2 = "ipv4" /\ f.l3 = "udp"
    /\ f.dport = NfsPort
    /\ f.len >= RpcHeaderSize
    /\ f.hdr = "call"

ToServer(f) ==
    /\ f.trunc = "none" /\ f.l2 = "ipv4" /\ f.l3 = "udp"
    /\ f.dport = ServerPort /\ f.len > 0
Deliver(f) == sockq' = IF ToServer(f) THEN Append(sockq, f) ELSE sockq

\* struct nfs_request and struct nfs_event as they are submitted.
ReqRec(l) == [kind |-> "req", inv |-> l.n, proc |-> l.f.proc,
              kernel |-> l.handled]
EvRec(l)  == [kind |-> "ev", inv |-> l.n, proc |-> l.f.proc,
              result |-> l.result, fwd |-> l.fwd, fromCache |-> l.fromCache]

Idle == [pc |-> "idle", f |-> CHOOSE f \in Frames : TRUE, n |-> 0,
         absent |-> FALSE, gen |-> 0, count |-> 0, handled |-> FALSE,
         result |-> "FORWARD", fwd |-> TRUE, fromCache |-> FALSE,
         eligible |-> FALSE]

Live(n) == n \in DOMAIN nfsCache /\ nfsCache[n].valid

\* update_nfs_stats: __sync_fetch_and_add(counter, 1) on an element of the stats
\* ARRAY map; the lookup of an index below max_entries always succeeds.
UpdateNfsStats(s, t) == [s EXCEPT ![t] = @ + 1]

Init ==
    /\ lc = [c \in CPUs |-> Idle]
    /\ clientTrack = <<>>
    /\ nfsCache = <<>>
    /\ fhToName = <<>>
    /\ stats = [i \in 0..2 |-> 0]
    /\ events = <<>>
    /\ sockq = <<>>
    /\ cpPc = "precache"
    /\ cpStats = [total |-> 0, kernel |-> 0, user |-> 0, hits |-> 0,
                  misses |-> 0]
    /\ clk = 0
    /\ arrivals = 0
    /\ handled = <<>>

(***************************************************************************)
(* nfs_server_tc, one step per shared access.                              *)
(***************************************************************************)
CpVars == <<nfsCache, fhToName, cpPc, cpStats, clk, handled>>

\* Lines 553-611: walk headers, check the RPC envelope.
Arrive(c, f) ==
    /\ lc[c].pc = "idle"
    /\ arrivals < MaxFrames
    /\ arrivals' = arrivals + 1
    /\ IF Recognized(f)
       THEN /\ lc' = [lc EXCEPT ![c] = [Idle EXCEPT !.pc = "track", !.f = f,
                                                    !.n = arrivals + 1]]
            /\ UNCHANGED sockq
       ELSE /\ Deliver(f)
            /\ UNCHANGED lc
    /\ UNCHANGED <<clientTrack, stats, events, CpVars>>

\* Line 617: look the client up; request_count is loaded for the ++.
TrackLookup(c) ==
    LET l == lc[c]
        a == l.f.src
    IN  /\ l.pc = "track"
        /\ lc' = [lc EXCEPT ![c] = [l EXCEPT !.pc = "touch",
                     !.absent = a \notin DOMAIN clientTrack,
                     !.gen = IF a \in DOMAIN clientTrack
                             THEN clientTrack[a].gen ELSE 0,
                     !.count = IF a \in DOMAIN clientTrack
                               THEN clientTrack[a].count ELSE 0]]
        /\ UNCHANGED <<clientTrack, stats, events, sockq, arrivals, CpVars>>

\* Lines 618-631: insert a fresh state (BPF_ANY replaces one another CPU
\* inserted meanwhile) and keep a pointer to the stack copy, or store the
\* incremented request_count into the element the lookup returned.
TrackTouch(c) ==
    LET l == lc[c]
        a == l.f.src
    IN  /\ l.pc = "touch"
        /\ IF l.absent
           THEN clientTrack' = a :> [gen |-> IF a \in DOMAIN clientTrack
                                             THEN clientTrack[a].gen + 1
                                             ELSE 1,
                                      count |-> 1, kernel |-> 0, user |-> 0]
                               @@ clientTrack
           ELSE clientTrack' =
                   IF a \in DOMAIN clientTrack /\ clientTrack[a].gen = l.gen
                   THEN [clientTrack EXCEPT ![a].count = l.count + 1]
                   ELSE clientTrack
        /\ lc' = [lc EXCEPT ![c].pc = "reserveReq"]
        /\ UNCHANGED <<stats, events, sockq, arrivals, CpVars>>

\* Lines 633-646: reserve the request record or return.
ReserveReq(c) ==
    /\ lc[c].pc = "reserveReq"
    /\ IF Ring!CanReserve
       THEN /\ Ring!Reserve(<<c, "req">>, ReqRec(lc[c]))
            /\ lc' = [lc EXCEPT ![c].pc = "reserveEv"]
            /\ UNCHANGED sockq
       ELSE /\ Deliver(lc[c].f)
            /\ lc' = [lc EXCEPT ![c] = Idle]
            /\ UNCHANGED events
    /\ UNCHANGED <<clientTrack, stats, arrivals, CpVars>>

\* Mutant: the NULL check of the second bpf_ringbuf_reserve is missing.
ReserveEvUnchecked(c) ==
    /\ lc[c].pc = "reserveEv"
    /\ Ring!Reserve(<<c, "ev">>, EvRec(lc[c]))
    /\ lc' = [lc EXCEPT ![c].pc = "decide"]
    /\ UNCHANGED <<sockq, clientTrack, stats, arrivals, CpVars>>

\* Lines 648-665: reserve the operation record, or discard the request
\* record and return.
ReserveEv(c) ==
    /\ lc[c].pc = "reserveEv"
    /\ IF Ring!CanReserve
       THEN /\ Ring!Reserve(<<c, "ev">>, EvRec(lc[c]))
            /\ lc' = [lc EXCEPT ![c].pc = "decide"]
            /\ UNCHANGED sockq
       ELSE /\ Ring!Discard(<<c, "req">>)
            /\ Deliver(lc[c].f)
            /\ lc' = [lc EXCEPT ![c] = Idle]
    /\ UNCHANGED <<clientTrack, stats, arrivals, CpVars>>

\* handle_nfs_getattr, lines 445-495: resolve the handle, look the entry
\* up, check the TTL, count the hit.  The outcome as
\* [handled, fromCache, hit]: hit names the entry whose cache_hits grows.
GetattrOutcome ==
    IF ReqHandle \notin DOMAIN fhToName THEN [handled |-> FALSE, hit |-> {}]
    ELSE LET n == fhToName[ReqHandle] IN
         IF ~Live(n) \/ Expired(Ktime, nfsCache[n].cacheTime)
         THEN [handled |-> FALSE, hit |-> {}]
         ELSE [handled |-> TRUE, hit |-> {n}]

\* handle_nfs_read, lines 498-550: as GETATTR without the TTL check, with
\* the data_valid flag and the byte range (offset and count are 0: the
\* request record is never filled from the wire).
ReadOutcome ==
    IF ReqHandle \notin DOMAIN fhToName THEN [handled |-> FALSE, hit |-> {}]
    ELSE LET n == fhToName[ReqHandle] IN
         IF ~Live(n) \/ ~nfsCache[n].dataValid
            \/ 0 >= nfsCache[n].size \/ 0 > MaxNfsDataSize
            \/ 0 + 0 > nfsCache[n].size
         THEN [handled |-> FALSE, hit |-> {}]
         ELSE [handled |-> TRUE, hit |-> {n}]

\* The entry a request for test.txt could be answered from: both map
\* updates of cache_file_in_kernel done, live and, by wall time, younger
\* than the TTL.
FreshInCache ==
    /\ cpPc \notin {"precache", "precacheFh"}
    /\ Live(TestTxt) /\ Wall - nfsCache[TestTxt].cacheTime <= CacheTtlSeconds

\* Mutant: the NULL case does not count nfs_stats[1].
DecideNullUncounted(c) ==
    LET l == lc[c]
        p == l.f.proc
        o == CASE ~EnableKernelProcessing -> [handled |-> FALSE, hit |-> {}]
               [] p = NULLproc -> [handled |-> TRUE, hit |-> {}]
               [] p = GETATTR  -> GetattrOutcome
               [] p = READ     -> ReadOutcome
               [] OTHER        -> [handled |-> FALSE, hit |-> {}]
    IN  /\ l.pc = "decide"
        /\ lc' = [lc EXCEPT ![c] = [l EXCEPT !.pc = "account",
                     !.handled = o.handled,
                     !.result = IF o.handled THEN "SUCCESS" ELSE "FORWARD",
                     !.fwd = ~o.handled, !.fromCache = o.hit # {},
                     !.eligible = FreshInCache]]
        /\ nfsCache' = [n \in DOMAIN nfsCache |->
                          IF n \in o.hit
                          THEN [nfsCache[n] EXCEPT !.hits = @ + 1]
                          ELSE nfsCache[n]]
        /\ stats' = IF o.handled /\ p # NULLproc
                    THEN UpdateNfsStats(stats, 1) ELSE stats
        /\ UNCHANGED <<clientTrack, events, sockq, arrivals, fhToName, cpPc,
                       cpStats, clk, handled>>

\* Lines 667-689: the switch on the procedure.  A kernel-handled request
\* counts nfs_stats[1] here, before nfs_stats[0] is counted.
Decide(c) ==
    LET l == lc[c]
        p == l.f.proc
        o == CASE ~EnableKernelProcessing -> [handled |-> FALSE, hit |-> {}]
               [] p = NULLproc -> [handled |-> TRUE, hit |-> {}]
               [] p = GETATTR  -> GetattrOutcome
               [] p = READ     -> ReadOutcome
               [] OTHER        -> [handled |-> FALSE, hit |-> {}]
    IN  /\ l.pc = "decide"
        /\ lc' = [lc EXCEPT ![c] = [l EXCEPT !.pc = "account",
                     !.handled = o.handled,
                     !.result = IF o.handled THEN "SUCCESS" ELSE "FORWARD",
                     !.fwd = ~o.handled, !.fromCache = o.hit # {},
                     !.eligible = FreshInCache]]
        /\ nfsCache' = [n \in DOMAIN nfsCache |->
                          IF n \in o.hit
                          THEN [nfsCache[n] EXCEPT !.hits = @ + 1]
                          ELSE nfsCache[n]]
        /\ stats' = IF o.handled THEN UpdateNfsStats(stats, 1) ELSE stats
        /\ UNCHANGED <<clientTrack, events, sockq, arrivals, fhToName, cpPc,
                       cpStats, clk, handled>>

\* Lines 691-697: count the request, then load the class counter
\* (kernel_processed or user_forwarded) through client_state: the stack
\* copy when the client was new, else the element the lookup returned.
Account(c) ==
    LET l == lc[c]
        a == l.f.src
        fld == IF l.handled THEN "kernel" ELSE "user"
    IN  /\ l.pc = "account"
        /\ stats' = UpdateNfsStats(stats, 0)
        /\ lc' = [lc EXCEPT ![c] = [l EXCEPT !.pc = "store",
                     !.count = IF ~l.absent /\ a \in DOMAIN clientTrack
                                  /\ clientTrack[a].gen = l.gen
                               THEN clientTrack[a][fld] ELSE 0]]
        /\ UNCHANGED <<clientTrack, events, sockq, arrivals, CpVars>>

\* Mutant: the forwarded slot is not counted.
AccountStoreNoForward(c) ==
    LET l == lc[c]
        a == l.f.src
        fld == IF l.handled THEN "kernel" ELSE "user"
    IN  /\ l.pc = "store"
        /\ clientTrack' =
              IF ~l.absent /\ a \in DOMAIN clientTrack
                 /\ clientTrack[a].gen = l.gen
              THEN [clientTrack EXCEPT ![a][fld] = l.count + 1]
              ELSE clientTrack
        /\ UNCHANGED stats
        /\ Ring!SubmitEach(<<c, "req">> :> ReqRec(l) @@ <<c, "ev">> :> EvRec(l))
        /\ Deliver(l.f)
        /\ lc' = [lc EXCEPT ![c] = Idle]
        /\ UNCHANGED <<nfsCache, fhToName, arrivals, cpPc, cpStats, clk, handled>>

\* Lines 695-705: store the incremented class counter into the element it
\* was loaded from (a replaced element, or the stack copy, keeps it), count
\* a forwarded request, submit both records, return TC_ACT_OK.
AccountStore(c) ==
    LET l == lc[c]
        a == l.f.src
        fld == IF l.handled THEN "kernel" ELSE "user"
    IN  /\ l.pc = "store"
        /\ clientTrack' =
              IF ~l.absent /\ a \in DOMAIN clientTrack
                 /\ clientTrack[a].gen = l.gen
              THEN [clientTrack EXCEPT ![a][fld] = l.count + 1]
              ELSE clientTrack
        /\ stats' = IF l.handled THEN stats ELSE UpdateNfsStats(stats, 2)
        /\ Ring!SubmitEach(<<c, "req">> :> ReqRec(l) @@ <<c, "ev">> :> EvRec(l))
        /\ Deliver(l.f)
        /\ lc' = [lc EXCEPT ![c] = Idle]
        /\ UNCHANGED <<nfsCache, fhToName, arrivals, cpPc, cpStats, clk, handled>>

(***************************************************************************)
(* The control plane: main() after the TC attach.                          *)
(***************************************************************************)
\* cache_file_in_kernel("test.txt"), first map update: the entry, with
\* cache_time from the wall clock.  Skipped when -n cleared the flag.
Precache ==
    /\ cpPc = "precache"
    /\ IF EnableKernelCache
       THEN /\ nfsCache' = TestTxt :> [valid |-> TRUE, dataValid |-> TRUE,
                                       size |-> TestTxtSize,
                                       cacheTime |-> Wall, hits |-> 0]
                           @@ nfsCache
            /\ cpPc' = "precacheFh"
       ELSE /\ cpPc' = "poll"
            /\ UNCHANGED nfsCache
    /\ UNCHANGED <<lc, clientTrack, fhToName, stats, events, sockq, cpStats,
                   clk, arrivals, handled>>

\* The second map update of cache_file_in_kernel: fh_to_name.
PrecacheFh ==
    /\ cpPc = "precacheFh"
    /\ fhToName' = TestTxtHandle :> TestTxt @@ fhToName
    /\ cpPc' = "poll"
    /\ UNCHANGED <<lc, clientTrack, nfsCache, stats, events, sockq, cpStats,
                   clk, arrivals, handled>>

\* handle_event's kernel_processed test on an operation record.
KernelProcessed(r) == r.result = "SUCCESS" /\ ~r.fwd

\* Mutant: the consumer position is not advanced past the records
\* handle_event was given.
PollNoConsume ==
    /\ cpPc = "poll"
    /\ LET evs == SelectSeq(Ring!Ready, LAMBDA r : r.kind = "ev")
           Count(P(_)) == Len(SelectSeq(evs, P))
       IN  /\ cpStats' = [cpStats EXCEPT
                 !.hits   = @ + Count(LAMBDA r : r.fromCache),
                 !.misses = @ + Count(LAMBDA r : ~r.fromCache /\ r.fwd),
                 !.kernel = @ + Count(LAMBDA r : KernelProcessed(r))]
           /\ handled' = handled @@ [i \in {evs[j].inv : j \in DOMAIN evs} |->
                     KernelProcessed(evs[CHOOSE j \in DOMAIN evs : evs[j].inv = i])]
    /\ cpPc' = "select"
    /\ UNCHANGED <<lc, clientTrack, nfsCache, fhToName, stats, events, sockq,
                   clk, arrivals>>

\* ring_buffer__poll(rb, 100) with handle_event on every ready record:
\* operation records count cache hits, misses and kernel-processed ones.
Poll ==
    /\ cpPc = "poll"
    /\ LET evs == SelectSeq(Ring!Ready, LAMBDA r : r.kind = "ev")
           Count(P(_)) == Len(SelectSeq(evs, P))
       IN  /\ cpStats' = [cpStats EXCEPT
                 !.hits   = @ + Count(LAMBDA r : r.fromCache),
                 !.misses = @ + Count(LAMBDA r : ~r.fromCache /\ r.fwd),
                 !.kernel = @ + Count(LAMBDA r : KernelProcessed(r))]
           /\ handled' = handled @@ [i \in {evs[j].inv : j \in DOMAIN evs} |->
                     KernelProcessed(evs[CHOOSE j \in DOMAIN evs : evs[j].inv = i])]
    /\ Ring!Drain
    /\ cpPc' = "select"
    /\ UNCHANGED <<lc, clientTrack, nfsCache, fhToName, stats, sockq, clk,
                   arrivals>>

\* handle_nfs_getattr and handle_nfs_read both answer for test.txt, which
\* main() wrote before attaching and nothing removes: stat, open and read
\* succeed, so each counts user_processed.  The XDR reply is I/O.
UserProcessed(proc) == proc \in {GETATTR, READ}

\* select() reports a datagram: recvfrom + process_nfs_request.  GETATTR
\* and READ are answered for test.txt, which main() created.
Recv ==
    /\ cpPc = "select"
    /\ sockq # <<>>
    /\ LET d == Head(sockq) IN
       cpStats' = IF d.len >= 24 /\ d.hdr = "call"
                  THEN [cpStats EXCEPT !.total = @ + 1,
                          !.user = IF UserProcessed(d.proc) THEN @ + 1 ELSE @]
                  ELSE cpStats
    /\ sockq' = Tail(sockq)
    /\ cpPc' = "poll"
    /\ UNCHANGED <<lc, clientTrack, nfsCache, fhToName, stats, events, clk,
                   arrivals, handled>>

\* Mutant: select's result is tested as activity > 1, so a round with the
\* one ready socket is taken as a timeout.
SelectTimeoutAlways ==
    /\ cpPc = "select"
    /\ cpPc' = "poll"
    /\ UNCHANGED <<lc, clientTrack, nfsCache, fhToName, stats, events, sockq,
                   cpStats, clk, arrivals, handled>>

\* select() times out after 100 ms.
SelectTimeout ==
    /\ cpPc = "select"
    /\ sockq = <<>>
    /\ cpPc' = "poll"
    /\ UNCHANGED <<lc, clientTrack, nfsCache, fhToName, stats, events, sockq,
                   cpStats, clk, arrivals, handled>>

\* A second of uptime passes; both clocks advance.
Tick ==
    /\ clk < MaxTicks
    /\ clk' = clk + 1
    /\ UNCHANGED <<lc, clientTrack, nfsCache, fhToName, stats, events, sockq,
                   cpPc, cpStats, arrivals, handled>>

CpuStep(c) ==
    \/ TrackLookup(c) \/ TrackTouch(c) \/ ReserveReq(c) \/ ReserveEv(c)
    \/ Decide(c) \/ Account(c) \/ AccountStore(c)

ControlPlane == Precache \/ PrecacheFh \/ Poll \/ Recv \/ SelectTimeout

Next ==
    \/ \E c \in CPUs, f \in Frames : Arrive(c, f)
    \/ \E c \in CPUs : CpuStep(c)
    \/ ControlPlane
    \/ Tick

\* An invocation of the TC program never blocks and runs to its return;
\* ring_buffer__poll and select both return within 100 ms, so the loop of
\* main() keeps turning.  Datagrams and time need not come.
Fairness == (\A c \in CPUs : WF_vars(CpuStep(c))) /\ WF_vars(ControlPlane)

Spec == Init /\ [][Next]_vars /\ Fairness

(***************************************************************************)
(* Properties.                                                             *)
(***************************************************************************)
TypeOK ==
    /\ \A c \in CPUs : lc[c].pc \in {"idle", "track", "touch", "reserveReq",
                                     "reserveEv", "decide", "account",
                                     "store"}
    /\ DOMAIN clientTrack \subseteq Clients
    /\ stats \in [0..2 -> Nat]
    /\ Ring!TypeOK
    /\ cpPc \in {"precache", "precacheFh", "poll", "select"}

\* Every invocation that got both records reserved ends in exactly one of
\* the kernel-processed (nfs_stats[1]) and forwarded (nfs_stats[2]) slots,
\* and counts itself in the total (nfs_stats[0]); an invocation that
\* returns early on a full ring counts nothing.  So whenever no invocation
\* is running the two slots add up to the total.
DecisionsCounted ==
    (\A c \in CPUs : lc[c].pc = "idle") => stats[1] + stats[2] = stats[0]

\* The control plane's kernel_processed, counted from operation records
\* with result SUCCESS and forwarded_to_user clear, never exceeds the
\* kernel's own kernel-processed slot.
KernelReportBounded == cpStats.kernel <= stats[1]

\* Refinement of RequestLog: a request is decided once its CPU reaches
\* "account" (and stays so through "store"); its kernel-processed flag then lives in the CPU's locals, in
\* its committed operation record, and in what handle_event got.
Deciding  == {c \in CPUs : lc[c].pc \in {"account", "store"}}
Submitted == {j \in 1..Len(events) : events[j].id[2] = "ev"
                                   /\ events[j].st = "committed"}
DecidedReqs ==
    [i \in DOMAIN handled \cup {lc[c].n : c \in Deciding}
                         \cup {events[j].rec.inv : j \in Submitted} |->
        CASE i \in DOMAIN handled -> handled[i]
          [] \E c \in Deciding : lc[c].n = i ->
                lc[CHOOSE c \in Deciding : lc[c].n = i].handled
          [] OTHER ->
                KernelProcessed(events[CHOOSE j \in Submitted :
                                          events[j].rec.inv = i].rec)]

Log == INSTANCE RequestLog WITH Reqs <- 1..MaxFrames, dec <- DecidedReqs,
                                rep <- DOMAIN handled, ukernel <- cpStats.kernel

\* nfs_server_tc with main()'s loop implements RequestLog: an operation's
\* kernel-processed outcome never changes once decided, handle_event gets
\* each operation record once, its kernel_processed grows by exactly the
\* kernel-processed ones, and every decided operation eventually reaches
\* it although each invocation holds two records busy across its switch.
NfsLogRefined == Log!Refined

\* main()'s loop blocks up to 100 ms in ring_buffer__poll and up to 100 ms
\* in select before each recvfrom: a datagram waiting on the server socket
\* is eventually received, however rounds that only poll the ring or time
\* out interleave with it.
SocketDrained == sockq # <<>> ~> sockq = <<>>

(***************************************************************************)
(* Properties the code violates (see README).                              *)
(***************************************************************************)
\* spec.md 8: the kernel-served and forwarded counts never exceed the total
\* of recognized requests, also while invocations are running.
StatsConservative == stats[1] + stats[2] <= stats[0]

\* spec.md 2 and 3: the per-class counters of a client are updated on
\* every recognized request, so once no invocation is running a client's
\* kernel-processed and forwarded counts add up to its request count.
ClientClassesAddUp ==
    (\A c \in CPUs : lc[c].pc = "idle")
        => \A a \in DOMAIN clientTrack :
              clientTrack[a].kernel + clientTrack[a].user
                  = clientTrack[a].count

\* spec.md 8: once the control plane has refreshed the entry of a file,
\* an attribute request for it is kernel-served while the entry is within
\* its TTL (the control plane answers every GETATTR for test.txt).
RefreshedIsServed ==
    \A c \in CPUs : lc[c].pc = "account" /\ lc[c].f.proc = GETATTR
                    /\ lc[c].eligible => lc[c].handled
=============================================================================
