----------------------------- MODULE HttpEngine -----------------------------
(***************************************************************************)
(* The file-fetch variant: the TC ingress program fileserver_ingress       *)
(* (src/src/fileserver.bpf.c) running concurrently on several CPUs, and    *)
(* the user-space control plane of the `fileserver` binary                 *)
(* (src/unnamed/part_001) that drains the ring buffer and serves the HTTP  *)
(* socket.  Shared state: the maps file_cache, conn_track, stats and       *)
(* events.                                                                 *)
(*                                                                         *)
(* Every invocation of the TC program always returns TC_ACT_OK: the frame  *)
(* always continues to the network stack and, when it is addressed to the *)
(* server port, to the control plane's socket.  "Kernel processed" is only *)
(* accounting.  An invocation is split into steps at its accesses to       *)
(* shared maps; everything between two such accesses is one step.          *)
(***************************************************************************)
EXTENDS Naturals, Sequences, FiniteSets, SequencesExt

CONSTANTS
    CPUs,                    \* CPUs that run the TC program in parallel
    Clients,                 \* client IPv4 source addresses
    Frames,                  \* frames that may arrive (see Frame below)
    ServerPort,              \* env.server_port (-p), default 8080
    FileNames,               \* names under env.document_root
    Disk0,                   \* initial size of each file, or NoFile
    Sizes,                   \* sizes a file may be changed to
    NoFile,                  \* stat() fails
    RingCap,                 \* records the `events` ring buffer holds
    ConnTrackCap,            \* max_entries of conn_track (4096)
    EnableKernelProcessing,  \* const volatile enable_kernel_processing
    EnableKernelCache,       \* env.enable_kernel_cache (cleared by -n)
    MaxFrames,               \* bound: frames that arrive in a behaviour
    MaxFileChanges,          \* bound: changes made to the document root
    MaxTicks,                \* bound: seconds of uptime that pass
    CacheTtlSeconds          \* the TTL spec.md 3 and 8 give cache entries

ASSUME Disk0 \in [FileNames -> Nat \cup {NoFile}]
ASSUME EnableKernelProcessing \in BOOLEAN /\ EnableKernelCache \in BOOLEAN

VARIABLES
    lc,          \* per-CPU locals of the running fileserver_ingress
    fileCache,   \* map file_cache: key -> the preallocated element holding it
    elem,        \* element -> [size, data, valid, hits, at] (data: bytes
                 \* read into cached_data; at: ghost, the uptime it was
                 \* stored at)
    spare,       \* the element the next replace of an existing key writes
    connTrack,   \* map conn_track: the client addresses it holds
    stats,       \* map stats, slots 0..3
    events,      \* map events (ring buffer)
    sockq,       \* payloads queued on the listening socket
    cpPc,        \* control-plane loop position (select, poll, accept)
    cpStats,     \* user-space struct server_stats (counted fields)
    disk,        \* sizes of the files under the document root
    arrivals,    \* frames arrived so far (each frame is numbered)
    changes,     \* document-root changes so far
    cpReq,       \* control-plane locals of the request being served
    clk,         \* seconds of uptime
    served,      \* ghost: element -> kernel hits decided on it since stored
    handled      \* ghost: request -> processed_in_kernel, as handle_event got it

vars == <<lc, fileCache, elem, spare, connTrack, stats, events, sockq, cpPc, cpStats,
          cpReq, clk, disk, arrivals, changes, served, handled>>

Ring == INSTANCE RingBuf WITH rb <- events

(***************************************************************************)
(* Constants of the code.                                                  *)
(***************************************************************************)
HttpPorts     == {80, 8080}
MaxPacketSize == 1024                \* MAX_PACKET_SIZE, cacheable size
ScanEnd       == 13                  \* extract_filename: i < 13, 8 bytes
IndexHtml     == <<"i","n","d","e","x",".","h","t","m","l">>
StopChars     == {" ", "?", "\r", "\n"}
WhiteSpace    == {" ", "\r", "\n"}

(***************************************************************************)
(* Header walker and request extractor: pure functions of the frame.  A    *)
(* frame is [trunc, l2, l3, dport, src, payload]; trunc names the first    *)
(* header that does not fit before data_end ("none" if all fit).           *)
(***************************************************************************)
\* parse_http_method: fixed-offset comparisons, first match wins.
HttpMethod(p) ==
    CASE IsPrefix(<<"G","E","T">>, p)         -> "GET"
      [] IsPrefix(<<"P","O","S","T">>, p)     -> "POST"
      [] IsPrefix(<<"P","U","T">>, p)         -> "PUT"
      [] IsPrefix(<<"D","E","L","E","T","E">>, p) -> "DELETE"
      [] OTHER                                -> "UNKNOWN"

\* fileserver_ingress lines 163-198: the frame reaches the decision.
Recognized(f) ==
    /\ f.trunc = "none"
    /\ f.l2 = "ipv4"
    /\ f.l3 = "tcp"
    /\ f.dport \in HttpPorts
    /\ Len(f.payload) >= 4
    /\ HttpMethod(f.payload) # "UNKNOWN"

\* extract_filename: after "GET /", bytes 5..12 up to a stop character.
ExtractFilename(p) ==
    IF IsPrefix(<<"G","E","T"," ","/">>, p)
    THEN LET w == SubSeq(p, 6, IF Len(p) < ScanEnd THEN Len(p) ELSE ScanEnd)
             i == SelectInSeq(w, LAMBDA ch : ch \in StopChars)
         IN  IF i = 0 THEN w ELSE SubSeq(w, 1, i - 1)
    ELSE <<>>

\* The file_cache key the kernel looks up: index.html when nothing extracted.
KernelKey(p) == IF ExtractFilename(p) = <<>> THEN IndexHtml
                ELSE ExtractFilename(p)

\* check_file_exists: the name starts with "ind", "sta" or "tes".
CheckFileExists(k) ==
    \E pre \in {<<"i","n","d">>, <<"s","t","a">>, <<"t","e","s">>} :
        IsPrefix(pre, k)

(***************************************************************************)
(* The control plane's own parsing (handle_http_request, serve_file).      *)
(***************************************************************************)
RECURSIVE Words(_)

\* The whitespace-separated tokens sscanf("%s %s %s") reads.
Words(s) ==
    IF s = <<>> THEN <<>>
    ELSE LET i == SelectInSeq(s, LAMBDA ch : ch \in WhiteSpace)
         IN  CASE i = 0 -> <<s>>
               [] i = 1 -> Words(Tail(s))
               [] OTHER -> <<SubSeq(s, 1, i - 1)>>
                           \o Words(SubSeq(s, i + 1, Len(s)))

BadRequest(p) == Len(Words(p)) < 3

\* handle_http_request: "/" is index.html, otherwise the path minus its
\* first character.
UserFilename(p) == IF Words(p)[2] = <<"/">> THEN IndexHtml
                   ELSE Tail(Words(p)[2])

\* The parse of every payload a frame may carry, computed once.
Payloads == {f.payload : f \in Frames}
Parse == [p \in Payloads |->
            IF BadRequest(p) THEN [bad |-> TRUE, get |-> FALSE, name |-> <<>>]
            ELSE [bad |-> FALSE, get |-> Words(p)[1] = <<"G","E","T">>,
                  name |-> UserFilename(p)]]

\* strstr(filename, "..") || strstr(filename, "//") in serve_file.
Forbidden(n) ==
    \E i \in 1..(Len(n) - 1) : <<n[i], n[i+1]>> \in {<<".",".">>, <<"/","/">>}

FileSize(n) == IF n \in FileNames THEN disk[n] ELSE NoFile

\* The frame is handed to the stack; TCP delivers it to the server socket.
ToServer(f) ==
    /\ f.trunc = "none" /\ f.l2 = "ipv4" /\ f.l3 = "tcp"
    /\ f.dport = ServerPort /\ Len(f.payload) > 0
Deliver(f) == sockq' = IF ToServer(f) THEN Append(sockq, f.payload) ELSE sockq

(***************************************************************************)
(* Records written to the ring buffer.                                     *)
(***************************************************************************)
\* struct http_request, as submitted at the end of the handler.
ReqRec(l) == [kind |-> "req", inv |-> l.n, method |-> l.method,
              key |-> l.key, kernel |-> l.kernel]

\* struct file_event.
FileRec(l, op, size) == [kind |-> "file", inv |-> l.n, op |-> op,
                         key |-> l.key, size |-> size]

\* reserve + fill + submit of a file_event; dropped when the ring is full.
EmitFile(c, r) == IF Ring!CanReserve THEN Ring!Emit(<<c, "file">>, r)
                  ELSE UNCHANGED events

(***************************************************************************)
(* file_cache is a preallocated BPF hash map (no BPF_F_NO_PREALLOC): its   *)
(* values live in a fixed pool of elements.  A lookup returns a pointer to *)
(* an element.  bpf_map_update_elem of a new key takes a free element; of  *)
(* an existing key it writes the new value into the updating CPU's extra   *)
(* element, links that one, and keeps the old element as the extra for    *)
(* the next replace.  A CPU still holding the old pointer keeps accessing  *)
(* it after it is unlinked and after it is reused.  One element per file   *)
(* name and one extra suffice: the control plane is the only writer.       *)
(***************************************************************************)
Elems == 0..Cardinality(FileNames)

Idle == [pc |-> "idle", f |-> CHOOSE f \in Frames : TRUE, n |-> 0,
         method |-> "UNKNOWN", key |-> <<>>, elem |-> 0, hits |-> 0,
         kernel |-> FALSE, userCached |-> FALSE]

Live(k) == k \in DOMAIN fileCache /\ elem[fileCache[k]].valid

\* update_stats: __sync_fetch_and_add(counter, 1) on an element of the stats
\* ARRAY map; the lookup of an index below max_entries always succeeds.
UpdateStats(s, t) == [s EXCEPT ![t] = @ + 1]

Init ==
    /\ lc = [c \in CPUs |-> Idle]
    /\ fileCache = <<>>
    /\ elem = [e \in Elems |-> [size |-> 0, data |-> 0, valid |-> FALSE,
                                hits |-> 0, at |-> 0]]
    /\ spare = 0
    /\ connTrack = {}
    /\ stats = [i \in 0..3 |-> 0]
    /\ events = <<>>
    /\ sockq = <<>>
    /\ cpPc = "select"
    /\ cpStats = [total |-> 0, kernel |-> 0, user |-> 0, notFound |-> 0,
                  errors |-> 0]
    /\ cpReq = [name |-> <<>>, st |-> 0]
    /\ clk = 0
    /\ disk = Disk0
    /\ arrivals = 0
    /\ changes = 0
    /\ served = [e \in Elems |-> 0]
    /\ handled = <<>>

(***************************************************************************)
(* fileserver_ingress, one step per shared access.                         *)
(***************************************************************************)
CpuVars == <<fileCache, elem, spare, connTrack, stats, events, sockq, served>>
EnvVars == <<cpPc, cpStats, cpReq, disk, changes, handled, clk>>

\* Mutant: the total-requests slot is not counted.
ArriveNoTotal(c, f) ==
    /\ lc[c].pc = "idle"
    /\ arrivals < MaxFrames
    /\ arrivals' = arrivals + 1
    /\ IF Recognized(f)
       THEN /\ lc' = [lc EXCEPT ![c] = [Idle EXCEPT !.pc = "reserve", !.f = f,
                          !.n = arrivals + 1, !.method = HttpMethod(f.payload),
                          !.key = KernelKey(f.payload)]]
            /\ UNCHANGED <<sockq, stats>>
       ELSE /\ Deliver(f)
            /\ UNCHANGED <<lc, stats>>
    /\ UNCHANGED <<fileCache, elem, spare, connTrack, events, served, EnvVars>>

\* Lines 163-211: walk headers, parse the method and name, count the request.
Arrive(c, f) ==
    /\ lc[c].pc = "idle"
    /\ arrivals < MaxFrames
    /\ arrivals' = arrivals + 1
    /\ IF Recognized(f)
       THEN /\ lc' = [lc EXCEPT ![c] = [Idle EXCEPT !.pc = "reserve", !.f = f,
                          !.n = arrivals + 1, !.method = HttpMethod(f.payload),
                          !.key = KernelKey(f.payload)]]
            /\ stats' = UpdateStats(stats, 0)
            /\ UNCHANGED <<sockq>>
       ELSE /\ Deliver(f)
            /\ UNCHANGED <<lc, stats>>
    /\ UNCHANGED <<fileCache, elem, spare, connTrack, events, served, EnvVars>>

\* Lines 213-224: reserve the request record, or return when the ring is full.
ReserveReq(c) ==
    /\ lc[c].pc = "reserve"
    /\ IF Ring!CanReserve
       THEN /\ Ring!Reserve(<<c, "req">>, ReqRec(lc[c]))
            /\ lc' = [lc EXCEPT ![c].pc = "decide"]
            /\ UNCHANGED sockq
       ELSE /\ Deliver(lc[c].f)
            /\ lc' = [lc EXCEPT ![c] = Idle]
            /\ UNCHANGED events
    /\ UNCHANGED <<fileCache, elem, spare, connTrack, stats, served, arrivals, EnvVars>>

KernelPath(l) == EnableKernelProcessing /\ l.method = "GET"

\* Lines 230-235: cache hit; the lookup's element pointer is kept and its
\* hit count is loaded for the ++.
DecideHit(c) ==
    LET l == lc[c]
        e == fileCache[l.key]
    IN
    /\ l.pc = "decide"
    /\ KernelPath(l) /\ CheckFileExists(l.key) /\ Live(l.key)
    /\ lc' = [lc EXCEPT ![c] = [l EXCEPT !.pc = "hit", !.kernel = TRUE,
                 !.elem = e, !.hits = elem[e].hits,
                 !.userCached = Live(Parse[l.f.payload].name)]]
    /\ served' = [served EXCEPT ![e] = @ + 1]
    /\ UNCHANGED <<fileCache, elem, spare, connTrack, stats, events, sockq, arrivals, EnvVars>>

\* Mutant: processed_in_kernel is set on the miss path too.
DecideMissFlagged(c) ==
    LET l == lc[c] IN
    /\ l.pc = "decide"
    /\ KernelPath(l) /\ CheckFileExists(l.key) /\ ~Live(l.key)
    /\ stats' = UpdateStats(stats, 2)
    /\ EmitFile(c, FileRec(l, "FORWARD_TO_USER", 0))
    /\ lc' = [lc EXCEPT ![c] = [l EXCEPT !.pc = "finish", !.kernel = TRUE,
                 !.userCached = Live(Parse[l.f.payload].name)]]
    /\ UNCHANGED <<fileCache, elem, spare, connTrack, sockq, served, arrivals, EnvVars>>

\* Lines 250-266: the file exists but is not cached: forward.
DecideMiss(c) ==
    LET l == lc[c] IN
    /\ l.pc = "decide"
    /\ KernelPath(l) /\ CheckFileExists(l.key) /\ ~Live(l.key)
    /\ stats' = UpdateStats(stats, 2)
    /\ EmitFile(c, FileRec(l, "FORWARD_TO_USER", 0))
    /\ lc' = [lc EXCEPT ![c] = [l EXCEPT !.pc = "finish",
                 !.userCached = Live(Parse[l.f.payload].name)]]
    /\ UNCHANGED <<fileCache, elem, spare, connTrack, sockq, served, arrivals, EnvVars>>

\* Lines 267-281: the name fails the existence heuristic.
DecideNotFound(c) ==
    LET l == lc[c] IN
    /\ l.pc = "decide"
    /\ KernelPath(l) /\ ~CheckFileExists(l.key)
    /\ EmitFile(c, FileRec(l, "NOT_FOUND", 0))
    /\ stats' = UpdateStats(stats, 3)
    /\ lc' = [lc EXCEPT ![c] = [l EXCEPT !.pc = "finish",
                 !.userCached = Live(Parse[l.f.payload].name)]]
    /\ UNCHANGED <<fileCache, elem, spare, connTrack, sockq, served, arrivals, EnvVars>>

\* Lines 282-285: not GET, or kernel processing disabled: forward.
DecideForward(c) ==
    LET l == lc[c] IN
    /\ l.pc = "decide"
    /\ ~KernelPath(l)
    /\ stats' = UpdateStats(stats, 2)
    /\ lc' = [lc EXCEPT ![c].pc = "finish"]
    /\ UNCHANGED <<fileCache, elem, spare, connTrack, events, sockq, served, arrivals, EnvVars>>

\* Lines 235-249: store the incremented hit count through the pointer the
\* lookup returned, whatever the element holds by now; count the kernel
\* hit; emit the SUCCESS file event with the element's file_size, read
\* through the same pointer (line 246).
StoreHit(c) ==
    LET l == lc[c] IN
    /\ l.pc = "hit"
    /\ elem' = [elem EXCEPT ![l.elem].hits = l.hits + 1]
    /\ stats' = UpdateStats(stats, 1)
    /\ EmitFile(c, FileRec(l, "SUCCESS", elem[l.elem].size))
    /\ lc' = [lc EXCEPT ![c].pc = "finish"]
    /\ UNCHANGED <<fileCache, spare, connTrack, sockq, served, arrivals, EnvVars>>

Finish(c) ==
    LET l == lc[c] IN
    /\ l.pc = "finish"
    /\ connTrack' = IF l.f.src \in connTrack \/ Cardinality(connTrack) < ConnTrackCap
                    THEN connTrack \cup {l.f.src} ELSE connTrack
    /\ Ring!Submit(<<c, "req">>, ReqRec(l))
    /\ Deliver(l.f)
    /\ lc' = [lc EXCEPT ![c] = Idle]
    /\ UNCHANGED <<fileCache, elem, spare, stats, served, arrivals, EnvVars>>

(***************************************************************************)
(* The control plane: run_http_server's loop.                              *)
(***************************************************************************)
\* Mutant: the loop tests a descriptor select() was not asked to watch, so
\* FD_ISSET never reports the listening socket.
SelectIgnoresSocket ==
    /\ cpPc = "select"
    /\ cpPc' = "poll"
    /\ UNCHANGED <<lc, fileCache, elem, spare, connTrack, stats, events, sockq, cpStats,
                   cpReq, disk, arrivals, changes, served, handled, clk>>

\* select() with a 100 ms timeout: returns at once when a connection is
\* pending, otherwise times out.  Either way the loop polls next.
Select ==
    /\ cpPc = "select"
    /\ cpPc' = IF sockq # <<>> THEN "pollAccept" ELSE "poll"
    /\ UNCHANGED <<lc, fileCache, elem, spare, connTrack, stats, events, sockq, cpStats,
                   cpReq, disk, arrivals, changes, served, handled, clk>>

\* ring_buffer__poll(rb, 0) with handle_event on every ready record; then
\* accept if select reported activity.
Poll ==
    /\ cpPc \in {"poll", "pollAccept"}
    /\ LET batch == Ring!Ready
           reqs  == SelectSeq(batch, LAMBDA r : r.kind = "req")
       IN  /\ cpStats' = [cpStats EXCEPT !.kernel = @ +
                   Len(SelectSeq(reqs, LAMBDA r : r.kernel))]
           /\ handled' = handled @@ [i \in {reqs[j].inv : j \in DOMAIN reqs} |->
                              reqs[CHOOSE j \in DOMAIN reqs : reqs[j].inv = i].kernel]
    /\ Ring!Drain
    /\ cpPc' = IF cpPc = "pollAccept" THEN "accept" ELSE "select"
    /\ UNCHANGED <<lc, fileCache, elem, spare, connTrack, stats, sockq, cpReq, disk,
                   arrivals, changes, served, clk>>

\* open + read(fd, buf, st_size) of a file stat() reported st_size bytes
\* long: the bytes read, or -1 when the file has gone and open fails.  A
\* file that shrank since the stat returns fewer bytes; one that grew
\* returns st_size.
ReadBytes(n, st) ==
    IF FileSize(n) = NoFile THEN -1
    ELSE IF FileSize(n) < st THEN FileSize(n) ELSE st

\* Mutant: the st_size > MAX_PACKET_SIZE test is missing.
CacheStatUnbounded(n) == EnableKernelCache /\ FileSize(n) # NoFile

\* cache_file_in_kernel, lines 218-225: caching is enabled and stat()
\* finds a file of at most MAX_PACKET_SIZE bytes.
CacheStatOk(n) ==
    EnableKernelCache /\ FileSize(n) # NoFile /\ FileSize(n) <= MaxPacketSize

\* The element a store of key n writes: the extra element when n is in the
\* map, otherwise a free one.
FreeElems == Elems \ (Range(fileCache) \cup {spare})
Target(n) == IF n \in DOMAIN fileCache THEN spare ELSE CHOOSE e \in FreeElems : TRUE

\* cache_file_in_kernel, lines 226-248: when open succeeded and read
\* returned st_size bytes, bpf_map_update_elem(BPF_ANY) stores a fresh
\* value whose file_size is the stat size into Target(n) and links it; a
\* replaced element becomes the extra one.
CacheFileInKernel(n, st, got) ==
    IF got = st
    THEN /\ elem' = [elem EXCEPT ![Target(n)] = [size |-> st, data |-> got,
                         valid |-> TRUE, hits |-> 0, at |-> clk]]
         /\ fileCache' = n :> Target(n) @@ fileCache
         /\ spare' = IF n \in DOMAIN fileCache THEN fileCache[n] ELSE spare
         /\ served' = [served EXCEPT ![Target(n)] = 0]
    ELSE UNCHANGED <<fileCache, elem, spare, served>>

\* accept + recv + handle_http_request up to serve_file: a request sscanf
\* cannot split is answered 400 and not counted; a method other than GET
\* is answered 405 and counted; a GET goes through cache_file_in_kernel,
\* whose stat is taken here.
Serve ==
    /\ cpPc = "accept"
    /\ LET r == Parse[Head(sockq)] IN
       \/ /\ r.bad
          /\ cpPc' = "select"
          /\ UNCHANGED <<cpStats, cpReq>>
       \/ /\ ~r.bad /\ ~r.get
          /\ cpStats' = [cpStats EXCEPT !.total = @ + 1]
          /\ cpPc' = "select"
          /\ UNCHANGED cpReq
       \/ /\ ~r.bad /\ r.get
          /\ cpReq' = [name |-> r.name, st |-> FileSize(r.name)]
          /\ cpPc' = IF CacheStatOk(r.name) THEN "cacheRead" ELSE "serveStat"
          /\ UNCHANGED cpStats
    /\ sockq' = Tail(sockq)
    /\ UNCHANGED <<lc, fileCache, elem, spare, connTrack, stats, events, disk, arrivals,
                   changes, served, handled, clk>>

\* cache_file_in_kernel after its stat: open, read, update file_cache.
CacheRead ==
    /\ cpPc = "cacheRead"
    /\ CacheFileInKernel(cpReq.name, cpReq.st, ReadBytes(cpReq.name, cpReq.st))
    /\ cpPc' = "serveStat"
    /\ UNCHANGED <<lc, connTrack, stats, events, sockq, cpStats, cpReq, disk,
                   arrivals, changes, handled, clk>>

\* serve_file, lines 142-165: 403 for a name with ".." or "//", 404 and
\* file_not_found when stat() fails; otherwise the stat size is kept.  The
\* request is counted in total_requests when handle_http_request returns.
ServeStat ==
    /\ cpPc = "serveStat"
    /\ LET n == cpReq.name IN
       \/ /\ Forbidden(n)
          /\ cpStats' = [cpStats EXCEPT !.total = @ + 1]
          /\ cpPc' = "select"
          /\ UNCHANGED cpReq
       \/ /\ ~Forbidden(n) /\ FileSize(n) = NoFile
          /\ cpStats' = [cpStats EXCEPT !.notFound = @ + 1, !.total = @ + 1]
          /\ cpPc' = "select"
          /\ UNCHANGED cpReq
       \/ /\ ~Forbidden(n) /\ FileSize(n) # NoFile
          /\ cpReq' = [cpReq EXCEPT !.st = FileSize(n)]
          /\ cpPc' = "serveRead"
          /\ UNCHANGED cpStats
    /\ UNCHANGED <<lc, fileCache, elem, spare, connTrack, stats, events, sockq, disk,
                   arrivals, changes, served, handled, clk>>

\* serve_file, lines 167-212: open and read st_size bytes; a failed open or
\* a short read is a 500 and counts errors, a full read is sent and counts
\* user_processed.  malloc is taken to succeed.
ServeRead ==
    /\ cpPc = "serveRead"
    /\ cpStats' = IF ReadBytes(cpReq.name, cpReq.st) = cpReq.st
                  THEN [cpStats EXCEPT !.user = @ + 1, !.total = @ + 1]
                  ELSE [cpStats EXCEPT !.errors = @ + 1, !.total = @ + 1]
    /\ cpPc' = "select"
    /\ UNCHANGED <<lc, fileCache, elem, spare, connTrack, stats, events, sockq, cpReq, disk,
                   arrivals, changes, served, handled, clk>>

\* Another process writes, grows or removes a file in the document root.
ChangeFile ==
    /\ changes < MaxFileChanges
    /\ \E n \in FileNames, s \in Sizes \cup {NoFile} :
          /\ s # disk[n]
          /\ disk' = [disk EXCEPT ![n] = s]
    /\ changes' = changes + 1
    /\ UNCHANGED <<lc, fileCache, elem, spare, connTrack, stats, events, sockq, cpPc,
                   cpStats, cpReq, arrivals, served, handled, clk>>

\* A second of uptime passes.
Tick ==
    /\ clk < MaxTicks
    /\ clk' = clk + 1
    /\ UNCHANGED <<lc, fileCache, elem, spare, connTrack, stats, events, sockq, cpPc,
                   cpStats, cpReq, disk, arrivals, changes, served, handled>>

CpuStep(c) ==
    \/ ReserveReq(c) \/ DecideHit(c) \/ DecideMiss(c) \/ DecideNotFound(c)
    \/ DecideForward(c) \/ StoreHit(c) \/ Finish(c)

ControlPlane == Select \/ Poll \/ Serve \/ CacheRead \/ ServeStat \/ ServeRead

Next ==
    \/ \E c \in CPUs, f \in Frames : Arrive(c, f)
    \/ \E c \in CPUs : CpuStep(c)
    \/ ControlPlane
    \/ ChangeFile
    \/ Tick

\* A TC invocation never blocks and always runs to its return; the control
\* plane loops until it is signalled, which is not modelled.
Fairness == (\A c \in CPUs : WF_vars(CpuStep(c))) /\ WF_vars(ControlPlane)

Spec == Init /\ [][Next]_vars /\ Fairness

(***************************************************************************)
(* Properties.                                                             *)
(***************************************************************************)
\* Every variable holds a value of its type; file_cache links distinct
\* elements and never the extra one.
TypeOK ==
    /\ \A c \in CPUs : lc[c].pc \in {"idle", "reserve", "decide", "hit", "finish"}
    /\ \A e \in Elems : elem[e].size <= MaxPacketSize
    /\ fileCache \in [DOMAIN fileCache -> Elems] /\ IsInjective(fileCache)
    /\ spare \in Elems \ Range(fileCache)
    /\ connTrack \subseteq Clients
    /\ stats \in [0..3 -> Nat]
    /\ Ring!TypeOK
    /\ cpPc \in {"select", "poll", "pollAccept", "accept", "cacheRead",
                 "serveStat", "serveRead"}

\* Statistics are conservative (spec.md section 8): while invocations run
\* on several CPUs, the kernel-processed, forwarded and not-found slots of
\* the stats map never add up to more than the total-requests slot, because
\* fileserver_ingress counts the request before it decides.
StatsConservative == stats[1] + stats[2] + stats[3] <= stats[0]

\* The control plane's "Kernel Processed" (counted by handle_event from the
\* processed_in_kernel flag of request records) never exceeds the kernel's
\* own count of kernel-processed requests.
KernelReportBounded == cpStats.kernel <= stats[1]

(***************************************************************************)
(* Refinement of RequestLog.  A request is decided once its CPU has left   *)
(* "decide"; from then on its processed_in_kernel is in the CPU's locals,  *)
(* then in its committed record, then in what handle_event got.            *)
(***************************************************************************)
Deciding  == {c \in CPUs : lc[c].pc \in {"hit", "finish"}}
Submitted == {j \in 1..Len(events) : events[j].id[2] = "req"
                                   /\ events[j].st = "committed"}
DecidedReqs ==
    [i \in DOMAIN handled \cup {lc[c].n : c \in Deciding}
                         \cup {events[j].rec.inv : j \in Submitted} |->
        CASE i \in DOMAIN handled -> handled[i]
          [] \E c \in Deciding : lc[c].n = i ->
                lc[CHOOSE c \in Deciding : lc[c].n = i].kernel
          [] OTHER ->
                events[CHOOSE j \in Submitted : events[j].rec.inv = i].rec.kernel]

Log == INSTANCE RequestLog WITH Reqs <- 1..MaxFrames, dec <- DecidedReqs,
                                rep <- DOMAIN handled, ukernel <- cpStats.kernel

SocketDrained == sockq # <<>> ~> sockq = <<>>



(***************************************************************************)
(* Properties the code violates (see README).                              *)
(***************************************************************************)
\* spec.md 4.3/8: hit(entry) increments the hit counter atomically, so once
\* no CPU is between its load and store of the live element of a key,
\* cache_hits equals the number of kernel hits decided on it.
HitsExact ==
    \A k \in DOMAIN fileCache :
        (~\E c \in CPUs : lc[c].pc = "hit" /\ lc[c].elem = fileCache[k])
        => elem[fileCache[k]].hits = served[fileCache[k]]

\* A file_cache entry's cache_hits never exceeds the number of kernel hits
\* decided on its element since cache_file_in_kernel stored it: a hit
\* counted on an older value of the element does not carry over.
HitsNeverOvercount ==
    \A k \in DOMAIN fileCache : elem[fileCache[k]].hits <= served[fileCache[k]]

\* spec.md 8, example 1: a GET for a file the control plane has stored in
\* the cache is kernel-served.
CachedIsServed ==
    \A c \in CPUs : lc[c].pc = "finish" /\ lc[c].method = "GET"
                    /\ lc[c].userCached => lc[c].kernel

\* spec.md 3 and 8: an entry is trustworthy only while now - cache_timestamp
\* < ttl, so a kernel hit serves either the file as it is on disk now or an
\* entry younger than the TTL.  fileserver_ingress takes every valid entry
\* (line 230), cache_ttl_seconds (line 55) is read nowhere, and nothing
\* deletes an entry: cache_file_in_kernel returns at the failed stat() of
\* a removed file (part_001 226-227) and leaves its old entry in place.
HitTrustworthy ==
    \A c \in CPUs : lc[c].pc = "hit" =>
        \/ clk - elem[lc[c].elem].at < CacheTtlSeconds
        \/ elem[lc[c].elem].size = FileSize(lc[c].key)

\* serve_file refuses names containing ".." or "//"; such a name never gets
\* a file_cache entry that the kernel could serve from.
NoForbiddenCached == \A k \in DOMAIN fileCache : ~Forbidden(k)
=============================================================================
