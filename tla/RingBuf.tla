------------------------------ MODULE RingBuf ------------------------------
(***************************************************************************)
(* The BPF ring buffer (BPF_MAP_TYPE_RINGBUF) as both programs use it:     *)
(* the `events` map of fileserver.bpf.c and the `nfs_events` map of the    *)
(* NFS program.  A producer reserves a record (bpf_ringbuf_reserve), the   *)
(* record is "busy" until the producer submits or discards it.  The        *)
(* consumer (libbpf ring_buffer__poll in the control plane) reads records  *)
(* in reservation order and stops at the first busy record; discarded      *)
(* records are skipped.  Space is freed only when the consumer advances,   *)
(* so a reservation fails (returns NULL) when the unconsumed records fill  *)
(* the capacity.  Capacity is counted in records, not bytes.               *)
(*                                                                         *)
(* The ring buffer is kernel code, not code of this repository: these      *)
(* operators follow the interface spec.md section 4.6 describes.           *)
(***************************************************************************)
EXTENDS Naturals, Sequences, SequencesExt

CONSTANT RingCap   \* number of records the 256 KiB buffer holds

ASSUME RingCap \in Nat \ {0}

VARIABLE rb        \* sequence of [id, rec, st] in reservation order

States == {"busy", "committed", "discarded"}

\* bpf_ringbuf_reserve returns NULL when there is no room.
CanReserve == Len(rb) < RingCap

\* bpf_ringbuf_reserve: append a busy record owned by `id`.
Reserve(id, r) == rb' = Append(rb, [id |-> id, rec |-> r, st |-> "busy"])

\* Reserve and submit in one step: a record nobody else can observe busy.
Emit(id, r) == rb' = Append(rb, [id |-> id, rec |-> r, st |-> "committed"])

\* Position of the busy record owned by `id` (0 if none).
BusyAt(id) == SelectInSeq(rb, LAMBDA e : e.id = id /\ e.st = "busy")

\* bpf_ringbuf_submit: the producer writes its final contents and commits.
Submit(id, r) ==
    LET i == BusyAt(id)
    IN  /\ i # 0
        /\ rb' = [rb EXCEPT ![i] = [@ EXCEPT !.rec = r, !.st = "committed"]]

\* bpf_ringbuf_submit of several busy records, one per id in DOMAIN m,
\* with the contents m gives them.
SubmitEach(m) ==
    /\ \A id \in DOMAIN m : BusyAt(id) # 0
    /\ rb' = [j \in DOMAIN rb |->
                IF rb[j].st = "busy" /\ rb[j].id \in DOMAIN m
                THEN [rb[j] EXCEPT !.rec = m[rb[j].id], !.st = "committed"]
                ELSE rb[j]]

\* bpf_ringbuf_discard.
Discard(id) ==
    LET i == BusyAt(id)
    IN  /\ i # 0
        /\ rb' = [rb EXCEPT ![i].st = "discarded"]

\* Number of records before the first busy one: what a poll may consume.
ReadyLen ==
    LET i == SelectInSeq(rb, LAMBDA e : e.st = "busy")
    IN  IF i = 0 THEN Len(rb) ELSE i - 1

\* The committed records a ring_buffer__poll hands to the callback, in order.
Ready ==
    LET c == SelectSeq(SubSeq(rb, 1, ReadyLen), LAMBDA e : e.st = "committed")
    IN  [j \in DOMAIN c |-> c[j].rec]

\* ring_buffer__poll: consume every record up to the first busy one.
Drain == rb' = SubSeq(rb, ReadyLen + 1, Len(rb))

TypeOK == \A i \in 1..Len(rb) : rb[i].st \in States /\ Len(rb) <= RingCap
=============================================================================
