----------------------------- MODULE RequestLog -----------------------------
(***************************************************************************)
(* What a TC program and the control plane's ring-buffer consumer promise  *)
(* each other, with the ring buffer, the CPUs and the poll loop abstracted *)
(* away.  A request, once the kernel has decided it ("kernel processed" or *)
(* not), keeps that decision; the control plane's handle_event is told of  *)
(* each decided request at most once and eventually, in batches; and its   *)
(* kernel_processed count grows by exactly the kernel-decided requests it  *)
(* is told of.  A request need never be decided: the program may drop it   *)
(* before deciding (a failed bpf_ringbuf_reserve).                          *)
(***************************************************************************)
EXTENDS Naturals, FiniteSets, Functions, TLC

CONSTANT Reqs              \* request identities (arrival numbers)

VARIABLES
    dec,                   \* decided requests -> processed_in_kernel
    rep,                   \* requests handle_event has been told of
    ukernel                \* the control plane's kernel_processed counter

avars == <<dec, rep, ukernel>>

Init ==
    /\ dec = <<>>
    /\ rep = {}
    /\ ukernel = 0

\* The kernel decides request i, with processed_in_kernel = k.
Decide(i, k) ==
    /\ i \in Reqs \ DOMAIN dec
    /\ dec' = i :> k @@ dec
    /\ UNCHANGED <<rep, ukernel>>

\* One ring_buffer__poll: handle_event is told of the decided, not yet
\* reported requests in S and counts the kernel-processed ones.
Report(S) ==
    /\ S # {}
    /\ S \subseteq DOMAIN dec \ rep
    /\ rep' = rep \cup S
    /\ ukernel' = ukernel + Cardinality({i \in S : dec[i]})
    /\ UNCHANGED dec

ReportOf(i) == \E S \in SUBSET (DOMAIN dec \ rep) : i \in S /\ Report(S)

Next ==
    \/ \E i \in Reqs, k \in BOOLEAN : Decide(i, k)
    \/ \E S \in SUBSET (DOMAIN dec \ rep) : Report(S)

\* Every decided request is eventually reported.
Fairness == \A i \in Reqs : WF_avars(ReportOf(i))

SafetySpec == Init /\ [][Next]_avars

Spec == SafetySpec /\ Fairness

\* What Fairness asks of a behaviour of SafetySpec: ReportOf(i) is enabled
\* exactly while i is decided and unreported, and only a ReportOf(i) step
\* adds i to rep, so Fairness holds iff every decided request is reported.
\* Implementations are checked against SafetySpec /\ Delivered, whose
\* liveness part TLC evaluates without ENABLED over the refinement mapping.
Delivered == \A i \in Reqs : i \in DOMAIN dec ~> i \in rep

Refined == SafetySpec /\ Delivered
=============================================================================
