------------------------------- MODULE MC_Nfs -------------------------------
(***************************************************************************)
(* Model-checking instance of NfsEngine.                                   *)
(***************************************************************************)
EXTENDS NfsEngine

Dgram(src, len, hdr, proc) ==
    [trunc |-> "none", l2 |-> "ipv4", l3 |-> "udp", dport |-> 2049,
     src |-> src, len |-> len, hdr |-> hdr, proc |-> proc]

\* NULL, GETATTR, READ and LOOKUP calls, a 28-byte GETATTR (shorter than
\* the kernel's header, long enough for process_nfs_request).
MCFrames ==
    { Dgram(a, 32, "call", p) : a \in Clients, p \in {NULLproc, GETATTR, READ, 3} }
    \cup { Dgram(CHOOSE a \in Clients : TRUE, 28, "call", GETATTR) }

\* Frames of the attribute runs: GETATTR only.
MCGetattrFrames == { Dgram(a, 32, "call", GETATTR) : a \in Clients }

\* The CPUs are interchangeable: the TC program is the same on each.
MCSymmetry == Permutations(CPUs)

MCZeroHandle == HH!ZeroHandle
MCTestHandle == HH!Handle(TestTxt)
=============================================================================
