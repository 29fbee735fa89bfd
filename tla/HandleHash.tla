----------------------------- MODULE HandleHash -----------------------------
(***************************************************************************)
(* The file-handle hash of the NFS control plane, generate_nfs_file_handle *)
(* (src/unnamed/part_002): hash = hash * 31 + filename[i] over the whole   *)
(* name, in uint32_t arithmetic, with `char` signed as on x86.  The handle *)
(* is {len = 8, data[0..3] = hash, data[4..7] = hash ^ 0xdeadbeef}.        *)
(*                                                                         *)
(* A uint32 does not fit TLC's integers, so a value is a pair of 16-bit    *)
(* limbs <<hi, lo>>; every intermediate result stays below 2^31.  A name   *)
(* is a sequence of byte values.                                           *)
(***************************************************************************)
EXTENDS Naturals, Integers, Sequences, Bitwise

Limb == 2^16

\* The value of a byte as a signed char.
SChar(b) == IF b >= 128 THEN b - 256 ELSE b

\* (x * 31 + c) mod 2^32 on limbs, c a signed char.
MulAdd31(x, c) ==
    LET t   == x[2] * 31 + c
        lo  == t % Limb
        cy  == (t - lo) \div Limb
    IN  << (x[1] * 31 + cy) % Limb, lo >>

RECURSIVE HashFrom(_, _)

\* The loop of generate_nfs_file_handle, continued from `h` over `s`.
HashFrom(h, s) ==
    IF s = <<>> THEN h ELSE HashFrom(MulAdd31(h, SChar(Head(s))), Tail(s))

UserHash(name) == HashFrom(<<0, 0>>, name)

\* 0xdeadbeef as limbs.
DeadBeef == << 57005, 48879 >>

\* struct nfs_fh as the control plane fills it.
Handle(name) ==
    LET h == UserHash(name)
    IN  [len |-> 8, data |-> << h, << h[1] ^^ DeadBeef[1], h[2] ^^ DeadBeef[2] >> >>]

\* The handle every request record carries: memset to zero in
\* nfs_server_tc.
ZeroHandle == [len |-> 0, data |-> << <<0, 0>>, <<0, 0>> >>]

=============================================================================
