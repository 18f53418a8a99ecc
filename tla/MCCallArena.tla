---------------------------- MODULE MCCallArena -----------------------------
(* Addresses are counted in units of eight bytes: a header is three of them. *)
(* One buffer lies at the very top of the address space, where sums overflow. *)
EXTENDS CallArena

MCBuffers == {[base |-> 2, len |-> 4], [base |-> 59, len |-> 4]}
=============================================================================
