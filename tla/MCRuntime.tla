------------------------------ MODULE MCRuntime ------------------------------
(* An instance of Runtime for TLC: three blocks across the end of a window *)
(* of two, with up to two extrinsics each, and values whose sum overflows. *)
EXTENDS Runtime
=============================================================================
