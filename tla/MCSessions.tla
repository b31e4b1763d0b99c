----------------------------- MODULE MCSessions -----------------------------
(***************************************************************************)
(* The HTTP transport with two handler threads and a table of two.         *)
(***************************************************************************)
EXTENDS Sessions, TLC

MCSymmetry == Permutations(Thread)
=============================================================================
