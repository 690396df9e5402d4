------------------------------ MODULE MCDedup ------------------------------
(***************************************************************************)
(* Instance of Dedup for TLC: a cap of two and four admissions per device, *)
(* so that numbers are evicted and admitted again.                         *)
(***************************************************************************)
EXTENDS Dedup

MCSeqNos == 1 .. 3

=============================================================================
