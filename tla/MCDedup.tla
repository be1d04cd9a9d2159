------------------------------ MODULE MCDedup ------------------------------
(* TLC instances of Dedup.  Its liveness property excludes symmetry.       *)
EXTENDS Dedup
=============================================================================
