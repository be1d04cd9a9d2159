------------------------------- MODULE MCJoin -------------------------------
(* TLC instances of Join: handlers are interchangeable.                    *)
EXTENDS Join, TLC

HandlerSymmetry == Permutations(Handler)
=============================================================================
