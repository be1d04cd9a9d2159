---------------------------- MODULE MCUplinkFCnt ----------------------------
(* TLC instances of UplinkFCnt: handlers are interchangeable.              *)
EXTENDS UplinkFCnt, TLC

HandlerSymmetry == Permutations(Handler)
=============================================================================
