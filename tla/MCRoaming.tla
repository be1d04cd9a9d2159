------------------------------ MODULE MCRoaming ------------------------------
(* TLC instances of Roaming.                                               *)
EXTENDS Roaming

Default == [validates |-> TRUE, v11 |-> FALSE, lifetime |-> 2, frames |-> 3,
            joins |-> TRUE, reliable |-> FALSE, serial |-> TRUE]

(* Handlers one after the other with failures, with and without MIC check; *)
(* overlapping ones without failures; a device whose sessions never match; *)
(* one whose transmitted counter starts over; stateless roaming.           *)
MCAgreements ==
  {Default,
   [Default EXCEPT !.validates = FALSE, !.v11 = TRUE],
   [Default EXCEPT !.serial = FALSE, !.reliable = TRUE, !.frames = 1, !.joins = FALSE],
   [Default EXCEPT !.serial = FALSE, !.reliable = TRUE, !.frames = 0, !.lifetime = 1],
   [Default EXCEPT !.v11 = TRUE, !.lifetime = 1, !.reliable = TRUE],
   [Default EXCEPT !.frames = 5, !.joins = FALSE, !.reliable = TRUE],
   [Default EXCEPT !.lifetime = 0, !.joins = FALSE, !.reliable = TRUE]}
=============================================================================
