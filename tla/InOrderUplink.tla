---------------------------- MODULE InOrderUplink ----------------------------
(***************************************************************************)
(* What the uplink path of a device promises to the integrations, seen     *)
(* from the outside: within one session, uplink events carry strictly      *)
(* increasing frame-counters.  A frame may be skipped (lost by the radio,  *)
(* dropped by the server), it is never reported twice or late.             *)
(***************************************************************************)
EXTENDS Integers

CONSTANT Frame   \* the frame-counters a device can use

VARIABLES
  last,      \* the counter of the last uplink event, -1 before the first
  delivered  \* delivered[c]: the number of uplink events for frame c

vars == <<last, delivered>>

Init == last = -1 /\ delivered = [c \in Frame |-> 0]

Deliver(c) ==
  /\ c > last
  /\ last' = c
  /\ delivered' = [delivered EXCEPT ![c] = 1]

Next == \E c \in Frame : Deliver(c)

Spec == Init /\ [][Next]_vars
=============================================================================
