-------------------------- MODULE MCDeviceDownlink --------------------------
(* TLC instances of DeviceDownlink: tasks are interchangeable.             *)
EXTENDS DeviceDownlink, TLC

TaskSymmetry == Permutations(Task)

Class(c, onlyB, v11) == [class |-> c, onlyB |-> onlyB, v11 |-> v11, roaming |-> FALSE]
Roaming == [Class("A", FALSE, TRUE) EXCEPT !.roaming = TRUE]
ClassC == Class("C", FALSE, FALSE)

(* Two confirmed items; tasks overlap at any step, calls fail.             *)
Concurrent == [items |-> 2, frames |-> 2, confirmed |-> {1, 2}, encrypted |-> {},
               droppable |-> {}, serial |-> FALSE, events |-> {"losesAcks", "failures"}]

(* Flows that do not overlap, with an unconfirmed item that may be dropped *)
(* and an encrypted one; everything else may happen.                       *)
OneByOne == [items |-> 3, frames |-> 3, confirmed |-> {1, 3}, encrypted |-> {3},
             droppable |-> {2}, serial |-> TRUE, events |-> Events]

(* The device never answers and gateways may refuse, nothing is lost.      *)
Reliable == [Concurrent EXCEPT !.frames = 3, !.events = {}]

MCQueues ==
  {c @@ Concurrent : c \in {Class("B", TRUE, FALSE), ClassC}} \cup
  {c @@ OneByOne : c \in {Class("A", FALSE, FALSE), Class("B", FALSE, FALSE), ClassC,
                         Class("C", FALSE, TRUE)}} \cup
  {Roaming @@ [OneByOne EXCEPT !.items = 2, !.frames = 2]}
MCReliable == {ClassC @@ Reliable}
=============================================================================
