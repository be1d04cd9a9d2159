---------------------------- MODULE DownlinkQueue ----------------------------
(***************************************************************************)
(* What the downlink queue of a device promises to its user: the items are *)
(* taken in the order in which they were enqueued.  Only the item at the   *)
(* head is sent; a confirmed one then stays at the head as "pending", and  *)
(* blocks the queue, until it is acknowledged or given up.  An item that   *)
(* left the queue does not come back.                                      *)
(***************************************************************************)
EXTENDS Integers

CONSTANT Item   \* the items, numbered in the order of creation

VARIABLE life   \* life[i]: where item i is in its life

Stage == {"new", "waiting", "pending", "gone"}

Init == life = [i \in Item |-> "new"]

Alive(i) == life[i] \in {"waiting", "pending"}
Head(i) == Alive(i) /\ \A j \in Item : Alive(j) => i <= j

Enqueue(i) ==
  /\ life[i] = "new"
  /\ \A j \in Item : j < i => life[j] # "new"
  /\ life' = [life EXCEPT ![i] = "waiting"]

Hold(i) == Head(i) /\ life[i] = "waiting" /\ life' = [life EXCEPT ![i] = "pending"]

Remove(i) == Head(i) /\ life' = [life EXCEPT ![i] = "gone"]

(* The user flushes all items, or those that are still waiting.            *)
Flush(stages) ==
  life' = [i \in Item |-> IF life[i] \in stages THEN "gone" ELSE life[i]]

Next ==
  \/ \E i \in Item : Enqueue(i) \/ Hold(i) \/ Remove(i)
  \/ Flush({"waiting"})
  \/ Flush({"waiting", "pending"})

Spec == Init /\ [][Next]_life
=============================================================================
