-------------------------------- MODULE Multicast --------------------------------
(***************************************************************************)
(* The downlink queue of one multicast-group.  A frame is enqueued once    *)
(* per gateway, with the time from which the scheduler may select the item *)
(* and, for Class-B and GPS-timed Class-C, the time of its emission.  The  *)
(* loop of a server selects a batch of items, runs a task for each, waits  *)
(* until all of them have ended, and sleeps for the interval; the loops of *)
(* all servers work on the queue.  An acknowledgement of the gateway, of   *)
(* success or of error, deletes the item.                                  *)
(*                                                                         *)
(* Times are relative to now, so that Tick decrements them; what lies      *)
(* further back than MaxPast is kept at -MaxPast.                          *)
(***************************************************************************)
EXTENDS Integers, FiniteSetsExt, Functions

CONSTANTS
  Kinds,          \* of groups: a subset of {"B", "delay", "gps"}
  Gateway,        \* the gateways that serve the group
  MaxFrames,      \* bound: frames enqueued
  Server,         \* the servers, each with a loop of its own
  BatchSize,      \* batch_size of the scheduler
  MaxFaults,      \* bound: failed tasks, lost acknowledgements, gateway outages,
                  \* batches with older items of other groups
  MaxPast,        \* bound: how far past times are told apart
  Expiry,         \* time from enqueueing to expires_at, where it is set
  Period,         \* longest time between two ping-slots of the group
  MaxDelay,       \* longest time of a batch: smaller than SchedulerLock
  Interval,       \* interval of the scheduler loop
  MarginB,        \* multicast_class_b_margin
  MarginC,        \* multicast_class_c_margin
  SchedulerLock   \* scheduler_lock_duration

(* What the constants have to be; Schedulers assumes it.                   *)
MulticastParameters ==
  /\ Kinds \subseteq {"B", "delay", "gps"} /\ IsFiniteSet(Gateway)
  /\ \A n \in {BatchSize, MaxFrames, MaxFaults, MaxPast, Expiry, Period, MaxDelay, Interval,
               MarginB, MarginC, SchedulerLock} : n \in Nat
  /\ BatchSize > 0 /\ Period > 0 /\ MaxDelay < SchedulerLock

VARIABLES
  kind,     \* of the group; it never changes
  expiring, \* do the frames of this group have an expires_at? it never changes
  frames,   \* number of frames enqueued so far
  queue,    \* scheduler_run_after per item of the queue
  emit,     \* emission time per frame that has one
  expires,  \* expires_at per frame that has one
  task,     \* per item a task works on: the server
  working,  \* the servers that wait for the tasks of their batch; others sleep
  elapsed,  \* per server: how long it has been working, or sleeping
  sent,     \* environment: items of the queue a gateway may still acknowledge
  online,   \* environment: gateways whose last_seen_at is recent
  faults,   \* counter of the bound
  onAir,    \* history: the frames of a Class-B group a gateway was handed
  prompt,   \* history: Class-B items not handed over yet, whose frame met an empty
            \* queue, whose gateway has been online since then, and for which
            \* there was room in the batches
  early     \* history: Class-B frames that left the queue before one of an earlier slot

loops == <<working, elapsed>>
vars == <<kind, expiring, frames, queue, emit, expires, task, loops, sent, online, faults,
          onAir, prompt, early>>

Frame == 1 .. MaxFrames
Item == Frame \X Gateway
Queued == DOMAIN queue
Busy == DOMAIN task
Timed == kind \in {"B", "gps"}

(* The furthest a run or an emission may lie ahead.                        *)
Horizon == Max({Expiry, SchedulerLock, MarginB + Period * (MaxFrames + 1),
                MarginC * (2 + MaxFrames * (1 + Cardinality(Gateway)))})
Times == -MaxPast .. Horizon
IsPartial(f, S, T) == DOMAIN f \subseteq S /\ f \in [DOMAIN f -> T]

TypeOK ==
  /\ kind \in Kinds
  /\ expiring \in BOOLEAN
  /\ frames \in 0 .. MaxFrames
  /\ IsPartial(queue, Item, Times)
  /\ IsPartial(emit, Frame, Times) /\ IsPartial(expires, Frame, Times)
  /\ IsPartial(task, Item, Server)
  /\ working \subseteq Server /\ elapsed \in [Server -> 0 .. Max({Interval, MaxDelay})]
  /\ sent \subseteq Queued /\ online \subseteq Gateway
  /\ faults \in 0 .. MaxFaults
  /\ onAir \subseteq Frame /\ prompt \subseteq Item /\ early \subseteq Frame

Init ==
  /\ kind \in Kinds
  /\ expiring \in BOOLEAN
  /\ frames = 0
  /\ queue = <<>> /\ emit = <<>> /\ expires = <<>> /\ task = <<>>
  /\ working = {} /\ elapsed \in [Server -> 0 .. Interval]
  /\ sent = {} /\ online = Gateway
  /\ faults = 0
  /\ onAir = {} /\ prompt = {} /\ early = {}

-------------------------------------------------------------------------------
(* multicast::enqueue, one transaction that locks the group.               *)

(* get_next_ping_slot_after: a slot already looked up that lies after that *)
(* time (see DeviceLock), or one not looked up yet.                        *)
NextPingSlot(after) ==
  LET ahead == {s \in Range(emit) : s > after}
  IN IF ahead = {} THEN after + 1 .. after + Period ELSE {Min(ahead)}

SlotBaseNow ==  \* mutant: the margin is not added
  IF Queued = {} THEN 0 ELSE Max({emit[i[1]] : i \in Queued})

(* The time after which the next ping-slot of a Class-B frame is looked    *)
(* up: the last emission in the queue, or the margin when it is empty.     *)
SlotBase ==
  IF Queued = {} THEN MarginB ELSE Max({emit[i[1]] : i \in Queued})

RunAtOnce(slot) == slot - Interval  \* mutant: one interval ahead

(* Two intervals of the scheduler loop ahead.                              *)
RunAt(slot) == slot - 2 * Interval

(* From when the items of a frame may run, for the gateways in some order, *)
(* and its emission time, if any.                                          *)
Schedules ==
  LET base == IF Queued = {} THEN 0 ELSE Max(Range(queue)) + MarginC
      rank == CHOOSE r \in [Gateway -> 0 .. Cardinality(Gateway) - 1] : IsInjective(r)
  IN CASE kind = "B"     -> {[run |-> [g \in Gateway |-> RunAt(s)], emit |-> {s}]
                             : s \in NextPingSlot(SlotBase)}
       [] kind = "gps"   -> {[run |-> [g \in Gateway |-> base + MarginC], emit |-> {base + MarginC}]}
       [] kind = "delay" -> {[run |-> [g \in Gateway |-> base + rank[g] * MarginC], emit |-> {}]}

Enqueue ==
  /\ frames < MaxFrames
  /\ frames' = frames + 1
  /\ LET f == frames + 1
         items == {f} \X Gateway
     IN /\ \E s \in Schedules :
             /\ queue' = [i \in Queued \union items |->
                            IF i \in items THEN Max({s.run[i[2]], -MaxPast}) ELSE queue[i]]
             /\ emit' = [g \in DOMAIN emit \union (IF s.emit = {} THEN {} ELSE {f}) |->
                            IF g = f THEN Max(s.emit) ELSE emit[g]]
        /\ expires' = [g \in DOMAIN expires \union (IF expiring THEN {f} ELSE {}) |->
                         IF g = f THEN Expiry ELSE expires[g]]
        /\ prompt' = IF kind = "B" /\ Queued = {} THEN {i \in items : i[2] \in online} ELSE prompt
  /\ UNCHANGED <<kind, expiring, task, loops, sent, online, faults, onAir, early>>

(* flush_queue                                                             *)
Flush ==
  /\ Queued # {}
  /\ queue' = <<>> /\ sent' = {}
  /\ UNCHANGED <<kind, expiring, frames, emit, expires, task, loops, online, faults,
                 onAir, prompt, early>>

-------------------------------------------------------------------------------
(* The scheduler tasks.                                                    *)

Expires(i) == i[1] \in DOMAIN expires
Without(f, i) == Restrict(f, DOMAIN f \ {i})

(* With item i the last item of its frame leaves, one of an earlier slot   *)
(* does not (history).                                                     *)
Leave(i) ==
  LET rest == Queued \ {i}
      overtakes == /\ kind = "B"
                   /\ \A j \in rest : j[1] # i[1]
                   /\ \E j \in rest : emit[j[1]] < emit[i[1]]
  IN early' = IF overtakes THEN early \union {i[1]} ELSE early

DueOnline(i) ==  \* mutant: expired items wait for their gateway, too
  queue[i] <= 0 /\ i[2] \in online

(* get_schedulable_queue_items: an expired item does not need its gateway. *)
Due(i) ==
  queue[i] <= 0 /\ (i[2] \in online \/ (Expires(i) /\ expires[i[1]] <= 0))

(* A turn of the loop, once it has slept: get_schedulable_queue_items      *)
(* selects the oldest items that are due and locks each, as many as fit    *)
(* into a batch; fewer, when older items of other groups take their place  *)
(* or the query fails.  The lock outlasts the task of an item.             *)
Turn(s) ==
  /\ s \notin working /\ elapsed[s] = Interval
  /\ LET due == {i \in Queued \ Busy : Due(i)}
     IN \E batch \in SUBSET due :
          /\ Cardinality(batch) <= BatchSize
          /\ \A i \in batch, j \in due \ batch : i[1] <= j[1]
          /\ faults' = IF batch = due \/ Cardinality(batch) = BatchSize THEN faults ELSE faults + 1
          /\ faults' <= MaxFaults
          /\ queue' = [i \in Queued |-> IF i \in batch THEN SchedulerLock ELSE queue[i]]
          /\ task' = [i \in Busy \union batch |-> IF i \in batch THEN s ELSE task[i]]
          /\ prompt' = prompt \ (due \ batch)
  /\ working' = working \union {s}
  /\ elapsed' = [elapsed EXCEPT ![s] = 0]
  /\ UNCHANGED <<kind, expiring, frames, emit, expires, sent, online, onAir, early>>

(* join_all: the tasks of the batch have ended, the server sleeps.         *)
EndBatch(s) ==
  /\ s \in working /\ \A i \in Busy : task[i] # s
  /\ working' = working \ {s}
  /\ elapsed' = [elapsed EXCEPT ![s] = 0]
  /\ UNCHANGED <<kind, expiring, frames, queue, emit, expires, task, sent, online, faults,
                 onAir, prompt, early>>

(* validate_expiration or validate_payload_size: the item is deleted.  It  *)
(* is too long when the data-rate of the group was changed meanwhile.      *)
Discard(i) ==
  /\ i \in Busy
  /\ queue' = Without(queue, i)
  /\ task' = Without(task, i)
  /\ sent' = sent \ {i}
  /\ Leave(i)
  /\ UNCHANGED <<kind, expiring, frames, emit, expires, loops, online, faults, onAir, prompt>>

(* The frame is saved and handed to the gateway.                           *)
Send(i) ==
  /\ i \in Busy /\ ~(Expires(i) /\ expires[i[1]] < 0)
  /\ task' = Without(task, i)
  /\ sent' = sent \union ({i} \intersect Queued)
  /\ onAir' = IF kind = "B" THEN onAir \union {i[1]} ELSE onAir
  /\ prompt' = prompt \ {i}
  /\ UNCHANGED <<kind, expiring, frames, queue, emit, expires, loops, online, faults, early>>

(* One of the calls of the task fails; the item stays.                     *)
Fail(i) ==
  /\ i \in Busy /\ faults < MaxFaults
  /\ faults' = faults + 1
  /\ task' = Without(task, i)
  /\ prompt' = prompt \ {i}
  /\ UNCHANGED <<kind, expiring, frames, queue, emit, expires, loops, sent, online, onAir, early>>

(* TxAck of success or of error.                                           *)
TxAck(i) ==
  /\ i \in sent
  /\ sent' = sent \ {i}
  /\ queue' = Without(queue, i)
  /\ Leave(i)
  /\ UNCHANGED <<kind, expiring, frames, emit, expires, task, loops, online, faults,
                 onAir, prompt>>

-------------------------------------------------------------------------------
(* The gateways and time.                                                  *)

LoseAck(i) ==
  /\ i \in sent /\ faults < MaxFaults
  /\ faults' = faults + 1
  /\ sent' = sent \ {i}
  /\ UNCHANGED <<kind, expiring, frames, queue, emit, expires, task, loops, online,
                 onAir, prompt, early>>

GoOffline(g) ==
  /\ g \in online /\ faults < MaxFaults
  /\ faults' = faults + 1
  /\ online' = online \ {g}
  /\ prompt' = {i \in prompt : i[2] # g}
  /\ UNCHANGED <<kind, expiring, frames, queue, emit, expires, task, loops, sent, onAir, early>>

GoOnline(g) ==
  /\ g \notin online
  /\ online' = online \union {g}
  /\ UNCHANGED <<kind, expiring, frames, queue, emit, expires, task, loops, sent, faults,
                 onAir, prompt, early>>

Earlier(times) == [x \in DOMAIN times |-> Max({times[x] - 1, -MaxPast})]

(* No batch takes longer than MaxDelay, no loop sleeps longer than Interval.*)
Tick ==
  /\ \A s \in Server : elapsed[s] < IF s \in working THEN MaxDelay ELSE Interval
  /\ queue' = Earlier(queue) /\ emit' = Earlier(emit) /\ expires' = Earlier(expires)
  /\ elapsed' = [s \in Server |-> elapsed[s] + 1]
  /\ UNCHANGED <<kind, expiring, frames, task, working, sent, online, faults,
                 onAir, prompt, early>>

Next ==
  \/ Enqueue
  \/ Flush
  \/ \E s \in Server : Turn(s) \/ EndBatch(s)
  \/ \E i \in Item : Discard(i) \/ Send(i) \/ Fail(i) \/ TxAck(i) \/ LoseAck(i)
  \/ \E g \in Gateway : GoOffline(g) \/ GoOnline(g)
  \/ Tick

(* Time passes, the loops run, a task ends.                                *)
Fairness ==
  /\ WF_vars(Tick)
  /\ \A s \in Server : WF_vars(Turn(s)) /\ WF_vars(EndBatch(s))
  /\ \A i \in Item : WF_vars(Discard(i) \/ Send(i))

Spec == Init /\ [][Next]_vars
FairSpec == Spec /\ Fairness

-------------------------------------------------------------------------------
(* The scheduler looks far enough ahead: the margin covers the two         *)
(* intervals by which items may run before their slot.                     *)
MarginCovers == 2 * Interval <= MarginB

(* Two frames of a Class-B group are not handed over for one ping-slot,    *)
(* although the first may be gone from the queue, acknowledged or flushed, *)
(* before its slot.  Only a frame that left the queue before one of an     *)
(* earlier slot did makes room for another: the next slot is looked up     *)
(* after the last one in the queue.                                        *)
SlotsDistinct ==
  MarginCovers =>
    \A f, g \in onAir : f < g /\ f \notin early /\ emit[f] > -MaxPast => emit[f] # emit[g]

(* The turns of a loop are the interval and a batch apart, and the task of *)
(* an item takes as long as a batch: two intervals are enough for it when  *)
(* two batches fit into the other interval.                                *)
BatchesAreShort == 2 * MaxDelay <= Interval

(* An item of a Class-B group whose frame met an empty queue, and for which*)
(* the batches had room, is handed to its online gateway before the slot.  *)
SlotInTime ==
  [][\A i \in Item : kind = "B" /\ i \in prompt /\ Send(i) /\ MarginCovers /\ BatchesAreShort
       => emit[i[1]] > 0]_vars

(* Every item with an emission time is handed over before that time, as    *)
(* the comment in enqueue says the margin is for.                          *)
HandedOverInTime == [][\A i \in Item : Timed /\ Send(i) => emit[i[1]] > 0]_vars

(* An item with an expires_at leaves the queue, also when its gateway      *)
(* never comes back.                                                       *)
ExpiredLeave == \A i \in Item : (i \in Queued /\ Expires(i)) ~> (i \notin Queued)
================================================================================
