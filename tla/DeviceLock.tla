------------------------------- MODULE DeviceLock -------------------------------
(***************************************************************************)
(* The scheduler lock of one Class-B or Class-C device: the column         *)
(* scheduler_run_after of its row, the first moment at which the scheduler *)
(* loop of a server may select it.  An uplink moves it behind its receive- *)
(* windows, a selection behind the time a task should take, and the task   *)
(* itself behind the frame it is about to send.  Only the selection reads  *)
(* and writes it in one statement; the uplink flow writes the later of its *)
(* own time and the value of a row it read before, the task overwrites it. *)
(*                                                                         *)
(* Times are whole seconds relative to now, so that Tick decrements them.  *)
(* Times in the past are Past.  Frame-counters, acknowledgements and the   *)
(* pending item are in DeviceDownlink; here the queue is a number.         *)
(***************************************************************************)
EXTENDS Integers, FiniteSetsExt

CONSTANTS
  Task,           \* the tasks the servers may run at the same time
  MaxItems,       \* bound: queue-items of a behaviour
  MaxUplinks,     \* bound: uplinks of a behaviour
  MaxDelay,       \* longest time a task, or an uplink between reading the row
                  \* and writing it, takes: smaller than SchedulerLock
  Period,         \* longest time between two ping-slots of the device
  RxEnd,          \* the receive-windows close this long after the uplink
  ClassALock,     \* class_a_lock_duration
  ClassCLock,     \* class_c_lock_duration
  SchedulerLock,  \* scheduler_lock_duration
  Advance         \* class_b_schedule_advance

(* What the constants have to be; Schedulers assumes it.                   *)
DeviceLockParameters ==
  /\ MaxItems \in Nat /\ MaxUplinks \in Nat /\ MaxDelay \in Nat
  /\ Period \in Nat \ {0} /\ RxEnd \in Nat \ {0}
  /\ ClassALock \in Nat /\ ClassCLock \in Nat /\ SchedulerLock \in Nat /\ Advance \in Nat
  /\ MaxDelay < SchedulerLock

VARIABLES
  cls,      \* enabled_class; it never changes
  lock,     \* scheduler_run_after
  queue,    \* number of queue-items that are not pending
  handler,  \* the uplink flow between reading and writing the row
  task,     \* scheduler tasks of the device
  items, uplinks,  \* counters of the bounds
  windows,  \* environment: time until the receive-windows close
  slot,     \* environment: the last ping-slot the network looked up
  ack,      \* environment: a frame sent may still be acknowledged
  sinceC,   \* history: time since the last Class-C frame
  inSlot,   \* history: number of frames handed over for slot
  stale     \* history: a task selected before the uplink wrote the lock last

vars == <<cls, lock, queue, handler, task, items, uplinks, windows, slot, ack,
          sinceC, inSlot, stale>>

Past == -1
Horizon == Max({Period + 1, ClassALock, ClassCLock, SchedulerLock})
Times == Past .. Horizon
NoHandler == [pc |-> "idle", own |-> Past, seen |-> Past, age |-> 0]
NoTask == [pc |-> "idle", age |-> 0, overtaken |-> FALSE]

TypeOK ==
  /\ cls \in {"B", "C"}
  /\ lock \in Times
  /\ queue \in 0 .. MaxItems
  /\ handler \in [pc : {"idle", "loaded"}, own : Times, seen : Times, age : 0 .. MaxDelay]
  /\ task \in [Task -> [pc : {"idle", "selected", "send"}, age : 0 .. MaxDelay, overtaken : BOOLEAN]]
  /\ items \in 0 .. MaxItems /\ uplinks \in 0 .. MaxUplinks
  /\ windows \in Past .. RxEnd
  /\ slot \in Times
  /\ ack \in BOOLEAN
  /\ sinceC \in 0 .. ClassCLock + 1
  /\ inSlot \in Nat
  /\ stale \in BOOLEAN

Init ==
  /\ cls \in {"B", "C"}
  /\ lock = Past
  /\ queue = 0
  /\ handler = NoHandler
  /\ task = [t \in Task |-> NoTask]
  /\ items = 0 /\ uplinks = 0
  /\ windows = Past /\ slot = Past
  /\ ack = FALSE
  /\ sinceC = ClassCLock + 1
  /\ inSlot = 0
  /\ stale = FALSE

Busy(t) == task[t].pc # "idle"

Enqueue ==
  /\ items < MaxItems
  /\ items' = items + 1
  /\ queue' = queue + 1
  /\ UNCHANGED <<cls, lock, handler, task, uplinks, windows, slot, ack, sinceC, inSlot, stale>>

-------------------------------------------------------------------------------
(* The uplink flow.  A device sends its next uplink only after the         *)
(* receive-windows of the one before.                                      *)

UplinkShort ==  \* mutant: the lock of a task is taken for that of an uplink
  /\ uplinks < MaxUplinks /\ handler.pc = "idle" /\ windows = Past
  /\ uplinks' = uplinks + 1
  /\ windows' = RxEnd
  /\ handler' = [pc |-> "loaded", own |-> SchedulerLock, seen |-> lock, age |-> 0]
  /\ UNCHANGED <<cls, lock, queue, task, items, slot, ack, sinceC, inSlot, stale>>

(* get_for_phypayload_and_incr_f_cnt_up takes its own lock time before it  *)
(* reads the rows.                                                         *)
Uplink ==
  /\ uplinks < MaxUplinks /\ handler.pc = "idle" /\ windows = Past
  /\ uplinks' = uplinks + 1
  /\ windows' = RxEnd
  /\ handler' = [pc |-> "loaded", own |-> ClassALock, seen |-> lock, age |-> 0]
  /\ UNCHANGED <<cls, lock, queue, task, items, slot, ack, sinceC, inSlot, stale>>

(* The later of both times goes into the row together with the next frame- *)
(* counter.                                                                *)
LockForWindows ==
  /\ handler.pc = "loaded"
  /\ lock' = Max({handler.own, handler.seen})
  /\ handler' = NoHandler
  /\ task' = [t \in Task |-> [task[t] EXCEPT !.overtaken = @ \/ Busy(t)]]
  /\ stale' = FALSE
  /\ UNCHANGED <<cls, queue, items, uplinks, windows, slot, ack, sinceC, inSlot>>

-------------------------------------------------------------------------------
(* The scheduler.                                                          *)

SelectUnlocked(t) ==  \* mutant: the selection does not lock
  /\ ~Busy(t) /\ lock < 0 /\ queue > 0
  /\ task' = [task EXCEPT ![t] = [pc |-> "selected", age |-> 0, overtaken |-> stale]]
  /\ UNCHANGED <<cls, lock, queue, handler, items, uplinks, windows, slot, ack, sinceC, inSlot, stale>>

(* get_with_class_b_c_queue_items                                          *)
Select(t) ==
  /\ ~Busy(t) /\ lock < 0 /\ queue > 0
  /\ lock' = SchedulerLock
  /\ task' = [task EXCEPT ![t] = [pc |-> "selected", age |-> 0, overtaken |-> stale]]
  /\ UNCHANGED <<cls, queue, handler, items, uplinks, windows, slot, ack, sinceC, inSlot, stale>>

LockClassCNot(t) ==  \* mutant: the lock of the selection is kept
  /\ cls = "C" /\ task[t].pc = "selected"
  /\ task' = [task EXCEPT ![t].pc = "send"]
  /\ UNCHANGED <<cls, lock, queue, handler, items, uplinks, windows, slot, ack, sinceC, inSlot, stale>>

(* class_c_update_scheduler_run_after                                      *)
LockClassC(t) ==
  /\ cls = "C" /\ task[t].pc = "selected"
  /\ lock' = ClassCLock
  /\ task' = [task EXCEPT ![t].pc = "send"]
  /\ stale' = task[t].overtaken
  /\ UNCHANGED <<cls, queue, handler, items, uplinks, windows, slot, ack, sinceC, inSlot>>

(* get_next_ping_slot_after for a time that is later than those before it: *)
(* the slot found last while it lies ahead of that time, then a later one. *)
NextPingSlot(after) == IF slot > after THEN {slot} ELSE after + 1 .. after + Period

LockClassBNot(t) ==  \* mutant: a slot close ahead does not move the lock
  /\ cls = "B" /\ task[t].pc = "selected"
  /\ \E s \in NextPingSlot(1) :
       /\ slot' = s
       /\ inSlot' = IF s = slot THEN inSlot ELSE 0
       /\ lock' = IF s > Advance THEN s - Advance ELSE lock
       /\ task' = [task EXCEPT ![t] = IF s > Advance THEN NoTask ELSE [@ EXCEPT !.pc = "send"]]
  /\ stale' = task[t].overtaken
  /\ UNCHANGED <<cls, queue, handler, items, uplinks, windows, ack, sinceC>>

(* set_tx_info_for_class_b_and_update_scheduler_run_after: a slot that is  *)
(* too far ahead ends the task.                                            *)
LockClassB(t) ==
  /\ cls = "B" /\ task[t].pc = "selected"
  /\ \E s \in NextPingSlot(1) :
       /\ slot' = s
       /\ inSlot' = IF s = slot THEN inSlot ELSE 0
       /\ lock' = IF s > Advance THEN s - Advance ELSE s
       /\ task' = [task EXCEPT ![t] = IF s > Advance THEN NoTask ELSE [@ EXCEPT !.pc = "send"]]
  /\ stale' = task[t].overtaken
  /\ UNCHANGED <<cls, queue, handler, items, uplinks, windows, ack, sinceC>>

(* The rest of the task hands the next item to the gateway, Class-C at     *)
(* once, Class-B for the slot.                                             *)
Send(t) ==
  /\ task[t].pc = "send" /\ queue > 0
  /\ ack' = TRUE
  /\ sinceC' = IF cls = "C" THEN 0 ELSE sinceC
  /\ inSlot' = IF cls = "B" THEN inSlot + 1 ELSE inSlot
  /\ task' = [task EXCEPT ![t] = NoTask]
  /\ UNCHANGED <<cls, lock, queue, handler, items, uplinks, windows, slot, stale>>

(* Nothing is left to send, or one of the calls fails.                     *)
GiveUp(t) ==
  /\ Busy(t)
  /\ task' = [task EXCEPT ![t] = NoTask]
  /\ UNCHANGED <<cls, lock, queue, handler, items, uplinks, windows, slot, ack, sinceC, inSlot, stale>>

(* The gateway's acknowledgement of the last frame removes the item,       *)
(* unless it is an error or lost: then the item is sent again.             *)
TxAck ==
  /\ ack
  /\ ack' = FALSE
  /\ queue' \in Max({queue - 1, 0}) .. queue
  /\ UNCHANGED <<cls, lock, handler, task, items, uplinks, windows, slot, sinceC, inSlot, stale>>

-------------------------------------------------------------------------------
Earlier(time) == Max({time - 1, Past})

(* A second passes.  No flow takes longer than MaxDelay.                   *)
Tick ==
  /\ handler.age < MaxDelay
  /\ \A t \in Task : task[t].age < MaxDelay
  /\ lock' = Earlier(lock)
  /\ handler' = IF handler.pc = "idle" THEN handler
                ELSE [handler EXCEPT !.own = Earlier(@), !.seen = Earlier(@), !.age = @ + 1]
  /\ task' = [t \in Task |-> IF Busy(t) THEN [task[t] EXCEPT !.age = @ + 1] ELSE task[t]]
  /\ windows' = Earlier(windows)
  /\ slot' = Earlier(slot)
  /\ sinceC' = IF sinceC > ClassCLock THEN sinceC ELSE sinceC + 1
  /\ UNCHANGED <<cls, queue, items, uplinks, ack, inSlot, stale>>

Next ==
  \/ Enqueue \/ Uplink \/ LockForWindows \/ TxAck \/ Tick
  \/ \E t \in Task : Select(t) \/ LockClassC(t) \/ LockClassB(t) \/ Send(t) \/ GiveUp(t)

Spec == Init /\ [][Next]_vars

-------------------------------------------------------------------------------
(* The locks outlast the flows they are taken for: that of an uplink the   *)
(* uplink flow and a task selected meanwhile, that of a task the rest of   *)
(* the task.  A ping-slot is looked up more than one second ahead.         *)
LocksOutlastFlows ==
  /\ 2 * MaxDelay <= ClassALock
  /\ MaxDelay <= (IF cls = "B" THEN 2 ELSE ClassCLock)

(* The selection keeps the other servers from the device until its task is *)
(* done ("to avoid concurrency issues"): while the locks outlast the flows *)
(* there is never a second task, although the task moves the lock and an   *)
(* uplink in between writes one it computed from the row as it was before. *)
OneTask == LocksOutlastFlows => \A t, u \in Task : Busy(t) /\ Busy(u) => t = u

(* A ping-slot carries one frame: neither a second selection before the    *)
(* slot, nor an uplink that shortens the lock again, sends another item    *)
(* for a slot already taken.  The lock of an uplink has to reach to a slot *)
(* that is looked up before the uplink flow writes it.                     *)
OneFramePerSlot ==
  LocksOutlastFlows /\ Advance <= ClassALock - MaxDelay + 2 => inSlot <= 1

(* class_c_lock_duration "between scheduling two Class-C downlink payloads *)
(* for the same device" holds up to the delays of the two flows that may   *)
(* come between: the lock is taken before the frame is sent, and an uplink *)
(* that read the row before may set it back to its own, shorter one.       *)
ClassCSpaced ==
  [][\A t \in Task : Send(t) /\ cls = "C"
       => sinceC > Min({ClassCLock, ClassALock - MaxDelay}) - MaxDelay]_vars

(* The lock of an uplink reaches to the end of its receive-windows.  The   *)
(* defaults do, 5 s for windows of 1 and 2 s; the code compares neither    *)
(* rx1_delay, up to 15 s, nor the lock with the other.                     *)
LockCoversWindows == RxEnd <= ClassALock

(* "avoid collisions between Class-A and Class-B/C downlinks": no frame of *)
(* the scheduler is handed over before the receive-windows of an uplink    *)
(* have closed, except by a task selected before the uplink locked the     *)
(* device, or after such a task overwrote that lock.                       *)
WindowsKept ==
  [][\A t \in Task :
       LockCoversWindows /\ Send(t) /\ handler.pc = "idle" /\ ~task[t].overtaken
         => windows < 0]_vars
================================================================================
