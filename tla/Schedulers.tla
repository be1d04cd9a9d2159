------------------------------- MODULE Schedulers -------------------------------
(***************************************************************************)
(* The loops of a server: class_b_c_scheduler_loop works on the queues of  *)
(* devices (DeviceLock), multicast_group_queue_scheduler_loop on those of  *)
(* multicast-groups (Multicast), alert::reaper_loop on the alert states    *)
(* (Alerts).  They share no state, so that their interleavings add nothing *)
(* to the behaviours of each: loop says which one has work.  The servers   *)
(* are those of Replica in Alerts, those of Server in Multicast, and the   *)
(* tasks they run in DeviceLock.                                           *)
(***************************************************************************)
EXTENDS Integers

CONSTANTS
  Task, MaxItems, MaxUplinks, DeviceDelay, DevicePeriod, RxEnd,
  ClassALock, ClassCLock, Advance,
  Kinds, Gateway, MaxFrames, MaxFaults, MaxPast, Expiry, GroupDelay, GroupPeriod,
  Server, BatchSize, Interval, MarginB, MarginC, SchedulerLock,
  Replica, Failures

VARIABLES
  loop,  \* the loop that has work, "device", "multicast" or "alerts"; it never changes
  cls, lock, dqueue, handler, dtask, items, uplinks, windows, slot, ack, sinceC, inSlot, stale,
  kind, expiring, frames, mqueue, emit, expires, mtask, working, elapsed, sent, online, faults,
  onAir, prompt, early,
  running, activity, enabled, state, pc, scan, told, spoiled

Device == INSTANCE DeviceLock WITH
  queue <- dqueue, task <- dtask, MaxDelay <- DeviceDelay, Period <- DevicePeriod

Group == INSTANCE Multicast WITH
  queue <- mqueue, task <- mtask, MaxDelay <- GroupDelay, Period <- GroupPeriod

Alert == INSTANCE Alerts

ASSUME SchedulersAssumption ==
  Device!DeviceLockParameters /\ Group!MulticastParameters /\ Failures \in BOOLEAN

deviceVars == <<cls, lock, dqueue, handler, dtask, items, uplinks, windows, slot, ack,
                sinceC, inSlot, stale>>
groupVars == <<kind, expiring, frames, mqueue, emit, expires, mtask, <<working, elapsed>>, sent, online,
               faults, onAir, prompt, early>>
alertVars == <<running, activity, enabled, state, pc, scan, told, spoiled>>
vars == <<loop, deviceVars, groupVars, alertVars>>

(* The configuration of a loop without work does not matter.               *)
Init ==
  /\ Device!Init /\ Group!Init /\ Alert!Init
  /\ loop \in {"device", "multicast", "alerts"}
  /\ loop # "device" => cls = "C"
  /\ loop # "multicast" =>
       kind = "B" /\ expiring = FALSE /\ elapsed = [r \in Server |-> 0]
  /\ loop # "alerts" => running = Replica /\ enabled

DeviceStep == loop = "device" /\ Device!Next /\ UNCHANGED <<loop, groupVars, alertVars>>
GroupStep == loop = "multicast" /\ Group!Next /\ UNCHANGED <<loop, deviceVars, alertVars>>
AlertStep == loop = "alerts" /\ Alert!Next /\ UNCHANGED <<loop, deviceVars, groupVars>>

Next == DeviceStep \/ GroupStep \/ AlertStep

Spec == Init /\ [][Next]_vars /\ Group!Fairness

-------------------------------------------------------------------------------
TypeOK ==
  /\ loop \in {"device", "multicast", "alerts"}
  /\ Device!TypeOK /\ Group!TypeOK /\ Alert!TypeOK

(* Never two tasks for one device (DeviceLock).                            *)
OneTask == Device!OneTask

(* Never two frames in one ping-slot of a device (DeviceLock).             *)
OneFramePerSlot == Device!OneFramePerSlot

(* Class-C frames keep the distance of class_c_lock_duration (DeviceLock). *)
ClassCSpaced == Device!ClassCSpaced

(* No frame of the scheduler before the receive-windows closed (DeviceLock).*)
WindowsKept == Device!WindowsKept

(* Never two frames in one ping-slot of a group (Multicast).               *)
SlotsDistinct == Group!SlotsDistinct

(* A frame for a ping-slot reaches the gateway before it (Multicast).      *)
SlotInTime == Group!SlotInTime

(* Expired items leave the queue (Multicast).                              *)
ExpiredLeave == Group!ExpiredLeave

(* With one server the alert events form a chain (Alerts).                 *)
EventsChain == Alert!EventsChain
================================================================================
