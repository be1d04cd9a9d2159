---------------------------- MODULE DeviceDownlink ----------------------------
(***************************************************************************)
(* The downlink path of one device: its queue, the two flows that take     *)
(* items from it (the response to an uplink, and the Class-B/C scheduler), *)
(* the gateway, and the handling of the gateway's tx acknowledgements.     *)
(*                                                                         *)
(* Each Task is an asynchronous task of the server.  Its steps are single  *)
(* database or Redis calls; between two of them any other task may run.    *)
(* A task works on the copy of the device-session it loaded and writes the *)
(* complete session back, so a later write can undo an earlier one.        *)
(*                                                                         *)
(* Abstractions: a queue item is its position in creation order; time is   *)
(* reduced to "a timeout is running or over" and "the scheduler lock is    *)
(* held or not"; the parts of the session that are not counters are left   *)
(* out; whether an item is too large for the data-rate or past its         *)
(* expires_at is a choice, made for the items of Droppable only.  Init takes one of   *)
(* several profiles: what the device is, and what may happen to it.        *)
(***************************************************************************)
EXTENDS Integers, FiniteSets

CONSTANTS
  Task,         \* asynchronous tasks that may be running at the same time
  NItems,       \* bound: items enqueued over a behaviour
  MaxFrames,    \* bound: downlink frames handed to the gateway
  MaxFCnt,      \* bound: downlink frame-counters a caller chooses
  Profiles,     \* the device, and what may happen to it, see Profile
  TimelyTasks   \* a scheduled task ends before the scheduler lock does

Item == 1 .. NItems
FrameId == 1 .. MaxFrames
FCnt == 0 .. MaxFCnt
None == 0            \* no queue item

(* What the flows look at in the device and its device-profile: the        *)
(* enabled_class, class_b_params.class_b_downlink_only, and whether the    *)
(* session is one of LoRaWAN 1.1 (separate counters, MIC over conf_f_cnt); *)
(* whether a Class-A device is heard by a visited network; and what its    *)
(* surroundings do.                                                        *)
Events == {"losesAcks",     \* a command to a gateway, or its tx ack, is lost
           "flushes",       \* the API flushes the queue
           "macDownlinks",  \* an uplink asks for a downlink without an item
           "failures"}      \* a task ends early (an error, the server stops)
Profile == [class : {"A", "B", "C"}, onlyB : BOOLEAN, v11 : BOOLEAN,
            roaming : BOOLEAN,
            items : 0 .. NItems,         \* how many items are enqueued
            frames : 0 .. MaxFrames,     \* how many frames are sent
            confirmed : SUBSET Item,     \* items with confirmed = true
            encrypted : SUBSET Item,     \* items with is_encrypted = true
            droppable : SUBSET Item,     \* items that may be expired or too large
            serial : BOOLEAN,            \* no task starts while one is running
                                         \* or a frame is not acknowledged
            events : SUBSET Events]

ASSUME DownlinkAssumption ==
  /\ NItems \in Nat /\ MaxFrames \in Nat
  /\ MaxFCnt \in Nat /\ MaxFCnt > MaxFrames
  /\ Profiles \subseteq {p \in Profile : p.roaming => p.class = "A"}
  /\ TimelyTasks \in BOOLEAN

VARIABLES
  profile,   \* the device and its surroundings; it never changes
  session,   \* device.device_session: the downlink counters and conf_f_cnt
  locked,    \* device.scheduler_run_after lies in the future
  queue,     \* queue[i]: the row of item i in device_queue_item, or NoRow
  enqueued,  \* number of items enqueued so far
  frame,     \* frame[k]: the k-th downlink frame, as saved and as sent
  sent,      \* number of downlink frames sent so far
  device,    \* the confirmed downlink the device still has to acknowledge
  pc, task,  \* per task: its next step and its local data
  final,     \* history: number of final events (or flushes) of an item
  accepted,  \* history: the frames a gateway accepted
  counted,   \* history: those whose tx acknowledgement was saved in a session
  misacked   \* history: items reported as acknowledged by a device that
             \* acknowledged something else

vars == <<profile, session, locked, queue, enqueued, frame, sent, device, pc, task,
          final, accepted, counted, misacked>>

Serial == profile.serial
Confirmed == profile.confirmed
Encrypted == profile.encrypted
Droppable == profile.droppable
May(event) == event \in profile.events

Session == [n : Nat, a : Nat, conf : Nat]
Row == [pending : BOOLEAN, timeout : {"none", "running", "over"}, fCnt : Nat \cup {-1}]
NoRow == [pending |-> FALSE, timeout |-> "none", fCnt |-> -2]
Frame == [payload : Item \cup {None},  \* item in the PHYPayload, None: mac-only
          fCnt : Nat,                  \* FHDR.FCnt of the PHYPayload
          aFCnt : Nat,                 \* a_f_cnt_down of the saved frame
          saved : BOOLEAN,             \* the Redis key frame:<id> exists
          stage : {"none", "sent", "ok", "error", "done"}]
NoFrame == [payload |-> None, fCnt |-> 0, aFCnt |-> 0,
            saved |-> FALSE, stage |-> "none"]
Handled == [NoFrame EXCEPT !.stage = "done"]
NoAck == [item |-> None, fCnt |-> 0]

TaskData == [kind : {"none", "response", "scheduled", "txack"},
             snap : Session,             \* self.device.device_session
             item : Item \cup {None},    \* self.device_queue_item
             copy : Row \cup {NoRow},    \* the columns of that item as loaded
             must : BOOLEAN,             \* must_ack, must_send or mac-commands
             ackOf : Item \cup {None},   \* item the uplink acknowledges
             id : 0 .. MaxFrames,        \* downlink_id of the tx acknowledgement
             aFCnt : Nat]                \* a_f_cnt_down of the acknowledged frame
NoTask == [kind |-> "none", snap |-> [n |-> 0, a |-> 0, conf |-> 0], item |-> None,
           copy |-> NoRow, must |-> FALSE, ackOf |-> None, id |-> 0, aFCnt |-> 0]

Steps == {"idle", "update", "pending?", "acked", "load", "next", "discard",
          "putItem", "send", "xmitAns", "ackData", "ackItem", "ackPut", "ackSave"}

TypeOK ==
  /\ profile \in Profile
  /\ session \in Session
  /\ locked \in BOOLEAN
  /\ queue \in [Item -> Row \cup {NoRow}]
  /\ enqueued \in 0 .. NItems
  /\ frame \in [FrameId -> Frame]
  /\ sent \in 0 .. MaxFrames
  /\ device \in [item : Item \cup {None}, fCnt : Nat]
  /\ pc \in [Task -> Steps]
  /\ task \in [Task -> TaskData]
  /\ final \in [Item -> 0 .. 2]
  /\ accepted \subseteq [payload : Item \cup {None}, fCnt : Nat, id : FrameId]
  /\ counted \subseteq FrameId
  /\ misacked \subseteq Item

Init ==
  /\ profile \in Profiles
  /\ session = [n |-> 0, a |-> 0, conf |-> 0]
  /\ locked = FALSE
  /\ queue = [i \in Item |-> NoRow]
  /\ enqueued = 0
  /\ frame = [k \in FrameId |-> NoFrame]
  /\ sent = 0
  /\ device = NoAck
  /\ pc = [t \in Task |-> "idle"]
  /\ task = [t \in Task |-> NoTask]
  /\ final = [i \in Item |-> 0]
  /\ accepted = {}
  /\ counted = {}
  /\ misacked = {}

-----------------------------------------------------------------------------
(* DeviceSession::get_a_f_cnt_down and set_a_f_cnt_down.                   *)
AFCntDown(s) == IF profile.v11 THEN s.a ELSE s.n
SetAFCntDown(s, c) == IF profile.v11 THEN [s EXCEPT !.a = c] ELSE [s EXCEPT !.n = c]

Queued == {i \in Item : queue[i] # NoRow}
Oldest == CHOOSE i \in Queued : \A j \in Queued : i <= j

Busy(t) == pc[t] # "idle"
Goto(t, step) == pc' = [pc EXCEPT ![t] = step]
Finish(t) == Goto(t, "idle") /\ task' = [task EXCEPT ![t] = NoTask]

InFlight == {k \in FrameId : frame[k].stage \in {"sent", "ok", "error"}}

(* A task may start.  Serial: one at a time, and no flow while a frame is  *)
(* waiting for its tx acknowledgement.                                     *)
IsFree(t) ==
  /\ ~Busy(t)
  /\ Serial => \A u \in Task : ~Busy(u)
MayStart(t) == IsFree(t) /\ (Serial => InFlight = {})

(* The final event of an item (or its flush) is counted up to "several".   *)
Settle(is) == final' = [i \in Item |-> IF i \in is /\ final[i] < 2
                                       THEN final[i] + 1 ELSE final[i]]

-----------------------------------------------------------------------------
(* Faulty variants of actions below, in the way a change to the code might *)
(* break them.  They are no part of the specification: each shows that a   *)
(* property notices the fault.                                             *)

(* The counter of the MIC of an acknowledgement is not checked.            *)
FaultyUplink(t, must) ==
  /\ MayStart(t)
  /\ must => May("macDownlinks")
  /\ device' = NoAck
  /\ locked' = TRUE
  /\ Goto(t, "update")
  /\ task' = [task EXCEPT ![t] = [NoTask EXCEPT !.kind = "response", !.snap = session,
                                     !.must = must, !.ackOf = device.item]]
  /\ UNCHANGED <<profile, session, queue, enqueued, frame, sent, final, accepted, counted, misacked>>

(* An item that is already gone is deleted and reported once more.         *)
DeleteAckedTwice(t) ==
  /\ pc[t] = "acked"
  /\ queue' = [queue EXCEPT ![task[t].item] = NoRow]
  /\ Settle({task[t].item})
  /\ task' = [task EXCEPT ![t].item = None]
  /\ Goto(t, "next")
  /\ UNCHANGED <<profile, session, locked, enqueued, frame, sent, device, accepted, counted, misacked>>

(* A pending item does not block the items behind it.                      *)
FaultyGetNext(t) ==
  /\ pc[t] = "next"
  /\ LET usable == {i \in Queued : ~queue[i].pending}
     IN \/ usable = {} /\ Finish(t)
        \/ \E i \in usable :
             /\ \A j \in usable : i <= j
             /\ task' = [task EXCEPT ![t].item = i, ![t].copy = queue[i]]
             /\ Goto(t, "putItem")
  /\ UNCHANGED <<profile, session, locked, queue, enqueued, frame, sent, device, final, accepted, counted, misacked>>

(* A negative tx acknowledgement is handled as a positive one.             *)
FaultyTxAck(t, k) ==
  /\ IsFree(t)
  /\ frame[k].stage \in {"ok", "error"}
  /\ frame' = [frame EXCEPT ![k] = Handled]
  /\ task' = [task EXCEPT ![t] = [NoTask EXCEPT !.kind = "txack",
                                     !.item = frame[k].payload, !.id = k,
                                     !.aFCnt = frame[k].aFCnt]]
  /\ Goto(t, "ackData")
  /\ UNCHANGED <<profile, session, locked, queue, enqueued, sent, device, final, accepted, counted, misacked>>

(* A pending item of a Class-C device gets no timeout.                     *)
FaultyAckPutItem(t) ==
  /\ pc[t] = "ackPut"
  /\ LET i == task[t].item
     IN IF i \in Queued
        THEN /\ queue' = [queue EXCEPT ![i] = IF i \in Confirmed
                                              THEN [task[t].copy EXCEPT !.pending = TRUE]
                                              ELSE NoRow]
             /\ Settle({i} \ Confirmed)
             /\ Goto(t, "ackSave")
             /\ UNCHANGED task
        ELSE Finish(t) /\ UNCHANGED <<queue, final>>
  /\ UNCHANGED <<profile, session, locked, enqueued, frame, sent, device, accepted, counted, misacked>>

(* The session is saved without the counter of a mac-only downlink.        *)
AckSaveItemsOnly(t) ==
  /\ pc[t] = "ackSave"
  /\ session' = IF task[t].item = None THEN task[t].snap
                ELSE SetAFCntDown(task[t].snap, task[t].aFCnt + 1)
  /\ counted' = counted \cup {task[t].id}
  /\ Finish(t)
  /\ UNCHANGED <<profile, locked, queue, enqueued, frame, sent, device, final, accepted, misacked>>

-----------------------------------------------------------------------------
(* API: enqueue.  The counter of an encrypted item is the caller's.        *)
Enqueue(c) ==
  /\ enqueued < profile.items
  /\ LET i == enqueued + 1
     IN /\ i \notin Encrypted => c = -1
        /\ i \in Encrypted => c \in 0 .. MaxFCnt - MaxFrames - 1
        /\ queue' = [queue EXCEPT ![i] = [pending |-> FALSE, timeout |-> "none", fCnt |-> c]]
        /\ enqueued' = i
  /\ UNCHANGED <<profile, session, locked, frame, sent, device, pc, task, final, accepted, counted, misacked>>

(* API: flush_queue deletes all items, enqueue with flush_queue those that *)
(* are not pending.                                                        *)
Flush(is) ==
  /\ May("flushes")
  /\ is # {}
  /\ is = Queued \/ is = {i \in Queued : ~queue[i].pending}
  /\ queue' = [i \in Item |-> IF i \in is THEN NoRow ELSE queue[i]]
  /\ Settle(is)
  /\ UNCHANGED <<profile, session, locked, enqueued, frame, sent, device, pc, task, accepted, counted, misacked>>

(* Time: timeout_after of a pending item passes.                           *)
TimeoutPasses(i) ==
  /\ queue[i].timeout = "running"
  /\ queue' = [queue EXCEPT ![i].timeout = "over"]
  /\ UNCHANGED <<profile, session, locked, enqueued, frame, sent, device, pc, task, final, accepted, counted, misacked>>

(* Time: scheduler_run_after passes.                                       *)
LockEnds ==
  /\ locked
  /\ TimelyTasks => \A t \in Task : task[t].kind # "scheduled"
  /\ locked' = FALSE
  /\ UNCHANGED <<profile, session, queue, enqueued, frame, sent, device, pc, task, final, accepted, counted, misacked>>

(* Time: the Redis key of a frame expires after 30 seconds.                *)
FrameExpires(k) ==
  /\ May("losesAcks")
  /\ frame[k].saved
  /\ frame' = [frame EXCEPT ![k].saved = FALSE]
  /\ UNCHANGED <<profile, session, locked, queue, enqueued, sent, device, pc, task, final, accepted, counted, misacked>>

-----------------------------------------------------------------------------
(* The gateway takes a frame and acknowledges it, positively or not (to    *)
(* the visited server if the device roams, see XmitDataAns).  The device   *)
(* may receive what is transmitted; it then owes an acknowledgement        *)
(* for a confirmed downlink.                                               *)
GatewayAccepts(k, received) ==
  /\ frame[k].stage = "sent"
  /\ frame' = [frame EXCEPT ![k].stage = IF profile.roaming THEN "done" ELSE "ok"]
  /\ accepted' = accepted \cup
                   {[payload |-> frame[k].payload, fCnt |-> frame[k].fCnt, id |-> k]}
  /\ device' = IF received /\ frame[k].payload \in Confirmed
               THEN [item |-> frame[k].payload, fCnt |-> frame[k].fCnt]
               ELSE device
  /\ UNCHANGED <<profile, session, locked, queue, enqueued, sent, pc, task, final, counted, misacked>>

GatewayRejects(k) ==
  /\ frame[k].stage = "sent"
  /\ frame' = [frame EXCEPT ![k].stage = IF profile.roaming THEN "done" ELSE "error"]
  /\ UNCHANGED <<profile, session, locked, queue, enqueued, sent, device, pc, task, final, accepted, counted, misacked>>

(* The command, or the tx acknowledgement of the gateway, is lost.         *)
MessageLost(k) ==
  /\ May("losesAcks")
  /\ k \in InFlight
  /\ frame' = [frame EXCEPT ![k] = IF profile.roaming THEN [@ EXCEPT !.stage = "done"]
                                  ELSE Handled]
  /\ UNCHANGED <<profile, session, locked, queue, enqueued, sent, device, pc, task, final, accepted, counted, misacked>>

(* The uplink that carries the device's acknowledgement is not received.   *)
AckLost ==
  /\ device # NoAck
  /\ device' = NoAck
  /\ UNCHANGED <<profile, session, locked, queue, enqueued, frame, sent, pc, task, final, accepted, counted, misacked>>

-----------------------------------------------------------------------------
(* uplink::data: the device row is loaded and the scheduler lock is set    *)
(* (with the frame-counter, module UplinkFCnt).  In LoRaWAN 1.1 the MIC of *)
(* an acknowledgement is computed over the counter that is acknowledged;   *)
(* with another conf_f_cnt the uplink is dropped.                          *)
Uplink(t, must) ==
  /\ MayStart(t)
  /\ must => May("macDownlinks")
  /\ device' = NoAck
  /\ IF profile.v11 /\ device # NoAck /\ session.conf # device.fCnt
     THEN UNCHANGED <<locked, pc, task>>
     ELSE /\ locked' = TRUE
          /\ Goto(t, "update")
          /\ task' = [task EXCEPT ![t] = [NoTask EXCEPT !.kind = "response", !.snap = session,
                                             !.must = must, !.ackOf = device.item]]
  /\ UNCHANGED <<profile, session, queue, enqueued, frame, sent, final, accepted, counted, misacked>>

(* uplink::data::update_device: the loaded session is written back.        *)
UpdateDevice(t) ==
  /\ pc[t] = "update"
  /\ session' = task[t].snap
  /\ Goto(t, IF task[t].ackOf = None THEN "next" ELSE "pending?")
  /\ UNCHANGED <<profile, locked, queue, enqueued, frame, sent, device, task, final, accepted, counted, misacked>>

(* handle_uplink_ack: any pending item of the device is taken as the one   *)
(* that is acknowledged ...                                                *)
GetPending(t) ==
  /\ pc[t] = "pending?"
  /\ LET pending == {i \in Queued : queue[i].pending}
     IN \/ /\ pending = {}
           /\ Goto(t, "next")
           /\ UNCHANGED task
        \/ \E i \in pending : /\ task' = [task EXCEPT ![t].item = i]
                              /\ Goto(t, "acked")
  /\ UNCHANGED <<profile, session, locked, queue, enqueued, frame, sent, device, final, accepted, counted, misacked>>

(* ... deleted, and reported with acknowledged = true.  Deleting no row is *)
(* an error that ends the uplink flow.                                     *)
DeleteAcked(t) ==
  /\ pc[t] = "acked"
  /\ LET i == task[t].item
     IN \/ /\ i \in Queued
           /\ queue' = [queue EXCEPT ![i] = NoRow]
           /\ Settle({i})
           /\ misacked' = IF task[t].ackOf = i THEN misacked ELSE misacked \cup {i}
           /\ task' = [task EXCEPT ![t].item = None]
           /\ Goto(t, "next")
        \/ /\ i \notin Queued
           /\ Finish(t)
           /\ UNCHANGED <<queue, final, misacked>>
  /\ UNCHANGED <<profile, session, locked, enqueued, frame, sent, device, accepted, counted>>

-----------------------------------------------------------------------------
(* get_with_class_b_c_queue_items: select and lock the device.  A pending  *)
(* row without a timeout_after compares to NULL and does not count.        *)
SelectDevice(t) ==
  /\ MayStart(t)
  /\ profile.class \in {"B", "C"}
  /\ ~locked
  /\ \E i \in Queued : ~queue[i].pending \/ queue[i].timeout = "over"
  /\ locked' = TRUE
  /\ task' = [task EXCEPT ![t] = [NoTask EXCEPT !.kind = "scheduled"]]
  /\ Goto(t, "load")
  /\ UNCHANGED <<profile, session, queue, enqueued, frame, sent, device, final, accepted, counted, misacked>>

(* The start of _handle_schedule_next_queue_item: the row is loaded and    *)
(* scheduler_run_after set; the flow may end here (no first uplink yet,    *)
(* ping-slot too far ahead).                                               *)
LoadDevice(t) ==
  /\ pc[t] = "load"
  /\ locked' = TRUE
  /\ \/ /\ task' = [task EXCEPT ![t].snap = session]
        /\ Goto(t, "next")
     \/ Finish(t)
  /\ UNCHANGED <<profile, session, queue, enqueued, frame, sent, device, final, accepted, counted, misacked>>

-----------------------------------------------------------------------------
(* get_next_device_queue_item: the item cannot be sent.                    *)
Unusable(t, i) ==
  \/ queue[i].pending
  \/ i \in Encrypted /\ queue[i].fCnt < AFCntDown(task[t].snap)

(* Without an item the flow goes on only if there is something to send.    *)
NoNextItem(t) ==
  \/ task[t].kind = "response" /\ profile.class = "B" /\ profile.onlyB
  \/ Queued = {}
  \/ \E i \in Queued : i = Oldest /\ queue[i].pending /\ queue[i].timeout = "running"

ContinueWithoutItem(t) ==
  IF task[t].must THEN Goto(t, "send") /\ UNCHANGED task ELSE Finish(t)

(* One iteration of the loop of get_next_device_queue_item.                *)
GetNext(t) ==
  /\ pc[t] = "next"
  /\ IF NoNextItem(t)
     THEN ContinueWithoutItem(t)
     ELSE
        /\ task' = [task EXCEPT ![t].item = Oldest, ![t].copy = queue[Oldest]]
        /\ \/ ~Unusable(t, Oldest) /\ Goto(t, "putItem")
           \/ (Unusable(t, Oldest) \/ Oldest \in Droppable) /\ Goto(t, "discard")
  /\ UNCHANGED <<profile, session, locked, queue, enqueued, frame, sent, device, final, accepted, counted, misacked>>

(* ... which deletes an item that cannot be sent, reports it (an ack event *)
(* with acknowledged = false, or an error log) and tries the next one.     *)
Discard(t) ==
  /\ pc[t] = "discard"
  /\ LET i == task[t].item
     IN \/ /\ i \in Queued
           /\ queue' = [queue EXCEPT ![i] = NoRow]
           /\ Settle({i})
           /\ task' = [task EXCEPT ![t].item = None, ![t].copy = NoRow]
           /\ Goto(t, "next")
        \/ /\ i \notin Queued
           /\ Finish(t)
           /\ UNCHANGED <<queue, final>>
  /\ UNCHANGED <<profile, session, locked, enqueued, frame, sent, device, accepted, counted, misacked>>

(* update_device_queue_item: f_cnt_down is set, the other columns are      *)
(* written as they were loaded.  A row that is gone ends the flow.         *)
UpdateQueueItem(t) ==
  /\ pc[t] = "putItem"
  /\ LET i == task[t].item
     IN \/ /\ i \in Encrypted
           /\ Goto(t, "send")
           /\ UNCHANGED <<queue, task>>
        \/ /\ i \notin Encrypted /\ i \in Queued
           /\ queue' = [queue EXCEPT ![i] = [task[t].copy EXCEPT
                                                !.fCnt = AFCntDown(task[t].snap)]]
           /\ Goto(t, "send")
           /\ UNCHANGED task
        \/ /\ i \notin Encrypted /\ i \notin Queued
           /\ Finish(t)
           /\ UNCHANGED queue
  /\ UNCHANGED <<profile, session, locked, enqueued, frame, sent, device, final, accepted, counted, misacked>>

(* The frame built by set_phy_payloads.  The item is left out when         *)
(* mac-commands fill the frame; that frame uses n_f_cnt_down.              *)
FrameOf(t, payload) ==
  LET s == task[t].snap
      i == task[t].item
      aFCnt == IF i \in Encrypted THEN task[t].copy.fCnt ELSE AFCntDown(s)
  IN [payload |-> payload,
      fCnt |-> IF payload = None THEN s.n ELSE aFCnt,
      aFCnt |-> aFCnt, saved |-> TRUE, stage |-> "sent"]

(* save_downlink_frame, update_device (response only: the loaded session   *)
(* is written back once more) and send_downlink_frame.  Redis may fail, in *)
(* the model always after the bound on frames; nothing is written or sent then.      *)
SendFrame(t) ==
  /\ pc[t] = "send"
  /\ \/ /\ sent < profile.frames
        /\ \E payload \in {task[t].item} \cup (IF task[t].must THEN {None} ELSE {}) :
             frame' = [frame EXCEPT ![sent + 1] = FrameOf(t, payload)]
        /\ sent' = sent + 1
        /\ session' = IF task[t].kind = "response" THEN task[t].snap ELSE session
        /\ IF profile.roaming
           THEN /\ Goto(t, "xmitAns")
                /\ task' = [task EXCEPT ![t] = [NoTask EXCEPT !.kind = "txack", !.id = sent + 1]]
           ELSE Finish(t)
     \/ /\ UNCHANGED <<frame, sent, session>>
        /\ Finish(t)
  /\ UNCHANGED <<profile, locked, queue, enqueued, device, final, accepted, counted, misacked>>

(* send_downlink_frame_passive_roaming and                                 *)
(* handle_passive_roaming_tx_ack: as soon as the visited server answers    *)
(* its XmitDataReq, the frame is acknowledged in the name of a gateway.    *)
XmitDataAns(t) ==
  /\ pc[t] = "xmitAns"
  /\ LET f == frame[task[t].id]
     IN \/ /\ f.saved
           /\ frame' = [frame EXCEPT ![task[t].id].saved = FALSE]
           /\ task' = [task EXCEPT ![t].item = f.payload, ![t].aFCnt = f.aFCnt]
           /\ Goto(t, "ackData")
        \/ /\ ~f.saved \/ May("losesAcks")
           /\ Finish(t)
           /\ UNCHANGED frame
  /\ UNCHANGED <<profile, session, locked, queue, enqueued, sent, device, final, accepted, counted, misacked>>

-----------------------------------------------------------------------------
(* tx_ack: get_and_del of the saved frame.  A negative acknowledgement is  *)
(* only logged, the item stays in the queue as it is.                      *)
TxAck(t, k) ==
  /\ IsFree(t)
  /\ frame[k].stage \in {"ok", "error"}
  /\ frame' = [frame EXCEPT ![k] = Handled]
  /\ IF frame[k].saved /\ frame[k].stage = "ok"
     THEN /\ task' = [task EXCEPT ![t] = [NoTask EXCEPT !.kind = "txack",
                                             !.item = frame[k].payload, !.id = k,
                                             !.aFCnt = frame[k].aFCnt]]
          /\ Goto(t, "ackData")
     ELSE UNCHANGED <<pc, task>>
  /\ UNCHANGED <<profile, session, locked, queue, enqueued, sent, device, final, accepted, counted, misacked>>

(* get_device_data.                                                        *)
AckGetDevice(t) ==
  /\ pc[t] = "ackData"
  /\ task' = [task EXCEPT ![t].snap = session]
  /\ Goto(t, IF task[t].item = None THEN "ackSave" ELSE "ackItem")
  /\ UNCHANGED <<profile, session, locked, queue, enqueued, frame, sent, device, final, accepted, counted, misacked>>

(* get_device_queue_item: an item that is gone ends the handling.          *)
AckGetItem(t) ==
  /\ pc[t] = "ackItem"
  /\ LET i == task[t].item
     IN \/ /\ i \in Queued
           /\ task' = [task EXCEPT ![t].copy = queue[i]]
           /\ Goto(t, "ackPut")
        \/ i \notin Queued /\ Finish(t)
  /\ UNCHANGED <<profile, session, locked, queue, enqueued, frame, sent, device, final, accepted, counted, misacked>>

(* delete_device_queue_item, or set_device_queue_item_pending, which also  *)
(* starts the timeout in Class-C, and in Class-B for a ping-slot downlink. *)
AckPutItem(t) ==
  /\ pc[t] = "ackPut"
  /\ LET i == task[t].item
         PendingRow(timeout) == [task[t].copy EXCEPT !.pending = TRUE, !.timeout = timeout]
         timeouts == CASE profile.class = "A" -> {task[t].copy.timeout}
                       [] profile.class = "B" -> {task[t].copy.timeout, "running"}
                       [] profile.class = "C" -> {"running"}
     IN \/ /\ i \in Queued /\ i \notin Confirmed
           /\ queue' = [queue EXCEPT ![i] = NoRow]
           /\ Settle({i})
           /\ Goto(t, "ackSave")
           /\ UNCHANGED task
        \/ /\ i \in Queued /\ i \in Confirmed
           /\ \E timeout \in timeouts : queue' = [queue EXCEPT ![i] = PendingRow(timeout)]
           /\ Goto(t, "ackSave")
           /\ UNCHANGED <<task, final>>
        \/ /\ i \notin Queued
           /\ Finish(t)
           /\ UNCHANGED <<queue, final>>
  /\ UNCHANGED <<profile, session, locked, enqueued, frame, sent, device, accepted, counted, misacked>>

(* set_device_session_conf_f_cnt, increment_a_f_cnt_down (or               *)
(* increment_n_f_cnt_down) on the loaded session, and save_device_session. *)
AckSaveSession(t) ==
  /\ pc[t] = "ackSave"
  /\ LET i == task[t].item
         s == task[t].snap
         conf == IF i \in Confirmed THEN [s EXCEPT !.conf = task[t].copy.fCnt] ELSE s
         next == IF i = None THEN [s EXCEPT !.n = @ + 1]
                 ELSE SetAFCntDown(conf, task[t].aFCnt + 1)
     IN session' = next
  /\ counted' = counted \cup {task[t].id}
  /\ Finish(t)
  /\ UNCHANGED <<profile, locked, queue, enqueued, frame, sent, device, final, accepted, misacked>>

(* A call between two steps returns an error, which ends the task; when    *)
(* the server stops all of them end.  What was written stays.              *)
Abort(t) ==
  /\ May("failures")
  /\ Busy(t)
  /\ Finish(t)
  /\ UNCHANGED <<profile, session, locked, queue, enqueued, frame, sent, device, final, accepted, counted, misacked>>

-----------------------------------------------------------------------------
ServerStep(t) ==
  \/ UpdateDevice(t) \/ GetPending(t) \/ DeleteAcked(t)
  \/ LoadDevice(t) \/ GetNext(t) \/ Discard(t) \/ UpdateQueueItem(t) \/ SendFrame(t)
  \/ XmitDataAns(t)
  \/ AckGetDevice(t) \/ AckGetItem(t) \/ AckPutItem(t) \/ AckSaveSession(t)

Next ==
  \/ \E c \in FCnt \cup {-1} : Enqueue(c)
  \/ \E is \in SUBSET Item : Flush(is)
  \/ \E i \in Item : TimeoutPasses(i)
  \/ LockEnds
  \/ \E k \in FrameId : FrameExpires(k) \/ MessageLost(k) \/ GatewayRejects(k)
  \/ \E k \in FrameId, received \in BOOLEAN : GatewayAccepts(k, received)
  \/ AckLost
  \/ \E t \in Task, must \in BOOLEAN : Uplink(t, must)
  \/ \E t \in Task : SelectDevice(t)
  \/ \E t \in Task, k \in FrameId : TxAck(t, k)
  \/ \E t \in Task : ServerStep(t) \/ Abort(t)

Spec == Init /\ [][Next]_vars

(* tokio keeps polling a task until it ends, the scheduler loop keeps      *)
(* selecting (the lock may come and go, hence SF), time passes, a gateway  *)
(* answers, the device is not for ever in a state in which a scheduled     *)
(* flow ends before it looks at the queue, and Redis does not fail for     *)
(* ever.                                                                   *)
FairSpec ==
  /\ Spec
  /\ \A t \in Task : /\ WF_vars(ServerStep(t))
                     /\ SF_vars(SelectDevice(t))
                     /\ SF_vars(LoadDevice(t) /\ pc'[t] = "next")
                     /\ SF_vars(SendFrame(t) /\ sent' # sent)
  /\ \A k \in FrameId : /\ SF_vars(\E t \in Task : TxAck(t, k))
                        /\ WF_vars(GatewayRejects(k) \/ GatewayAccepts(k, TRUE)
                                                     \/ GatewayAccepts(k, FALSE))
  /\ \A i \in Item : WF_vars(TimeoutPasses(i))
  /\ WF_vars(LockEnds)

-----------------------------------------------------------------------------
(* An item is pending only after a gateway accepted a frame with it, so a  *)
(* rejected or lost downlink is never reported as not acknowledged (if the *)
(* device does not roam: its downlinks count when they were forwarded).    *)
PendingWasAccepted ==
  ~profile.roaming => \A i \in Queued : queue[i].pending => \E f \in accepted : f.payload = i

(* A pending item is the oldest of the queue, hence there is at most one   *)
(* and handle_uplink_ack, which takes any, has no choice.                  *)
PendingIsOldest == \A i \in Queued : queue[i].pending => i = Oldest

(* Whatever tasks compete for an item, it leaves the queue once, with      *)
(* exactly one final event (or flush).                                     *)
SettledOnce ==
  \A i \in 1 .. enqueued : final[i] = IF i \in Queued THEN 0 ELSE 1

(* While flows do not overlap, the counter of one key is used for two      *)
(* different downlinks only if the tx acknowledgement of the first never   *)
(* made it into the session: it was lost, late, or about a flushed item.   *)
SameCounter(p, q) == profile.v11 => (p = None <=> q = None)
Reuses(g, f) == f.id < g.id /\ f.fCnt = g.fCnt /\ SameCounter(f.payload, g.payload)
NoCounterReuse ==
  Serial => \A f, g \in accepted : Reuses(g, f) => f.id \notin counted

(* An ack event with acknowledged = true is about the downlink the device  *)
(* acknowledged, while flows do not overlap: in Class-A, where a confirmed *)
(* downlink is answered or given up with the next uplink, and in LoRaWAN   *)
(* 1.1, where the counter in the MIC ties the two together, as long as     *)
(* every tx acknowledgement made it into the session.                      *)
MisackImpossible ==
  Serial /\ (profile.class = "A" \/ (profile.v11 /\ \A f \in accepted : f.id \in counted))
AckEventTruthful == MisackImpossible => misacked = {}

(* The documentation of the ack event ("Frame was acknowledged.", with the *)
(* queue-item and the frame counter it relates to) has no such exception.  *)
AckEventAlwaysTruthful == misacked = {}

(* While flows do not overlap, the queue is the one users rely on: first   *)
(* in first out, an unacknowledged confirmed item blocking the others.     *)
(* Flows that overlap promise no more than the invariants above: their     *)
(* queue is mapped to one that never gets an item.                         *)
Life == [i \in Item |-> IF ~Serial \/ i > enqueued THEN "new"
                        ELSE IF i \notin Queued THEN "gone"
                        ELSE IF queue[i].pending THEN "pending" ELSE "waiting"]
Abstract == INSTANCE DownlinkQueue WITH life <- Life
RefinesDownlinkQueue == Abstract!Spec

(* In Class-C every item leaves the queue without any help of the device,  *)
(* unless the bound on frames ends the behaviour first.                    *)
ItemsLeaveQueue ==
  \A i \in Item : profile.class = "C" /\ i \in Queued ~> i \notin Queued \/ sent = profile.frames
=============================================================================
