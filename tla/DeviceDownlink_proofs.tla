------------------------ MODULE DeviceDownlink_proofs ------------------------
(***************************************************************************)
(* Proofs about DeviceDownlink for any number of tasks, items, frames and  *)
(* any set of profiles: type correctness, the order of the queue, the end  *)
(* of every item, what is pending, and, while flows do not overlap, the    *)
(* refinement of DownlinkQueue, the frame-counters, and the truth of the   *)
(* ack events.                                                             *)
(*                                                                         *)
(* Parts: effects of the actions; Basics, which every other invariant      *)
(* needs; SettledOnce; PendingWasAccepted; one flow at a time; the         *)
(* refinement; the counters (CountersInv); the ack events (TruthInv).      *)
(***************************************************************************)
EXTENDS DeviceDownlink, WellFoundedInduction, TLAPS

USE DownlinkAssumption

-----------------------------------------------------------------------------
(* A set of numbers has a smallest one.                                    *)
LEMMA SmallestNumber ==
  ASSUME NEW T, T \subseteq Nat, T # {}
  PROVE  \E i \in T : \A j \in T : i <= j
<1> DEFINE R == {ss \in Nat \X Nat : ss[1] < ss[2]}
<1>1. IsWellFoundedOn(R, Nat)
  BY NatLessThanWellFounded DEF OpToRel
<1>2. PICK i \in T : \A j \in T : ~(<<j, i>> \in R)
  BY <1>1, WFMin
<1>3. \A j \in T : ~(j < i)
  BY <1>2
<1> QED
  BY <1>3

(* The oldest item of a queue that is not empty.                           *)
LEMMA OldestIsFirst ==
  ASSUME Queued # {}
  PROVE  Oldest \in Queued /\ \A j \in Queued : Oldest <= j
<1>1. Queued \subseteq Nat
  BY DEF Queued, Item
<1>2. \E i \in Queued : \A j \in Queued : i <= j
  BY <1>1, SmallestNumber
<1> QED
  BY <1>2 DEF Oldest

(* The items that were enqueued and have no older one in the queue.        *)
(* Whatever a task or a frame holds, and whatever is pending, is of them.  *)
Passed == {i \in 1 .. enqueued : \A j \in Queued : i <= j}
Pending == {i \in Queued : queue[i].pending}
ItemsPassed ==
  /\ Queued \subseteq 1 .. enqueued
  /\ \A t \in Task : task[t].item \in Passed \cup {None}
  /\ \A k \in FrameId : frame[k].payload \in Passed \cup {None}
  /\ Pending \subseteq Passed

(* A row whose item was put into a frame has a counter, as has a row of an *)
(* encrypted item; so have the copies of such rows.                        *)
Unnumbered == {i \in Queued : queue[i].fCnt \notin Nat}
TaskHasFCnt(t) ==
  /\ pc[t] \in {"putItem", "send"} /\ task[t].item \in Encrypted => task[t].copy.fCnt \in Nat
  /\ pc[t] = "putItem" => task[t].copy \in Row
  /\ pc[t] \in {"send", "xmitAns", "ackData", "ackItem", "ackPut"} => task[t].item \notin Unnumbered
  /\ pc[t] \in {"ackPut", "ackSave"} /\ task[t].item # None
       => task[t].copy \in Row /\ task[t].copy.fCnt \in Nat
HasFCnt ==
  /\ Encrypted \cap Unnumbered = {}
  /\ \A k \in FrameId : frame[k].payload \notin Unnumbered
  /\ \A t \in Task : TaskHasFCnt(t)

ItemFree == \A t \in Task :
  pc[t] \in {"idle", "update", "pending?", "load", "next", "xmitAns"} => task[t].item = None
ItemHeld == \A t \in Task :
  pc[t] \in {"acked", "discard", "putItem", "ackItem", "ackPut"} => task[t].item \in Item

AnswersKnown == \A t \in Task :
  pc[t] \in {"xmitAns", "ackData", "ackItem", "ackPut", "ackSave"} => task[t].id \in FrameId

Basics == TypeOK /\ ItemFree /\ ItemHeld /\ AnswersKnown /\ ItemsPassed /\ HasFCnt

-----------------------------------------------------------------------------
LEMMA Kinds ==
  /\ Item \subseteq Nat /\ None \notin Item /\ None \in Nat /\ FrameId \subseteq Nat
  /\ NoRow \notin Row
  /\ NoTask \in TaskData /\ NoTask.item = None
  /\ NoFrame \in Frame /\ Handled \in Frame /\ NoFrame.payload = None /\ Handled.payload = None
  /\ NoAck \in [item : Item \cup {None}, fCnt : Nat]
<1>1. Item \subseteq Nat /\ None \notin Item /\ None \in Nat /\ FrameId \subseteq Nat
  BY DEF Item, None, FrameId
<1>2. NoRow \notin Row
  BY DEF NoRow, Row
<1>3. NoTask \in TaskData /\ NoTask.item = None
  BY DEF NoTask, TaskData, Session
<1>4. /\ NoFrame \in Frame /\ Handled \in Frame
      /\ NoFrame.payload = None /\ Handled.payload = None
  BY DEF NoFrame, Handled, Frame
<1>5. NoAck \in [item : Item \cup {None}, fCnt : Nat]
  BY DEF NoAck
<1> QED
  BY <1>1, <1>2, <1>3, <1>4, <1>5

LEMMA Stages == NoFrame.stage = "none" /\ ~NoFrame.saved /\ Handled.stage = "done" /\ ~Handled.saved
  BY DEF NoFrame, Handled

LEMMA TypeInit == Init => TypeOK
<1> SUFFICES ASSUME Init PROVE TypeOK
  OBVIOUS
<1>1. profile \in Profile
  BY DEF Init
<1>2. session \in Session /\ locked \in BOOLEAN
  BY DEF Init, Session
<1>6. enqueued \in 0 .. NItems /\ sent \in 0 .. MaxFrames
  BY DEF Init
<1>3. device \in [item : Item \cup {None}, fCnt : Nat] /\ frame \in [FrameId -> Frame]
  BY Kinds DEF Init
<1>4. pc \in [Task -> Steps] /\ task \in [Task -> TaskData]
  BY Kinds DEF Init, Steps
<1>5. /\ queue \in [Item -> Row \cup {NoRow}] /\ final \in [Item -> 0 .. 2]
      /\ accepted = {} /\ counted = {} /\ misacked = {}
  BY DEF Init
<1> QED
  BY <1>1, <1>2, <1>3, <1>4, <1>5, <1>6 DEF TypeOK

LEMMA CounterType ==
  ASSUME NEW s \in Session
  PROVE /\ AFCntDown(s) \in Nat
        /\ \A c \in Nat : SetAFCntDown(s, c) \in Session
  BY DEF AFCntDown, SetAFCntDown, Session

(* Ending a task.                                                          *)
LEMMA FinishEffect ==
  ASSUME TypeOK, NEW t \in Task, Finish(t)
  PROVE  /\ pc'[t] = "idle" /\ task'[t] = NoTask
         /\ \A u \in Task \ {t} : pc'[u] = pc[u] /\ task'[u] = task[u]
         /\ pc' \in [Task -> Steps] /\ task' \in [Task -> TaskData]
  BY Kinds DEF TypeOK, Finish, Goto, Steps

LEMMA GotoEffect ==
  ASSUME TypeOK, NEW t \in Task, NEW step \in Steps, Goto(t, step)
  PROVE  /\ pc'[t] = step
         /\ \A u \in Task \ {t} : pc'[u] = pc[u]
         /\ pc' \in [Task -> Steps]
  BY DEF TypeOK, Goto

LEMMA SettleType ==
  ASSUME TypeOK, NEW is \in SUBSET Item, Settle(is)
  PROVE  final' \in [Item -> 0 .. 2]
  BY DEF TypeOK, Settle

(* A record of the queue, the tasks and the frames with one field changed. *)
LEMMA Records ==
  /\ \A r \in Row : r.pending \in BOOLEAN /\ r.timeout \in {"none", "running", "over"}
                   /\ r.fCnt \in Nat \cup {-1}
  /\ \A r \in TaskData : /\ r.snap \in Session /\ r.item \in Item \cup {None}
                        /\ r.copy \in Row \cup {NoRow} /\ r.ackOf \in Item \cup {None}
                        /\ r.id \in 0 .. MaxFrames /\ r.aFCnt \in Nat
                        /\ r.must \in BOOLEAN
  /\ \A f \in Frame : /\ f.payload \in Item \cup {None} /\ f.fCnt \in Nat /\ f.aFCnt \in Nat
                     /\ f.saved \in BOOLEAN
  BY DEF Row, TaskData, Frame

LEMMA TypeEnqueue ==
  ASSUME TypeOK, NEW c \in FCnt \cup {-1}, Enqueue(c)
  PROVE  TypeOK'
<1> DEFINE i == enqueued + 1
           new == [pending |-> FALSE, timeout |-> "none", fCnt |-> c]
<1>1. new \in Row /\ profile.items \in 0 .. NItems
  BY DEF Row, FCnt, TypeOK, Profile
<1>2. i \in Item /\ enqueued' \in 0 .. NItems
  BY <1>1 DEF Enqueue, TypeOK, Item
<1>3. queue' \in [Item -> Row \cup {NoRow}]
  BY <1>1, <1>2 DEF Enqueue, TypeOK
<1> QED
  BY <1>2, <1>3 DEF Enqueue, TypeOK

LEMMA TypeEnvironment ==
  ASSUME TypeOK,
         \/ \E is \in SUBSET Item : Flush(is)
         \/ \E i \in Item : TimeoutPasses(i)
         \/ LockEnds
         \/ \E k \in FrameId : FrameExpires(k) \/ MessageLost(k) \/ GatewayRejects(k)
         \/ \E k \in FrameId, received \in BOOLEAN : GatewayAccepts(k, received)
         \/ AckLost
  PROVE  TypeOK'
<1>1. ASSUME NEW is \in SUBSET Item, Flush(is) PROVE TypeOK'
  <2>1. queue' \in [Item -> Row \cup {NoRow}]
    BY <1>1 DEF Flush, TypeOK
  <2> QED
    BY <1>1, <2>1, SettleType DEF Flush, TypeOK
<1>2. ASSUME NEW i \in Item, TimeoutPasses(i) PROVE TypeOK'
  <2>1. queue[i] \in Row /\ [queue[i] EXCEPT !.timeout = "over"] \in Row
    BY <1>2 DEF TimeoutPasses, TypeOK, NoRow, Row
  <2>2. queue' \in [Item -> Row \cup {NoRow}]
    BY <1>2, <2>1 DEF TimeoutPasses, TypeOK
  <2> QED
    BY <1>2, <2>2 DEF TimeoutPasses, TypeOK
<1>3. CASE LockEnds
  BY <1>3 DEF LockEnds, TypeOK
<1>4. ASSUME NEW k \in FrameId, FrameExpires(k) \/ MessageLost(k) \/ GatewayRejects(k) PROVE TypeOK'
  <2>1. /\ [frame[k] EXCEPT !.saved = FALSE] \in Frame
        /\ \A stage \in {"done", "error"} : [frame[k] EXCEPT !.stage = stage] \in Frame
    BY DEF TypeOK, Frame
  <2>2. frame' \in [FrameId -> Frame]
    BY <1>4, <2>1, Kinds DEF FrameExpires, MessageLost, GatewayRejects, TypeOK
  <2> QED
    BY <1>4, <2>2 DEF FrameExpires, MessageLost, GatewayRejects, TypeOK
<1>5. ASSUME NEW k \in FrameId, NEW received \in BOOLEAN, GatewayAccepts(k, received) PROVE TypeOK'
  <2>1. \A stage \in {"done", "ok"} : [frame[k] EXCEPT !.stage = stage] \in Frame
    BY DEF TypeOK, Frame
  <2>2. frame' \in [FrameId -> Frame]
    BY <1>5, <2>1 DEF GatewayAccepts, TypeOK
  <2>3. frame[k].payload \in Item \cup {None} /\ frame[k].fCnt \in Nat
    BY Records DEF TypeOK
  <2>4. /\ device' \in [item : Item \cup {None}, fCnt : Nat]
        /\ accepted' \subseteq [payload : Item \cup {None}, fCnt : Nat, id : FrameId]
    BY <1>5, <2>3 DEF GatewayAccepts, TypeOK
  <2> QED
    BY <1>5, <2>2, <2>4 DEF GatewayAccepts, TypeOK
<1>6. CASE AckLost
  BY <1>6, Kinds DEF AckLost, TypeOK
<1> QED
  BY <1>1, <1>2, <1>3, <1>4, <1>5, <1>6

LEMMA TypeUplink ==
  ASSUME TypeOK, NEW t \in Task, NEW must \in BOOLEAN, Uplink(t, must)
  PROVE  TypeOK'
<1>1. device' \in [item : Item \cup {None}, fCnt : Nat]
  BY Kinds DEF Uplink
<1>2. [NoTask EXCEPT !.kind = "response", !.snap = session, !.must = must,
                     !.ackOf = device.item] \in TaskData
  <2>1. device.item \in Item \cup {None} /\ session \in Session
    BY DEF TypeOK
  <2> QED
    BY <2>1, Kinds DEF TaskData
<1>3. pc' \in [Task -> Steps] /\ task' \in [Task -> TaskData] /\ locked' \in BOOLEAN
  BY <1>2 DEF Uplink, Goto, Steps, TypeOK
<1> QED
  BY <1>1, <1>3 DEF Uplink, TypeOK

LEMMA TypeFlow ==
  ASSUME TypeOK, HasFCnt, ItemHeld, NEW t \in Task,
         \/ UpdateDevice(t) \/ GetPending(t) \/ DeleteAcked(t) \/ SelectDevice(t)
         \/ LoadDevice(t) \/ GetNext(t) \/ Discard(t) \/ UpdateQueueItem(t)
  PROVE  TypeOK'
<1>0. task[t] \in TaskData /\ session \in Session
  BY DEF TypeOK
<1>1. CASE UpdateDevice(t)
  BY <1>0, <1>1, Records, GotoEffect DEF UpdateDevice, TypeOK, Steps
<1>2. CASE GetPending(t)
  <2>1. \A i \in Item : [task[t] EXCEPT !.item = i] \in TaskData
    BY <1>0 DEF TaskData
  <2>2. task' \in [Task -> TaskData]
    BY <1>2, <2>1 DEF GetPending, TypeOK, Queued
  <2>3. pc' \in [Task -> Steps]
    BY <1>2, GotoEffect DEF GetPending, Steps
  <2> QED
    BY <1>2, <2>2, <2>3 DEF GetPending, TypeOK
<1>3. CASE DeleteAcked(t)
  <2>1. [task[t] EXCEPT !.item = None] \in TaskData
    BY <1>0 DEF TaskData
  <2>2. task' \in [Task -> TaskData] /\ pc' \in [Task -> Steps]
    BY <1>3, <2>1, GotoEffect, FinishEffect DEF DeleteAcked, TypeOK, Steps
  <2>3. task[t].item \in Item
    BY <1>3 DEF DeleteAcked, ItemHeld
  <2>4. queue' \in [Item -> Row \cup {NoRow}] /\ misacked' \subseteq Item
    BY <1>3, <2>3 DEF DeleteAcked, TypeOK
  <2>5. final' \in [Item -> 0 .. 2]
    BY <1>3, <2>3, SettleType DEF DeleteAcked, TypeOK
  <2> QED
    BY <1>3, <2>2, <2>4, <2>5 DEF DeleteAcked, TypeOK
<1>4. CASE SelectDevice(t)
  <2>1. [NoTask EXCEPT !.kind = "scheduled"] \in TaskData
    BY Kinds DEF TaskData
  <2>2. task' \in [Task -> TaskData] /\ pc' \in [Task -> Steps] /\ locked' \in BOOLEAN
    BY <1>4, <2>1, GotoEffect DEF SelectDevice, TypeOK, Steps
  <2> QED
    BY <1>4, <2>2 DEF SelectDevice, TypeOK
<1>5. CASE LoadDevice(t)
  <2>1. [task[t] EXCEPT !.snap = session] \in TaskData
    BY <1>0 DEF TaskData
  <2>2. task' \in [Task -> TaskData] /\ pc' \in [Task -> Steps] /\ locked' \in BOOLEAN
    BY <1>5, <2>1, GotoEffect, FinishEffect DEF LoadDevice, TypeOK, Steps
  <2> QED
    BY <1>5, <2>2 DEF LoadDevice, TypeOK
<1>6. CASE GetNext(t)
  <2>1. CASE NoNextItem(t)
    <3>1. pc' \in [Task -> Steps] /\ task' \in [Task -> TaskData]
      BY <1>6, <2>1, GotoEffect, FinishEffect DEF GetNext, ContinueWithoutItem, Steps, TypeOK
    <3> QED
      BY <1>6, <3>1 DEF GetNext, TypeOK
  <2>2. CASE ~NoNextItem(t)
    <3>1. Oldest \in Item /\ queue[Oldest] \in Row \cup {NoRow}
      BY <2>2, OldestIsFirst DEF NoNextItem, Queued, TypeOK
    <3>2. [task[t] EXCEPT !.item = Oldest, !.copy = queue[Oldest]] \in TaskData
      BY <1>0, <3>1 DEF TaskData
    <3>3. pc' \in [Task -> Steps]
      BY <1>6, <2>2, GotoEffect DEF GetNext, Steps
    <3>4. task' \in [Task -> TaskData]
      BY <1>6, <2>2, <3>2 DEF GetNext, TypeOK
    <3> QED
      BY <1>6, <3>3, <3>4 DEF GetNext, TypeOK
  <2> QED
    BY <2>1, <2>2
<1>7. CASE Discard(t)
  <2>1. [task[t] EXCEPT !.item = None, !.copy = NoRow] \in TaskData
    BY <1>0 DEF TaskData
  <2>2. task' \in [Task -> TaskData]
    BY <1>7, <2>1, FinishEffect DEF Discard, TypeOK
  <2>6. pc' \in [Task -> Steps]
    BY <1>7, GotoEffect, FinishEffect DEF Discard, Steps
  <2>3. task[t].item \in Item
    BY <1>7 DEF Discard, ItemHeld
  <2>4. queue' \in [Item -> Row \cup {NoRow}]
    BY <1>7, <2>3 DEF Discard, TypeOK
  <2>5. final' \in [Item -> 0 .. 2]
    BY <1>7, <2>3, SettleType DEF Discard, TypeOK
  <2> QED
    BY <1>7, <2>2, <2>4, <2>5, <2>6 DEF Discard, TypeOK
<1>8. CASE UpdateQueueItem(t)
  <2>1. pc' \in [Task -> Steps] /\ task' \in [Task -> TaskData]
    BY <1>8, GotoEffect, FinishEffect DEF UpdateQueueItem, TypeOK, Steps
  <2>2. task[t].copy \in Row /\ AFCntDown(task[t].snap) \in Nat
    BY <1>0, <1>8, CounterType, Records DEF UpdateQueueItem, HasFCnt, TaskHasFCnt
  <2>3. [task[t].copy EXCEPT !.fCnt = AFCntDown(task[t].snap)] \in Row
    BY <2>2 DEF Row
  <2>4. queue' \in [Item -> Row \cup {NoRow}]
    BY <1>8, <2>3 DEF UpdateQueueItem, TypeOK
  <2> QED
    BY <1>8, <2>1, <2>4 DEF UpdateQueueItem, TypeOK
<1> QED
  BY <1>1, <1>2, <1>3, <1>4, <1>5, <1>6, <1>7, <1>8

LEMMA TypeSend ==
  ASSUME TypeOK, HasFCnt, NEW t \in Task, SendFrame(t)
  PROVE  TypeOK'
<1>0. task[t] \in TaskData /\ session \in Session
  BY DEF TypeOK
<1>1. CASE sent' = sent + 1
  <2>1. sent + 1 \in FrameId /\ sent' \in 0 .. MaxFrames
    BY <1>1 DEF SendFrame, TypeOK, FrameId, Profile
  <2>2. ASSUME NEW payload \in {task[t].item, None} PROVE FrameOf(t, payload) \in Frame
    <3>1. /\ task[t].item \in Item \cup {None} /\ task[t].snap \in Session
          /\ AFCntDown(task[t].snap) \in Nat /\ task[t].snap.n \in Nat
      BY <1>0, Records, CounterType DEF Session
    <3>2. task[t].item \in Encrypted => task[t].copy.fCnt \in Nat
      BY DEF HasFCnt, TaskHasFCnt, SendFrame
    <3> QED
      BY <3>1, <3>2 DEF FrameOf, Frame
  <2>3. frame' \in [FrameId -> Frame]
    BY <1>1, <2>1, <2>2 DEF SendFrame, TypeOK
  <2>4. session' \in Session
    BY <1>0, <1>1, Records DEF SendFrame
  <2>5. [NoTask EXCEPT !.kind = "txack", !.id = sent + 1] \in TaskData
    BY <1>1, <2>1, Kinds DEF TaskData, SendFrame
  <2>6. pc' \in [Task -> Steps] /\ task' \in [Task -> TaskData]
    BY <2>5, GotoEffect, FinishEffect DEF SendFrame, TypeOK, Steps
  <2> QED
    BY <2>1, <2>3, <2>4, <2>6 DEF SendFrame, TypeOK
<1>2. CASE UNCHANGED <<frame, sent, session>>
  BY <1>2, GotoEffect, FinishEffect DEF SendFrame, TypeOK, Steps
<1> QED
  BY <1>1, <1>2 DEF SendFrame

(* What AckPutItem does to the queue, whatever the class of the device.    *)
PutAway(t) ==
  LET i == task[t].item
  IN \/ /\ i \in Queued /\ i \notin Confirmed
        /\ queue' = [queue EXCEPT ![i] = NoRow]
        /\ Settle({i})
        /\ Goto(t, "ackSave") /\ UNCHANGED task
     \/ /\ i \in Queued /\ i \in Confirmed
        /\ \E row \in Row : /\ row.pending /\ row.fCnt = task[t].copy.fCnt
                           /\ queue' = [queue EXCEPT ![i] = row]
        /\ Goto(t, "ackSave") /\ UNCHANGED <<task, final>>
     \/ i \notin Queued /\ Finish(t) /\ UNCHANGED <<queue, final>>

LEMMA AckPutEffect ==
  ASSUME TypeOK, HasFCnt, ItemHeld, NEW t \in Task, AckPutItem(t)
  PROVE  PutAway(t)
<1> DEFINE i == task[t].item
           Put(timeout) == [task[t].copy EXCEPT !.pending = TRUE, !.timeout = timeout]
<1>1. i \in Item /\ task[t].copy \in Row
  BY Kinds DEF AckPutItem, HasFCnt, TaskHasFCnt, ItemHeld
<1>2. \A timeout \in {task[t].copy.timeout, "running"} :
        /\ Put(timeout) \in Row /\ Put(timeout).pending
        /\ Put(timeout).fCnt = task[t].copy.fCnt
  BY <1>1 DEF Row
<1>3. ASSUME i \in Queued, i \in Confirmed
      PROVE  /\ \E timeout \in {task[t].copy.timeout, "running"} : queue' = [queue EXCEPT ![i] = Put(timeout)]
             /\ Goto(t, "ackSave") /\ UNCHANGED <<task, final>>
  <2>1. CASE profile.class = "A"
    BY <1>3, <2>1 DEF AckPutItem
  <2>2. CASE profile.class = "B"
    BY <1>3, <2>2 DEF AckPutItem
  <2>3. CASE profile.class = "C"
    BY <1>3, <2>3 DEF AckPutItem
  <2>4. profile.class \in {"A", "B", "C"}
    BY DEF TypeOK, Profile
  <2> QED
    BY <2>1, <2>2, <2>3, <2>4
<1>4. CASE i \in Queued /\ i \in Confirmed
  BY <1>2, <1>3, <1>4 DEF PutAway
<1>5. CASE ~(i \in Queued /\ i \in Confirmed)
  BY <1>5 DEF AckPutItem, PutAway
<1> QED
  BY <1>4, <1>5

LEMMA TypeAck ==
  ASSUME TypeOK, HasFCnt, ItemHeld, AnswersKnown, NEW t \in Task,
         \/ XmitDataAns(t) \/ (\E k \in FrameId : TxAck(t, k))
         \/ AckGetDevice(t) \/ AckGetItem(t) \/ AckPutItem(t) \/ AckSaveSession(t) \/ Abort(t)
  PROVE  TypeOK'
<1>0. task[t] \in TaskData /\ session \in Session
  BY DEF TypeOK
<1>1. CASE XmitDataAns(t)
  <2> DEFINE k == task[t].id
  <2>0. k \in FrameId /\ frame[k] \in Frame
    BY <1>1 DEF XmitDataAns, AnswersKnown, TypeOK
  <2>1. /\ [frame[k] EXCEPT !.saved = FALSE] \in Frame
        /\ [task[t] EXCEPT !.item = frame[k].payload, !.aFCnt = frame[k].aFCnt] \in TaskData
    BY <1>0, <2>0, Records DEF Frame, TaskData
  <2>2. frame' \in [FrameId -> Frame]
    BY <1>1, <2>0, <2>1 DEF XmitDataAns, TypeOK
  <2>3. pc' \in [Task -> Steps]
    BY <1>1, GotoEffect, FinishEffect DEF XmitDataAns, Steps
  <2>4. task' \in [Task -> TaskData]
    BY <1>1, <2>1, FinishEffect DEF XmitDataAns, TypeOK
  <2> QED
    BY <1>1, <2>2, <2>3, <2>4 DEF XmitDataAns, TypeOK
<1>2. ASSUME NEW k \in FrameId, TxAck(t, k) PROVE TypeOK'
  <2>1. frame' \in [FrameId -> Frame]
    BY <1>2, Kinds DEF TxAck, TypeOK
  <2>2. [NoTask EXCEPT !.kind = "txack", !.item = frame[k].payload, !.id = k,
                       !.aFCnt = frame[k].aFCnt] \in TaskData
    <3>1. frame[k] \in Frame /\ k \in 0 .. MaxFrames
      BY DEF TypeOK, FrameId
    <3> QED
      BY <3>1, Kinds, Records DEF TaskData
  <2>3. pc' \in [Task -> Steps] /\ task' \in [Task -> TaskData]
    BY <1>2, <2>2, GotoEffect DEF TxAck, TypeOK, Steps
  <2> QED
    BY <1>2, <2>1, <2>3 DEF TxAck, TypeOK
<1>3. CASE AckGetDevice(t)
  <2>1. [task[t] EXCEPT !.snap = session] \in TaskData
    BY <1>0 DEF TaskData
  <2>2. pc' \in [Task -> Steps] /\ task' \in [Task -> TaskData]
    BY <1>3, <2>1, GotoEffect DEF AckGetDevice, TypeOK, Steps
  <2> QED
    BY <1>3, <2>2 DEF AckGetDevice, TypeOK
<1>4. CASE AckGetItem(t)
  <2>1. \A row \in Row \cup {NoRow} : [task[t] EXCEPT !.copy = row] \in TaskData
    BY <1>0 DEF TaskData
  <2>2. pc' \in [Task -> Steps] /\ task' \in [Task -> TaskData]
    BY <1>4, <2>1, GotoEffect, FinishEffect DEF AckGetItem, TypeOK, Queued, Steps
  <2> QED
    BY <1>4, <2>2 DEF AckGetItem, TypeOK
<1>5. CASE AckPutItem(t)
  <2>1. task[t].item \in Item
    BY <1>5 DEF AckPutItem, ItemHeld
  <2>2. PutAway(t)
    BY <1>5, AckPutEffect
  <2>3. queue' \in [Item -> Row \cup {NoRow}]
    BY <2>2 DEF PutAway, TypeOK
  <2>4. final' \in [Item -> 0 .. 2]
    BY <2>1, <2>2, SettleType DEF PutAway, TypeOK
  <2>5. pc' \in [Task -> Steps] /\ task' \in [Task -> TaskData]
    BY <2>2, GotoEffect, FinishEffect DEF PutAway, TypeOK, Steps
  <2> QED
    BY <1>5, <2>3, <2>4, <2>5 DEF AckPutItem, TypeOK
<1>6. CASE AckSaveSession(t)
  <2> DEFINE s == task[t].snap
             conf == IF task[t].item \in Confirmed THEN [s EXCEPT !.conf = task[t].copy.fCnt] ELSE s
  <2>1. profile.confirmed \subseteq Item
    BY DEF TypeOK, Profile
  <2>2. conf \in Session /\ [s EXCEPT !.n = @ + 1] \in Session
    BY <1>0, <1>6, <2>1, Kinds, Records DEF AckSaveSession, HasFCnt, TaskHasFCnt, Session, Confirmed
  <2>3. session' \in Session
    <3>1. task[t].aFCnt + 1 \in Nat
      BY <1>0, Records
    <3>2. \A x \in Session : SetAFCntDown(x, task[t].aFCnt + 1) \in Session
      BY <3>1, CounterType
    <3> QED
      BY <1>6, <2>2, <3>2 DEF AckSaveSession
  <2>4. pc' \in [Task -> Steps] /\ task' \in [Task -> TaskData]
    BY <1>6, FinishEffect DEF AckSaveSession
  <2>5. counted' \subseteq FrameId
    BY <1>6 DEF AckSaveSession, AnswersKnown, TypeOK
  <2> QED
    BY <1>6, <2>3, <2>4, <2>5 DEF AckSaveSession, TypeOK
<1>7. CASE Abort(t)
  BY <1>7, FinishEffect DEF Abort, TypeOK
<1> QED
  BY <1>1, <1>2, <1>3, <1>4, <1>5, <1>6, <1>7

-----------------------------------------------------------------------------
(* What the actions do, item by item, frame by frame and task by task.     *)
Others(t) == \A u \in Task \ {t} : pc'[u] = pc[u] /\ task'[u] = task[u]
Ended(t) == pc'[t] = "idle" /\ task'[t] = NoTask /\ Others(t)
Step(t, from, to) == pc[t] = from /\ pc'[t] = to /\ Others(t)
OtherRows(i) == \A j \in Item \ {i} : queue'[j] = queue[j]
OtherFrames(k) == \A j \in FrameId \ {k} : frame'[j] = frame[j]

LEMMA Goes ==
  ASSUME TypeOK, NEW t \in Task
  PROVE  /\ Finish(t) => Ended(t)
         /\ \A from, to : pc[t] = from /\ Goto(t, to) /\ UNCHANGED task
              => Step(t, from, to) /\ task'[t] = task[t]
  BY DEF TypeOK, Finish, Goto, Ended, Step, Others

(* A row is deleted.                                                       *)
Deletes(i) ==
  /\ OtherRows(i) /\ Queued' = Queued \ {i} /\ Pending' = Pending \ {i}
  /\ \A j \in Item : final'[j] = IF j = i /\ final[j] < 2 THEN final[j] + 1 ELSE final[j]

LEMMA Deleted ==
  ASSUME TypeOK, NEW i \in Item, queue' = [queue EXCEPT ![i] = NoRow], Settle({i})
  PROVE  Deletes(i)
  BY DEF TypeOK, Settle, Deletes, OtherRows, Queued, Pending

(* A row is written.                                                       *)
LEMMA Written ==
  ASSUME TypeOK, NEW i \in Queued, NEW row \in Row, queue' = [queue EXCEPT ![i] = row]
  PROVE  /\ OtherRows(i) /\ queue'[i] = row /\ Queued' = Queued
         /\ Pending' = (Pending \ {i}) \cup (IF row.pending THEN {i} ELSE {})
  BY Kinds DEF TypeOK, OtherRows, Queued, Pending

LEMMA EnqueueEffect ==
  ASSUME TypeOK, NEW c \in FCnt \cup {-1}, Enqueue(c)
  PROVE  LET i == enqueued + 1
         IN /\ i \in Item /\ enqueued' = i /\ OtherRows(i)
            /\ Queued' = Queued \cup {i} /\ Pending' = Pending \ {i}
            /\ i \in Encrypted => queue'[i].fCnt \in Nat
            /\ UNCHANGED <<profile, session, locked, frame, sent, device, pc, task, final,
                           accepted, counted, misacked>>
<1> DEFINE i == enqueued + 1
           new == [pending |-> FALSE, timeout |-> "none", fCnt |-> c]
<1>1. i \in Item /\ new # NoRow
  BY DEF Enqueue, TypeOK, Profile, Item, NoRow, FCnt
<1>2. OtherRows(i) /\ queue'[i] = new
  BY <1>1 DEF Enqueue, TypeOK, OtherRows
<1>3. Queued' = Queued \cup {i} /\ Pending' = Pending \ {i}
  BY <1>1, <1>2 DEF Queued, Pending, OtherRows
<1>4. i \in Encrypted => queue'[i].fCnt \in Nat
  BY <1>2 DEF Enqueue
<1> QED
  BY <1>1, <1>2, <1>3, <1>4 DEF Enqueue

LEMMA FlushEffect ==
  ASSUME TypeOK, NEW is \in SUBSET Item, Flush(is)
  PROVE  /\ is \subseteq Queued /\ Queued' = Queued \ is /\ Pending' = Pending \ is
         /\ \A j \in Item : queue'[j] = IF j \in is THEN NoRow ELSE queue[j]
         /\ \A j \in Item : final'[j] = IF j \in is /\ final[j] < 2 THEN final[j] + 1 ELSE final[j]
         /\ UNCHANGED <<profile, session, locked, enqueued, frame, sent, device, pc, task,
                        accepted, counted, misacked>>
<1>1. \A j \in Item : queue'[j] = IF j \in is THEN NoRow ELSE queue[j]
  BY DEF Flush
<1>2. is \subseteq Queued
  BY DEF Flush
<1>3. Queued' = Queued \ is /\ Pending' = Pending \ is
  BY <1>1 DEF Queued, Pending
<1> QED
  BY <1>1, <1>2, <1>3 DEF Flush, Settle

LEMMA TimeoutEffect ==
  ASSUME TypeOK, NEW i \in Item, TimeoutPasses(i)
  PROVE  /\ \A j \in Item : queue'[j].pending = queue[j].pending /\ queue'[j].fCnt = queue[j].fCnt
         /\ Queued' = Queued /\ Pending' = Pending
         /\ UNCHANGED <<profile, session, locked, enqueued, frame, sent, device, pc, task, final,
                        accepted, counted, misacked>>
<1>1. queue[i] \in Row /\ i \in Queued
  BY DEF TimeoutPasses, TypeOK, NoRow, Queued
<1>2. \A j \in Item \ {i} : queue'[j] = queue[j]
  BY DEF TimeoutPasses, TypeOK
<1>3. /\ queue'[i] \in Row /\ queue'[i].pending = queue[i].pending
      /\ queue'[i].fCnt = queue[i].fCnt
  BY <1>1 DEF TimeoutPasses, TypeOK, Row
<1>4. Queued' = Queued /\ Pending' = Pending
  BY <1>1, <1>2, <1>3, Kinds DEF Queued, Pending
<1> QED
  BY <1>2, <1>3, <1>4 DEF TimeoutPasses

(* The stages of a frame, and what is left of it.                          *)
LEMMA ExpireEffect ==
  ASSUME TypeOK, NEW k \in FrameId, FrameExpires(k)
  PROVE  /\ \A j \in FrameId : /\ frame'[j].payload = frame[j].payload
                               /\ frame'[j].fCnt = frame[j].fCnt
                               /\ frame'[j].aFCnt = frame[j].aFCnt
                               /\ frame'[j].stage = frame[j].stage
         /\ \A j \in FrameId : ~frame[j].saved => frame'[j] = frame[j]
         /\ UNCHANGED <<profile, session, locked, queue, enqueued, sent, device, pc, task, final,
                        accepted, counted, misacked>>
  BY DEF FrameExpires, TypeOK, Frame

LEMMA LostEffect ==
  ASSUME TypeOK, NEW k \in FrameId, MessageLost(k) \/ GatewayRejects(k)
  PROVE  /\ OtherFrames(k) /\ k \in InFlight
         /\ \/ /\ frame'[k].payload = frame[k].payload /\ frame'[k].fCnt = frame[k].fCnt
               /\ frame'[k].aFCnt = frame[k].aFCnt
               /\ frame'[k].stage = IF profile.roaming THEN "done" ELSE "error"
            \/ frame'[k] = Handled /\ ~profile.roaming
         /\ UNCHANGED <<profile, session, locked, queue, enqueued, sent, device, pc, task, final,
                        accepted, counted, misacked>>
<1>1. frame[k] \in Frame /\ frame \in [FrameId -> Frame]
  BY DEF TypeOK
<1>2. CASE MessageLost(k)
  BY <1>1, <1>2 DEF MessageLost, OtherFrames, Frame
<1>3. CASE GatewayRejects(k)
  BY <1>1, <1>3 DEF GatewayRejects, OtherFrames, InFlight, Frame
<1> QED
  BY <1>2, <1>3

LEMMA AcceptEffect ==
  ASSUME TypeOK, NEW k \in FrameId, NEW received \in BOOLEAN, GatewayAccepts(k, received)
  PROVE  /\ frame[k].stage = "sent" /\ OtherFrames(k) /\ k \in InFlight
         /\ frame'[k].payload = frame[k].payload /\ frame'[k].fCnt = frame[k].fCnt
         /\ frame'[k].aFCnt = frame[k].aFCnt
         /\ frame'[k].stage = IF profile.roaming THEN "done" ELSE "ok"
         /\ LET new == [payload |-> frame[k].payload, fCnt |-> frame[k].fCnt, id |-> k]
            IN /\ accepted' = accepted \cup {new}
               /\ new.payload = frame[k].payload /\ new.fCnt = frame[k].fCnt /\ new.id = k
         /\ \/ device' = device
            \/ /\ device'.item = frame[k].payload /\ device'.fCnt = frame[k].fCnt
               /\ frame[k].payload \in Confirmed
         /\ UNCHANGED <<profile, session, locked, queue, enqueued, sent, pc, task, final, counted,
                        misacked>>
<1>1. frame[k] \in Frame /\ frame \in [FrameId -> Frame]
  BY DEF TypeOK
<1> QED
  BY <1>1 DEF GatewayAccepts, OtherFrames, InFlight, Frame

(* The uplink flow.                                                        *)
LEMMA UplinkEffect ==
  ASSUME TypeOK, NEW t \in Task, NEW must \in BOOLEAN, Uplink(t, must)
  PROVE  /\ MayStart(t) /\ device' = NoAck
         /\ \/ UNCHANGED <<pc, task>>
            \/ /\ Step(t, "idle", "update")
               /\ task'[t].item = None /\ task'[t].snap = session
               /\ task'[t].ackOf = device.item
               /\ profile.v11 /\ device # NoAck => session.conf = device.fCnt
         /\ UNCHANGED <<profile, session, queue, enqueued, frame, sent, final, accepted, counted,
                        misacked>>
<1> DEFINE new == [NoTask EXCEPT !.kind = "response", !.snap = session, !.must = must,
                                 !.ackOf = device.item]
<1>1. new.item = None /\ new.snap = session /\ new.ackOf = device.item
  BY DEF NoTask
<1>2. CASE profile.v11 /\ device # NoAck /\ session.conf # device.fCnt
  BY <1>2 DEF Uplink
<1>3. CASE ~(profile.v11 /\ device # NoAck /\ session.conf # device.fCnt)
  <2>1. Goto(t, "update") /\ task' = [task EXCEPT ![t] = new] /\ pc[t] = "idle"
    BY <1>3 DEF Uplink, MayStart, IsFree, Busy
  <2>2. Step(t, "idle", "update") /\ task'[t] = new
    BY <2>1 DEF Goto, Step, Others, TypeOK
  <2> QED
    BY <1>1, <1>3, <2>2 DEF Uplink
<1> QED
  BY <1>2, <1>3

LEMMA UpdateEffect ==
  ASSUME TypeOK, NEW t \in Task, UpdateDevice(t)
  PROVE  /\ Step(t, "update", IF task[t].ackOf = None THEN "next" ELSE "pending?")
         /\ task' = task /\ session' = task[t].snap
         /\ UNCHANGED <<profile, locked, queue, enqueued, frame, sent, device, final, accepted,
                        counted, misacked>>
  BY Goes DEF UpdateDevice

LEMMA PendingEffect ==
  ASSUME TypeOK, NEW t \in Task, GetPending(t)
  PROVE  /\ \/ Step(t, "pending?", "next") /\ task'[t] = task[t] /\ Pending = {}
            \/ /\ Step(t, "pending?", "acked")
               /\ task'[t].item \in Pending
               /\ task'[t].snap = task[t].snap /\ task'[t].ackOf = task[t].ackOf
         /\ UNCHANGED <<profile, session, locked, queue, enqueued, frame, sent, device, final,
                        accepted, counted, misacked>>
<1>1. task[t] \in TaskData
  BY DEF TypeOK
<1>2. CASE Pending = {}
  BY <1>2, Goes DEF GetPending, Pending
<1>3. CASE Pending # {}
  <2>1. PICK i \in Pending : task' = [task EXCEPT ![t] = [task[t] EXCEPT !.item = i]] /\ Goto(t, "acked")
    BY <1>3 DEF GetPending, Pending
  <2>2. Step(t, "pending?", "acked") /\ task'[t] = [task[t] EXCEPT !.item = i]
    BY <2>1 DEF Goto, Step, Others, TypeOK, GetPending
  <2> QED
    BY <1>1, <2>1, <2>2 DEF GetPending, TaskData
<1> QED
  BY <1>2, <1>3

LEMMA DeleteAckedEffect ==
  ASSUME TypeOK, ItemHeld, NEW t \in Task, DeleteAcked(t)
  PROVE  /\ LET i == task[t].item
            IN /\ i \in Item
               /\ \/ /\ Step(t, "acked", "next") /\ i \in Queued /\ Deletes(i)
                     /\ misacked' = IF task[t].ackOf = i THEN misacked ELSE misacked \cup {i}
                     /\ task'[t].item = None /\ task'[t].snap = task[t].snap
                  \/ /\ Ended(t) /\ i \notin Queued
                     /\ UNCHANGED <<queue, final, misacked>>
         /\ pc[t] = "acked"
         /\ UNCHANGED <<profile, session, locked, enqueued, frame, sent, device, accepted, counted>>
<1> DEFINE i == task[t].item
<1>1. task[t] \in TaskData /\ pc[t] = "acked" /\ i \in Item
  BY DEF TypeOK, DeleteAcked, ItemHeld
<1>2. CASE i \in Queued
  <2>1. /\ queue' = [queue EXCEPT ![i] = NoRow] /\ Settle({i}) /\ Goto(t, "next")
        /\ task' = [task EXCEPT ![t] = [task[t] EXCEPT !.item = None]]
    BY <1>2 DEF DeleteAcked
  <2>2. Deletes(i)
    BY <1>1, <2>1, Deleted
  <2>3. Step(t, "acked", "next") /\ task'[t] = [task[t] EXCEPT !.item = None]
    BY <1>1, <2>1 DEF Goto, Step, Others, TypeOK
  <2> QED
    BY <1>1, <1>2, <2>2, <2>3 DEF DeleteAcked, TaskData
<1>3. CASE i \notin Queued
  BY <1>1, <1>3, Goes DEF DeleteAcked
<1> QED
  BY <1>2, <1>3

(* The scheduler, and the steps both flows share.                          *)
LEMMA SelectEffect ==
  ASSUME TypeOK, NEW t \in Task, SelectDevice(t)
  PROVE  /\ MayStart(t) /\ Step(t, "idle", "load") /\ profile.class # "A"
         /\ task'[t].item = None
         /\ UNCHANGED <<profile, session, queue, enqueued, frame, sent, device, final, accepted,
                        counted, misacked>>
<1> DEFINE new == [NoTask EXCEPT !.kind = "scheduled"]
<1>1. new.item = None
  BY DEF NoTask
<1>2. Step(t, "idle", "load") /\ task'[t] = new
  BY DEF SelectDevice, MayStart, IsFree, Busy, Goto, Step, Others, TypeOK
<1> QED
  BY <1>1, <1>2 DEF SelectDevice

LEMMA LoadEffect ==
  ASSUME TypeOK, NEW t \in Task, LoadDevice(t)
  PROVE  /\ pc[t] = "load"
         /\ \/ /\ Step(t, "load", "next")
               /\ task'[t].item = task[t].item /\ task'[t].snap = session
            \/ Ended(t)
         /\ UNCHANGED <<profile, session, queue, enqueued, frame, sent, device, final, accepted,
                        counted, misacked>>
<1> DEFINE new == [task[t] EXCEPT !.snap = session]
<1>1. task[t] \in TaskData
  BY DEF TypeOK
<1>2. new.item = task[t].item /\ new.snap = session
  BY <1>1 DEF TaskData
<1>3. CASE task' = [task EXCEPT ![t] = new] /\ Goto(t, "next")
  <2>1. Step(t, "load", "next") /\ task'[t] = new
    BY <1>3 DEF LoadDevice, Goto, Step, Others, TypeOK
  <2> QED
    BY <1>2, <2>1 DEF LoadDevice
<1>4. CASE Finish(t)
  BY <1>4, Goes DEF LoadDevice
<1> QED
  BY <1>3, <1>4 DEF LoadDevice

LEMMA NextEffect ==
  ASSUME TypeOK, NEW t \in Task, GetNext(t)
  PROVE  /\ pc[t] = "next"
         /\ \/ Step(t, "next", "send") /\ task'[t] = task[t]
            \/ Ended(t)
            \/ /\ Queued # {}
               /\ \/ /\ Step(t, "next", "putItem")
                     /\ Oldest \notin Pending
                     /\ Oldest \in Encrypted => queue[Oldest].fCnt >= AFCntDown(task[t].snap)
                  \/ Step(t, "next", "discard")
               /\ task'[t].item = Oldest /\ task'[t].copy = queue[Oldest]
               /\ task'[t].snap = task[t].snap
         /\ UNCHANGED <<profile, session, locked, queue, enqueued, frame, sent, device, final,
                        accepted, counted, misacked>>
<1>0. task[t] \in TaskData /\ pc[t] = "next"
  BY DEF TypeOK, GetNext
<1>1. CASE NoNextItem(t)
  BY <1>0, <1>1, Goes DEF GetNext, ContinueWithoutItem
<1>2. CASE ~NoNextItem(t)
  <2> DEFINE new == [task[t] EXCEPT !.item = Oldest, !.copy = queue[Oldest]]
  <2>1. new.item = Oldest /\ new.copy = queue[Oldest] /\ new.snap = task[t].snap
    BY <1>0 DEF TaskData
  <2>2. Queued # {} /\ Oldest \in Item
    BY <1>2, OldestIsFirst DEF NoNextItem, Queued
  <2>3. /\ task'[t] = new /\ task' = [task EXCEPT ![t] = new]
        /\ \A u \in Task \ {t} : task'[u] = task[u]
    BY <1>2 DEF GetNext, TypeOK
  <2>4. CASE ~Unusable(t, Oldest) /\ Goto(t, "putItem")
    <3>1. Step(t, "next", "putItem")
      BY <1>0, <2>3, <2>4, GotoEffect DEF Step, Others, Goto, TypeOK
    <3>2. Oldest \notin Pending
      BY <2>4 DEF Unusable, Pending
    <3>3. Oldest \in Encrypted => queue[Oldest].fCnt >= AFCntDown(task[t].snap)
      <4>1. queue[Oldest] \in Row
        BY <2>2, OldestIsFirst DEF TypeOK, Queued
      <4>2. queue[Oldest].fCnt \in Int
        BY <4>1, Records
      <4>3. task[t].snap \in Session
        BY <1>0, Records
      <4>4. AFCntDown(task[t].snap) \in Int
        BY <4>3, CounterType
      <4> QED
        BY <2>4, <4>2, <4>4 DEF Unusable
    <3> QED
      BY <1>2, <2>1, <2>2, <2>3, <3>1, <3>2, <3>3 DEF GetNext
  <2>5. CASE Goto(t, "discard")
    <3>1. Step(t, "next", "discard")
      BY <1>0, <2>3, <2>5, GotoEffect DEF Step, Others, Goto, TypeOK
    <3> QED
      BY <1>2, <2>1, <2>2, <2>3, <3>1 DEF GetNext
  <2> QED
    BY <1>2, <2>4, <2>5 DEF GetNext
<1> QED
  BY <1>1, <1>2

LEMMA DiscardEffect ==
  ASSUME TypeOK, ItemHeld, NEW t \in Task, Discard(t)
  PROVE  /\ LET i == task[t].item
            IN /\ i \in Item
               /\ \/ /\ Step(t, "discard", "next") /\ i \in Queued /\ Deletes(i)
                     /\ task'[t].item = None /\ task'[t].snap = task[t].snap
                  \/ Ended(t) /\ i \notin Queued /\ UNCHANGED <<queue, final>>
         /\ pc[t] = "discard"
         /\ UNCHANGED <<profile, session, locked, enqueued, frame, sent, device, accepted, counted,
                        misacked>>
<1> DEFINE i == task[t].item
<1>1. task[t] \in TaskData /\ pc[t] = "discard" /\ i \in Item
  BY DEF TypeOK, Discard, ItemHeld
<1>2. CASE i \in Queued
  <2> DEFINE new == [task[t] EXCEPT !.item = None, !.copy = NoRow]
  <2>1. /\ queue' = [queue EXCEPT ![i] = NoRow] /\ Settle({i}) /\ Goto(t, "next")
        /\ task' = [task EXCEPT ![t] = new]
    BY <1>2 DEF Discard
  <2>2. Deletes(i)
    BY <1>1, <2>1, Deleted
  <2>3. Step(t, "discard", "next") /\ task'[t] = new
    BY <1>1, <2>1 DEF Goto, Step, Others, TypeOK
  <2>4. new.item = None /\ new.snap = task[t].snap
    BY <1>1 DEF TaskData
  <2> QED
    BY <1>1, <1>2, <2>2, <2>3, <2>4 DEF Discard
<1>3. CASE i \notin Queued
  BY <1>1, <1>3, Goes DEF Discard
<1> QED
  BY <1>2, <1>3

LEMMA PutEffect ==
  ASSUME TypeOK, ItemHeld, HasFCnt, NEW t \in Task, UpdateQueueItem(t)
  PROVE  /\ LET i == task[t].item
            IN /\ i \in Item
               /\ \/ i \in Encrypted /\ Step(t, "putItem", "send") /\ UNCHANGED <<queue, task>>
                  \/ /\ i \notin Encrypted /\ i \in Queued
                     /\ Step(t, "putItem", "send") /\ UNCHANGED task
                     /\ OtherRows(i) /\ Queued' = Queued
                     /\ Pending' = (Pending \ {i}) \cup (IF task[t].copy.pending THEN {i} ELSE {})
                     /\ queue'[i].fCnt = AFCntDown(task[t].snap)
                  \/ Ended(t) /\ i \notin Queued /\ UNCHANGED queue
         /\ pc[t] = "putItem"
         /\ UNCHANGED <<profile, session, locked, enqueued, frame, sent, device, final, accepted,
                        counted, misacked>>
<1> DEFINE i == task[t].item
           c == AFCntDown(task[t].snap)
           row == [task[t].copy EXCEPT !.fCnt = c]
<1>1. pc[t] = "putItem" /\ i \in Item /\ task[t].copy \in Row /\ c \in Nat
  BY Records, CounterType DEF TypeOK, UpdateQueueItem, ItemHeld, HasFCnt, TaskHasFCnt
<1>2. row \in Row /\ row.fCnt = c /\ row.pending = task[t].copy.pending
  BY <1>1 DEF Row
<1>3. CASE i \in Encrypted
  BY <1>1, <1>3, Goes DEF UpdateQueueItem
<1>4. CASE i \notin Encrypted /\ i \in Queued
  <2>1. queue' = [queue EXCEPT ![i] = row] /\ Goto(t, "send") /\ UNCHANGED task
    BY <1>4 DEF UpdateQueueItem
  <2>2. /\ OtherRows(i) /\ queue'[i] = row /\ Queued' = Queued
        /\ Pending' = (Pending \ {i}) \cup (IF row.pending THEN {i} ELSE {})
    <3> HIDE DEF row
    <3> QED
      BY <1>2, <1>4, <2>1, Written
  <2>3. Step(t, "putItem", "send")
    BY <1>1, <2>1, Goes
  <2>4. queue'[i].fCnt = c /\ row.pending = task[t].copy.pending
    BY <1>2, <2>2
  <2>5. UNCHANGED <<profile, session, locked, enqueued, frame, sent, device, final, accepted,
                    counted, misacked>>
    BY <1>4 DEF UpdateQueueItem
  <2>6. Pending' = (Pending \ {i}) \cup (IF task[t].copy.pending THEN {i} ELSE {})
    BY <2>2, <2>4
  <2> HIDE DEF row, c
  <2> QED
    BY <1>1, <1>4, <2>1, <2>2, <2>3, <2>4, <2>5, <2>6 DEF c
<1>5. CASE i \notin Encrypted /\ i \notin Queued
  BY <1>1, <1>5, Goes DEF UpdateQueueItem
<1> QED
  BY <1>3, <1>4, <1>5

LEMMA SendEffect ==
  ASSUME TypeOK, HasFCnt, NEW t \in Task, SendFrame(t)
  PROVE  /\ \/ /\ sent + 1 \in FrameId /\ sent' = sent + 1 /\ OtherFrames(sent + 1)
               /\ LET f == frame'[sent + 1]
                      c == AFCntDown(task[t].snap)
                  IN /\ f.stage = "sent" /\ f.payload \in {task[t].item, None}
                     /\ f.aFCnt = IF task[t].item \in Encrypted THEN task[t].copy.fCnt ELSE c
                     /\ f.fCnt = IF f.payload = None THEN task[t].snap.n ELSE f.aFCnt
               /\ session' \in {session, task[t].snap}
               /\ \/ ~profile.roaming /\ Ended(t)
                  \/ /\ profile.roaming /\ Step(t, "send", "xmitAns")
                     /\ task'[t].item = None /\ task'[t].id = sent + 1
            \/ UNCHANGED <<frame, sent, session>> /\ Ended(t)
         /\ pc[t] = "send"
         /\ UNCHANGED <<profile, locked, queue, enqueued, device, final, accepted, counted, misacked>>
<1>1. CASE sent' = sent + 1
  <2>1. sent \in Nat /\ profile.frames \in 0 .. MaxFrames
    BY DEF TypeOK, Profile
  <2>2. sent + 1 \in FrameId /\ sent + 1 # sent
    BY <1>1, <2>1 DEF SendFrame, FrameId
  <2>3. PICK payload \in {task[t].item, None} : frame' = [frame EXCEPT ![sent + 1] = FrameOf(t, payload)]
    BY <1>1, <2>1, <2>2 DEF SendFrame
  <2>4. frame'[sent + 1] = FrameOf(t, payload) /\ OtherFrames(sent + 1)
    BY <2>2, <2>3 DEF TypeOK, OtherFrames
  <2>5. session' \in {session, task[t].snap}
    BY <1>1, <2>1, <2>2 DEF SendFrame
  <2>6. CASE profile.roaming
    <3> DEFINE new == [NoTask EXCEPT !.kind = "txack", !.id = sent + 1]
    <3>1. new.item = None /\ new.id = sent + 1
      BY DEF NoTask
    <3>2. Goto(t, "xmitAns") /\ task' = [task EXCEPT ![t] = new] /\ pc[t] = "send"
      BY <1>1, <2>1, <2>2, <2>6 DEF SendFrame
    <3>3. Step(t, "send", "xmitAns") /\ task'[t] = new
      BY <3>2 DEF Goto, Step, Others, TypeOK
    <3> QED
      BY <1>1, <2>2, <2>4, <2>5, <2>6, <3>1, <3>3 DEF FrameOf, SendFrame
  <2>7. CASE ~profile.roaming
    <3>1. Ended(t)
      BY <1>1, <2>1, <2>2, <2>7, Goes DEF SendFrame
    <3> QED
      BY <1>1, <2>2, <2>4, <2>5, <2>7, <3>1 DEF FrameOf, SendFrame
  <2> QED
    BY <2>6, <2>7
<1>2. CASE UNCHANGED <<frame, sent, session>>
  <2>1. sent \in Nat
    BY DEF TypeOK
  <2> QED
    BY <1>2, <2>1, Goes DEF SendFrame
<1> QED
  BY <1>1, <1>2 DEF SendFrame

(* The handling of tx acknowledgements.                                    *)
LEMMA XmitEffect ==
  ASSUME TypeOK, AnswersKnown, NEW t \in Task, XmitDataAns(t)
  PROVE  /\ LET k == task[t].id
            IN /\ k \in FrameId
               /\ \/ /\ Step(t, "xmitAns", "ackData")
                     /\ \A j \in FrameId : /\ frame'[j].payload = frame[j].payload
                                           /\ frame'[j].fCnt = frame[j].fCnt
                                           /\ frame'[j].aFCnt = frame[j].aFCnt
                                           /\ frame'[j].stage = frame[j].stage
                     /\ \A j \in FrameId : ~frame[j].saved => frame'[j] = frame[j]
                     /\ task'[t].item = frame[k].payload /\ task'[t].aFCnt = frame[k].aFCnt
                     /\ task'[t].id = k
                  \/ Ended(t) /\ UNCHANGED frame
         /\ pc[t] = "xmitAns"
         /\ UNCHANGED <<profile, session, locked, queue, enqueued, sent, device, final, accepted,
                        counted, misacked>>
<1> DEFINE k == task[t].id
<1>1. k \in FrameId /\ task[t] \in TaskData /\ pc[t] = "xmitAns" /\ frame[k] \in Frame
  BY DEF XmitDataAns, AnswersKnown, TypeOK
<1>2. CASE Goto(t, "ackData") /\ frame[k].saved
  <2> DEFINE new == [task[t] EXCEPT !.item = frame[k].payload, !.aFCnt = frame[k].aFCnt]
             f == [frame[k] EXCEPT !.saved = FALSE]
  <2>1. new.item = frame[k].payload /\ new.aFCnt = frame[k].aFCnt /\ new.id = k
    BY <1>1 DEF TaskData
  <2>2. task' = [task EXCEPT ![t] = new] /\ frame' = [frame EXCEPT ![k] = f]
    BY <1>1, <1>2 DEF XmitDataAns, Goto, Finish, TypeOK
  <2>3. Step(t, "xmitAns", "ackData") /\ task'[t] = new
    BY <1>1, <1>2, <2>2 DEF Goto, Step, Others, TypeOK
  <2>4. /\ f.payload = frame[k].payload /\ f.fCnt = frame[k].fCnt /\ f.aFCnt = frame[k].aFCnt
        /\ f.stage = frame[k].stage
    BY <1>1 DEF Frame
  <2>5. frame'[k] = f /\ OtherFrames(k)
    BY <1>1, <2>2 DEF OtherFrames, TypeOK
  <2>6. UNCHANGED <<profile, session, locked, queue, enqueued, sent, device, final, accepted,
                    counted, misacked>>
    BY DEF XmitDataAns
  <2> HIDE DEF f, new
  <2>7. \A j \in FrameId : /\ frame'[j].payload = frame[j].payload
                           /\ frame'[j].fCnt = frame[j].fCnt
                           /\ frame'[j].aFCnt = frame[j].aFCnt
                           /\ frame'[j].stage = frame[j].stage
    BY <2>4, <2>5 DEF OtherFrames
  <2>8. \A j \in FrameId : ~frame[j].saved => frame'[j] = frame[j]
    BY <1>2, <2>5 DEF OtherFrames
  <2> QED
    BY <1>1, <2>1, <2>3, <2>6, <2>7, <2>8
<1>3. CASE Finish(t) /\ UNCHANGED frame
  BY <1>1, <1>3, Goes DEF XmitDataAns
<1> QED
  BY <1>2, <1>3 DEF XmitDataAns

LEMMA TxAckEffect ==
  ASSUME TypeOK, NEW t \in Task, NEW k \in FrameId, TxAck(t, k)
  PROVE  /\ IsFree(t) /\ k \in InFlight
         /\ frame'[k] = Handled /\ OtherFrames(k)
         /\ \/ UNCHANGED <<pc, task>>
            \/ /\ Step(t, "idle", "ackData") /\ frame[k].stage = "ok"
               /\ task'[t].item = frame[k].payload /\ task'[t].aFCnt = frame[k].aFCnt
               /\ task'[t].id = k
         /\ UNCHANGED <<profile, session, locked, queue, enqueued, sent, device, final, accepted,
                        counted, misacked>>
<1> DEFINE new == [NoTask EXCEPT !.kind = "txack", !.item = frame[k].payload, !.id = k,
                                 !.aFCnt = frame[k].aFCnt]
<1>1. new.item = frame[k].payload /\ new.aFCnt = frame[k].aFCnt /\ new.id = k
  BY DEF NoTask
<1>2. frame'[k] = Handled /\ OtherFrames(k) /\ k \in InFlight
  BY DEF TxAck, TypeOK, OtherFrames, InFlight
<1>3. CASE frame[k].saved /\ frame[k].stage = "ok"
  <2>1. Step(t, "idle", "ackData") /\ task'[t] = new
    BY <1>3 DEF TxAck, IsFree, Busy, Goto, Step, Others, TypeOK
  <2> QED
    BY <1>1, <1>2, <1>3, <2>1 DEF TxAck
<1>4. CASE ~(frame[k].saved /\ frame[k].stage = "ok")
  BY <1>2, <1>4 DEF TxAck
<1> QED
  BY <1>3, <1>4

LEMMA AckDeviceEffect ==
  ASSUME TypeOK, NEW t \in Task, AckGetDevice(t)
  PROVE  /\ Step(t, "ackData", IF task[t].item = None THEN "ackSave" ELSE "ackItem")
         /\ task'[t].item = task[t].item /\ task'[t].id = task[t].id
         /\ task'[t].aFCnt = task[t].aFCnt /\ task'[t].snap = session
         /\ UNCHANGED <<profile, session, locked, queue, enqueued, frame, sent, device, final,
                        accepted, counted, misacked>>
<1> DEFINE new == [task[t] EXCEPT !.snap = session]
<1>1. /\ new.item = task[t].item /\ new.id = task[t].id /\ new.aFCnt = task[t].aFCnt
      /\ new.snap = session
  BY DEF TypeOK, TaskData
<1>2. task'[t] = new /\ Step(t, "ackData", IF task[t].item = None THEN "ackSave" ELSE "ackItem")
  BY DEF AckGetDevice, Goto, Step, Others, TypeOK
<1> QED
  BY <1>1, <1>2 DEF AckGetDevice

LEMMA AckItemEffect ==
  ASSUME TypeOK, NEW t \in Task, AckGetItem(t)
  PROVE  /\ \/ /\ Step(t, "ackItem", "ackPut") /\ task[t].item \in Queued
               /\ task'[t].item = task[t].item /\ task'[t].id = task[t].id
               /\ task'[t].aFCnt = task[t].aFCnt /\ task'[t].snap = task[t].snap
               /\ task'[t].copy = queue[task[t].item]
            \/ Ended(t)
         /\ pc[t] = "ackItem"
         /\ UNCHANGED <<profile, session, locked, queue, enqueued, frame, sent, device, final,
                        accepted, counted, misacked>>
<1> DEFINE i == task[t].item
           new == [task[t] EXCEPT !.copy = queue[i]]
<1>1. /\ new.item = i /\ new.id = task[t].id /\ new.aFCnt = task[t].aFCnt
      /\ new.snap = task[t].snap /\ new.copy = queue[i]
  BY DEF TypeOK, TaskData
<1>2. CASE i \in Queued
  <2>1. task'[t] = new /\ Step(t, "ackItem", "ackPut")
    BY <1>2 DEF AckGetItem, Goto, Step, Others, TypeOK
  <2> QED
    BY <1>1, <1>2, <2>1 DEF AckGetItem
<1>3. CASE i \notin Queued
  BY <1>3, Goes DEF AckGetItem
<1> QED
  BY <1>2, <1>3

LEMMA AckRowEffect ==
  ASSUME TypeOK, HasFCnt, ItemHeld, NEW t \in Task, AckPutItem(t)
  PROVE  /\ LET i == task[t].item
            IN /\ i \in Item
               /\ \/ i \in Queued /\ Step(t, "ackPut", "ackSave") /\ Deletes(i) /\ UNCHANGED task
                  \/ /\ i \in Queued /\ Step(t, "ackPut", "ackSave") /\ UNCHANGED <<task, final>>
                     /\ i \in Confirmed
                     /\ OtherRows(i) /\ Queued' = Queued /\ Pending' = Pending \cup {i}
                     /\ queue'[i].fCnt = task[t].copy.fCnt
                  \/ i \notin Queued /\ Ended(t) /\ UNCHANGED <<queue, final>>
         /\ pc[t] = "ackPut"
         /\ UNCHANGED <<profile, session, locked, enqueued, frame, sent, device, accepted, counted,
                        misacked>>
<1> DEFINE i == task[t].item
<1>1. i \in Item /\ pc[t] = "ackPut"
  BY DEF AckPutItem, ItemHeld
<1>2. PutAway(t)
  BY AckPutEffect
<1>3. CASE i \in Queued /\ i \notin Confirmed
  <2>1. Deletes(i)
    BY <1>1, <1>2, <1>3, Deleted DEF PutAway
  <2> QED
    BY <1>1, <1>2, <1>3, <2>1, Goes DEF PutAway, AckPutItem
<1>4. CASE i \in Queued /\ i \in Confirmed
  <2>1. PICK row \in Row : /\ row.pending /\ row.fCnt = task[t].copy.fCnt
                           /\ queue' = [queue EXCEPT ![i] = row]
    BY <1>2, <1>4 DEF PutAway
  <2>2. /\ OtherRows(i) /\ queue'[i] = row /\ Queued' = Queued
        /\ Pending' = (Pending \ {i}) \cup (IF row.pending THEN {i} ELSE {})
    BY <1>4, <2>1, Written
  <2> QED
    BY <1>1, <1>2, <1>4, <2>1, <2>2, Goes DEF PutAway, AckPutItem
<1>5. CASE i \notin Queued
  BY <1>1, <1>2, <1>5, Goes DEF PutAway, AckPutItem
<1> QED
  BY <1>3, <1>4, <1>5

LEMMA AckSaveEffect ==
  ASSUME TypeOK, HasFCnt, NEW t \in Task, AckSaveSession(t)
  PROVE  /\ pc[t] = "ackSave" /\ Ended(t)
         /\ counted' = counted \cup {task[t].id}
         /\ LET i == task[t].item
                s == task[t].snap
            IN /\ i = None => session'.n = s.n + 1 /\ session'.a = s.a
               /\ i # None => AFCntDown(session') = task[t].aFCnt + 1
               /\ i # None /\ profile.v11 => session'.n = s.n /\ session'.a = task[t].aFCnt + 1
               /\ i # None /\ ~profile.v11 => session'.n = task[t].aFCnt + 1 /\ session'.a = s.a
               /\ session'.conf = IF i \in Confirmed THEN task[t].copy.fCnt ELSE s.conf
         /\ UNCHANGED <<profile, locked, queue, enqueued, frame, sent, device, final, accepted,
                        misacked>>
<1> DEFINE i == task[t].item
           s == task[t].snap
           conf == IF i \in Confirmed THEN [s EXCEPT !.conf = task[t].copy.fCnt] ELSE s
<1>1. s \in Session /\ i \in Item \cup {None} /\ None \notin Confirmed
  BY Records, Kinds DEF TypeOK, Profile, Confirmed
<1>2. /\ conf.n = s.n /\ conf.a = s.a /\ DOMAIN conf = {"n", "a", "conf"}
      /\ conf.conf = IF i \in Confirmed THEN task[t].copy.fCnt ELSE s.conf
  BY <1>1 DEF Session
<1>3. CASE i = None
  BY <1>1, <1>3, Goes DEF AckSaveSession, Session
<1>4. CASE i # None
  <2>1. session' = SetAFCntDown(conf, task[t].aFCnt + 1)
    BY <1>4 DEF AckSaveSession
  <2>2. CASE profile.v11
    BY <1>1, <1>2, <1>4, <2>1, <2>2, Goes DEF AckSaveSession, SetAFCntDown, AFCntDown
  <2>3. CASE ~profile.v11
    BY <1>1, <1>2, <1>4, <2>1, <2>3, Goes DEF AckSaveSession, SetAFCntDown, AFCntDown
  <2> QED
    BY <2>2, <2>3
<1> QED
  BY <1>3, <1>4

-----------------------------------------------------------------------------
LEMMA TypeNext == Basics /\ [Next]_vars => TypeOK'
<1> SUFFICES ASSUME Basics, [Next]_vars PROVE TypeOK'
  OBVIOUS
<1> USE DEF Basics
<1>1. CASE Next
  <2>1. ASSUME NEW c \in FCnt \cup {-1}, Enqueue(c) PROVE TypeOK'
    BY <2>1, TypeEnqueue
  <2>2. ASSUME NEW t \in Task, NEW must \in BOOLEAN, Uplink(t, must) PROVE TypeOK'
    BY <2>2, TypeUplink
  <2>3. ASSUME NEW t \in Task, SelectDevice(t) \/ ServerStep(t) \/ Abort(t) PROVE TypeOK'
    BY <2>3, TypeFlow, TypeSend, TypeAck DEF ServerStep
  <2>4. ASSUME NEW t \in Task, NEW k \in FrameId, TxAck(t, k) PROVE TypeOK'
    BY <2>4, TypeAck
  <2> QED
    BY <1>1, <2>1, <2>2, <2>3, <2>4, TypeEnvironment DEF Next
<1>2. CASE UNCHANGED vars
  BY <1>2 DEF vars, TypeOK
<1> QED
  BY <1>1, <1>2

LEMMA ItemsNext == Basics /\ [Next]_vars => (ItemFree /\ ItemHeld /\ AnswersKnown)'
<1> SUFFICES ASSUME Basics, [Next]_vars PROVE (ItemFree /\ ItemHeld /\ AnswersKnown)'
  OBVIOUS
<1> USE DEF Basics, ItemFree, ItemHeld, AnswersKnown, Step, Others, Ended
<1>0. /\ \A t \in Task : pc[t] \in Steps /\ task[t].item \in Item \cup {None}
      /\ \A k \in FrameId : frame[k].payload \in Item \cup {None}
      /\ Queued \subseteq Item /\ Pending \subseteq Item
  BY Records DEF TypeOK, Queued, Pending
<1>1. ASSUME NEW t \in Task, NEW must \in BOOLEAN, Uplink(t, must)
      PROVE (ItemFree /\ ItemHeld /\ AnswersKnown)'
  BY <1>1, UplinkEffect
<1>2. ASSUME NEW t \in Task, UpdateDevice(t) PROVE (ItemFree /\ ItemHeld /\ AnswersKnown)'
  BY <1>2, UpdateEffect
<1>3. ASSUME NEW t \in Task, GetPending(t) PROVE (ItemFree /\ ItemHeld /\ AnswersKnown)'
  BY <1>0, <1>3, PendingEffect
<1>4. ASSUME NEW t \in Task, DeleteAcked(t) PROVE (ItemFree /\ ItemHeld /\ AnswersKnown)'
  BY <1>4, DeleteAckedEffect, Kinds
<1>5. ASSUME NEW t \in Task, SelectDevice(t) PROVE (ItemFree /\ ItemHeld /\ AnswersKnown)'
  BY <1>5, SelectEffect
<1>6. ASSUME NEW t \in Task, LoadDevice(t) PROVE (ItemFree /\ ItemHeld /\ AnswersKnown)'
  BY <1>6, LoadEffect, Kinds
<1>7. ASSUME NEW t \in Task, GetNext(t) PROVE (ItemFree /\ ItemHeld /\ AnswersKnown)'
  <2>1. /\ Others(t) /\ UNCHANGED frame
        /\ \/ pc'[t] = "send"
           \/ pc'[t] = "idle" /\ task'[t] = NoTask
           \/ pc'[t] \in {"putItem", "discard"} /\ task'[t].item = Oldest /\ Queued # {}
    BY <1>7, NextEffect
  <2>2. pc'[t] \in {"putItem", "discard"} => task'[t].item \in Item
    BY <1>0, <2>1, OldestIsFirst
  <2> QED
    BY <2>1, <2>2, Kinds
<1>8. ASSUME NEW t \in Task, Discard(t) PROVE (ItemFree /\ ItemHeld /\ AnswersKnown)'
  BY <1>8, DiscardEffect, Kinds
<1>9. ASSUME NEW t \in Task, UpdateQueueItem(t) PROVE (ItemFree /\ ItemHeld /\ AnswersKnown)'
  BY <1>9, PutEffect, Kinds
<1>10. ASSUME NEW t \in Task, SendFrame(t) PROVE (ItemFree /\ ItemHeld /\ AnswersKnown)'
  BY <1>10, SendEffect, Kinds
<1>11. ASSUME NEW t \in Task, XmitDataAns(t) PROVE (ItemFree /\ ItemHeld /\ AnswersKnown)'
  BY <1>11, XmitEffect, Kinds
<1>12. ASSUME NEW t \in Task, NEW k \in FrameId, TxAck(t, k)
       PROVE (ItemFree /\ ItemHeld /\ AnswersKnown)'
  BY <1>12, TxAckEffect
<1>13. ASSUME NEW t \in Task, AckGetDevice(t) PROVE (ItemFree /\ ItemHeld /\ AnswersKnown)'
  BY <1>0, <1>13, AckDeviceEffect
<1>14. ASSUME NEW t \in Task, AckGetItem(t) PROVE (ItemFree /\ ItemHeld /\ AnswersKnown)'
  BY <1>14, AckItemEffect, Kinds
<1>15. ASSUME NEW t \in Task, AckPutItem(t) PROVE (ItemFree /\ ItemHeld /\ AnswersKnown)'
  BY <1>15, AckRowEffect, Kinds
<1>16. ASSUME NEW t \in Task, AckSaveSession(t) \/ Abort(t)
       PROVE (ItemFree /\ ItemHeld /\ AnswersKnown)'
  <2>1. Ended(t)
    BY <1>16, AckSaveEffect, Goes DEF Abort
  <2> QED
    BY <2>1, Kinds
<1>17. CASE UNCHANGED <<pc, task>>
  BY <1>17
<1> QED
  <2>1. CASE Next
    BY <2>1, <1>1, <1>2, <1>3, <1>4, <1>5, <1>6, <1>7, <1>8, <1>9, <1>10, <1>11, <1>12, <1>13,
       <1>14, <1>15, <1>16, <1>17
       DEF Next, ServerStep, Enqueue, Flush, TimeoutPasses, LockEnds, FrameExpires, MessageLost,
           GatewayRejects, GatewayAccepts, AckLost
  <2>2. CASE UNCHANGED vars
    BY <2>2, <1>17 DEF vars
  <2> QED
    BY <2>1, <2>2

(* Rows are deleted in any order, new ones come at the end.                *)
QueueStep ==
  \/ Queued' \subseteq Queued /\ enqueued' = enqueued
  \/ Queued' = Queued \cup {enqueued + 1} /\ enqueued' = enqueued + 1

LEMMA QueueSteps ==
  ASSUME Basics, [Next]_vars
  PROVE  /\ QueueStep
         /\ \A i \in Pending' \ Pending : \E t \in Task :
              /\ task[t].item = i /\ pc[t] \in {"putItem", "ackPut"}
              /\ (UpdateQueueItem(t) /\ task[t].copy.pending) \/ AckPutItem(t)
<1> USE DEF Basics, QueueStep, Deletes
<1>1. ASSUME NEW c \in FCnt \cup {-1}, Enqueue(c)
      PROVE  /\ Queued' = Queued \cup {enqueued + 1} /\ enqueued' = enqueued + 1
             /\ Pending' \subseteq Pending
  BY <1>1, EnqueueEffect
<1>2. ASSUME NEW is \in SUBSET Item, Flush(is)
      PROVE  Queued' \subseteq Queued /\ enqueued' = enqueued /\ Pending' \subseteq Pending
  BY <1>2, FlushEffect
<1>3. ASSUME NEW i \in Item, TimeoutPasses(i)
      PROVE  Queued' \subseteq Queued /\ enqueued' = enqueued /\ Pending' \subseteq Pending
  BY <1>3, TimeoutEffect
<1>4. ASSUME NEW t \in Task, DeleteAcked(t) \/ Discard(t)
      PROVE  Queued' \subseteq Queued /\ enqueued' = enqueued /\ Pending' \subseteq Pending
  <2>1. CASE DeleteAcked(t)
    BY <2>1, DeleteAckedEffect DEF Queued, Pending
  <2>2. CASE Discard(t)
    BY <2>2, DiscardEffect DEF Queued, Pending
  <2> QED
    BY <1>4, <2>1, <2>2
<1>5. ASSUME NEW t \in Task, UpdateQueueItem(t) \/ AckPutItem(t)
      PROVE  /\ Queued' \subseteq Queued /\ enqueued' = enqueued
             /\ Pending' \subseteq Pending \cup {task[t].item}
             /\ Pending' \subseteq Pending \/ task[t].copy.pending \/ AckPutItem(t)
             /\ pc[t] \in {"putItem", "ackPut"}
  <2>1. CASE UpdateQueueItem(t)
    BY <2>1, PutEffect DEF Queued, Pending
  <2>2. CASE AckPutItem(t)
    BY <2>2, AckRowEffect DEF Queued, Pending
  <2> QED
    BY <1>5, <2>1, <2>2
<1>6. CASE UNCHANGED <<queue, enqueued>>
  BY <1>6 DEF Queued, Pending
<1>7. CASE Next
  BY <1>1, <1>2, <1>3, <1>4, <1>5, <1>6, <1>7
     DEF Next, ServerStep, LockEnds, FrameExpires, MessageLost, GatewayRejects, GatewayAccepts,
         AckLost, Uplink, SelectDevice, TxAck, UpdateDevice, GetPending, LoadDevice, GetNext,
         SendFrame, XmitDataAns, AckGetDevice, AckGetItem, AckSaveSession, Abort
<1>8. CASE UNCHANGED vars
  BY <1>6, <1>8 DEF vars
<1> QED
  BY <1>7, <1>8

(* What a step changes of the items that tasks and frames hold: an item    *)
(* comes from a frame, from the head of the queue or from a pending row.   *)
ItemStep ==
  /\ \A t \in Task : \/ task'[t].item \in {task[t].item, None}
                     \/ task'[t].item \in Pending
                     \/ Queued # {} /\ task'[t].item = Oldest
                     \/ \E k \in FrameId : task'[t].item = frame[k].payload
  /\ \A k \in FrameId : \/ frame'[k].payload \in {frame[k].payload, None}
                        \/ \E t \in Task : SendFrame(t) /\ frame'[k].payload = task[t].item

LEMMA ItemSteps ==
  ASSUME Basics, [Next]_vars
  PROVE  ItemStep
<1> USE DEF Basics, ItemStep, Step, Others, Ended
<1>1. ASSUME NEW t \in Task, NEW must \in BOOLEAN, Uplink(t, must) PROVE ItemStep
  BY <1>1, UplinkEffect
<1>2. ASSUME NEW t \in Task, GetPending(t) PROVE ItemStep
  BY <1>2, PendingEffect
<1>3. ASSUME NEW t \in Task, DeleteAcked(t) PROVE ItemStep
  BY <1>3, DeleteAckedEffect, Kinds
<1>4. ASSUME NEW t \in Task, SelectDevice(t) PROVE ItemStep
  BY <1>4, SelectEffect
<1>5. ASSUME NEW t \in Task, LoadDevice(t) PROVE ItemStep
  BY <1>5, LoadEffect, Kinds
<1>6. ASSUME NEW t \in Task, GetNext(t) PROVE ItemStep
  BY <1>6, NextEffect, Kinds
<1>7. ASSUME NEW t \in Task, Discard(t) PROVE ItemStep
  BY <1>7, DiscardEffect, Kinds
<1>8. ASSUME NEW t \in Task, UpdateQueueItem(t) PROVE ItemStep
  BY <1>8, PutEffect, Kinds
<1>9. ASSUME NEW t \in Task, SendFrame(t) PROVE ItemStep
  BY <1>9, SendEffect, Kinds DEF OtherFrames
<1>10. ASSUME NEW t \in Task, XmitDataAns(t) PROVE ItemStep
  <2>1. \A k \in FrameId : frame'[k].payload = frame[k].payload
    BY <1>10, XmitEffect
  <2>2. /\ \A u \in Task \ {t} : task'[u] = task[u]
        /\ task'[t].item = None \/ \E k \in FrameId : task'[t].item = frame[k].payload
    BY <1>10, XmitEffect, Kinds
  <2> QED
    BY <2>1, <2>2
<1>11. ASSUME NEW t \in Task, NEW k \in FrameId, TxAck(t, k) PROVE ItemStep
  BY <1>11, TxAckEffect, Kinds DEF OtherFrames
<1>12. ASSUME NEW t \in Task, AckGetDevice(t) PROVE ItemStep
  BY <1>12, AckDeviceEffect
<1>13. ASSUME NEW t \in Task, AckGetItem(t) PROVE ItemStep
  BY <1>13, AckItemEffect, Kinds
<1>14. ASSUME NEW t \in Task, AckPutItem(t) PROVE ItemStep
  BY <1>14, AckRowEffect, Kinds
<1>15. ASSUME NEW t \in Task, AckSaveSession(t) \/ Abort(t) PROVE ItemStep
  <2>1. Ended(t)
    BY <1>15, AckSaveEffect, Goes DEF Abort
  <2> QED
    BY <1>15, <2>1, Kinds DEF AckSaveSession, Abort
<1>16. ASSUME NEW k \in FrameId, FrameExpires(k) PROVE ItemStep
  BY <1>16, ExpireEffect
<1>17. ASSUME NEW k \in FrameId, MessageLost(k) \/ GatewayRejects(k) PROVE ItemStep
  BY <1>17, LostEffect, Kinds DEF OtherFrames
<1>18. ASSUME NEW k \in FrameId, NEW received \in BOOLEAN, GatewayAccepts(k, received) PROVE ItemStep
  BY <1>18, AcceptEffect DEF OtherFrames
<1>19. CASE UNCHANGED <<task, frame>>
  BY <1>19
<1>20. CASE Next
  BY <1>1, <1>2, <1>3, <1>4, <1>5, <1>6, <1>7, <1>8, <1>9, <1>10, <1>11, <1>12, <1>13, <1>14,
     <1>15, <1>16, <1>17, <1>18, <1>19, <1>20
     DEF Next, ServerStep, Enqueue, Flush, TimeoutPasses, LockEnds, AckLost, UpdateDevice
<1> QED
  BY <1>19, <1>20 DEF vars

LEMMA PassedNext == Basics /\ TypeOK' /\ [Next]_vars => ItemsPassed'
<1> SUFFICES ASSUME Basics, TypeOK', [Next]_vars PROVE ItemsPassed'
  OBVIOUS
<1> USE DEF Basics
<1>1. QueueStep /\ ItemStep
  BY QueueSteps, ItemSteps
<1>2. enqueued \in Nat
  BY DEF TypeOK
<1>3. Queued' \subseteq 1 .. enqueued' /\ Passed \subseteq Passed'
  <2>1. CASE Queued' \subseteq Queued /\ enqueued' = enqueued
    BY <2>1 DEF Passed, ItemsPassed
  <2>2. CASE Queued' = Queued \cup {enqueued + 1} /\ enqueued' = enqueued + 1
    <3>1. 1 .. enqueued' = (1 .. enqueued) \cup {enqueued + 1}
      BY <1>2, <2>2
    <3> QED
      BY <1>2, <2>2, <3>1 DEF Passed, ItemsPassed
  <2> QED
    BY <1>1, <2>1, <2>2 DEF QueueStep
<1>5. Queued # {} => Oldest \in Passed
  BY OldestIsFirst DEF Passed, ItemsPassed
<1>7. \A t \in Task : task'[t].item \in Passed \cup {None}
  BY <1>1, <1>5 DEF ItemStep, ItemsPassed
<1>8. \A k \in FrameId : frame'[k].payload \in Passed \cup {None}
  BY <1>1 DEF ItemStep, ItemsPassed
<1>9. Pending' \subseteq Passed
  BY QueueSteps, Kinds DEF ItemsPassed, ItemHeld
<1> QED
  BY <1>3, <1>7, <1>8, <1>9 DEF ItemsPassed

LEMMA OneRow ==
  ASSUME NEW i, OtherRows(i), Queued' \subseteq Queued, i \notin Queued' \/ queue'[i].fCnt \in Nat
  PROVE  Unnumbered' \subseteq Unnumbered
<1>1. Queued \subseteq Item
  BY DEF Queued
<1>2. \A j \in Queued' : j \in Queued /\ (j # i => queue'[j] = queue[j])
  BY <1>1 DEF OtherRows
<1> QED
  BY <1>2 DEF Unnumbered

LEMMA NumberSteps ==
  ASSUME Basics, [Next]_vars
  PROVE  Unnumbered' \subseteq Unnumbered \cup ({enqueued + 1} \ Encrypted)
<1> USE DEF Basics, Unnumbered, Deletes, OtherRows
<1>0. /\ Queued \subseteq Item /\ Queued' \subseteq Item
      /\ \A i \in Item : queue[i] \in Row \cup {NoRow}
  BY DEF Queued, TypeOK
<1> DEFINE Goal == Unnumbered' \subseteq Unnumbered
<1>1. ASSUME NEW c \in FCnt \cup {-1}, Enqueue(c)
      PROVE Unnumbered' \subseteq Unnumbered \cup ({enqueued + 1} \ Encrypted)
  BY <1>0, <1>1, EnqueueEffect
<1>2. ASSUME NEW is \in SUBSET Item, Flush(is) PROVE Goal
  BY <1>0, <1>2, FlushEffect
<1>3. ASSUME NEW i \in Item, TimeoutPasses(i) PROVE Goal
  BY <1>0, <1>3, TimeoutEffect
<1>7. ASSUME UNCHANGED queue PROVE Goal
  BY <1>7 DEF Queued
<1>4. ASSUME NEW t \in Task, DeleteAcked(t) \/ Discard(t) PROVE Goal
  <2>1. CASE DeleteAcked(t)
    BY <2>1, <1>7, OneRow, DeleteAckedEffect
  <2>2. CASE Discard(t)
    BY <2>2, <1>7, OneRow, DiscardEffect
  <2> QED
    BY <1>4, <2>1, <2>2
<1>5. ASSUME NEW t \in Task, UpdateQueueItem(t) PROVE Goal
  <2>1. AFCntDown(task[t].snap) \in Nat
    BY Records, CounterType DEF TypeOK
  <2> QED
    BY <1>5, <1>7, <2>1, PutEffect, OneRow
<1>6. ASSUME NEW t \in Task, AckPutItem(t) PROVE Goal
  <2>1. task[t].item # None /\ task[t].copy.fCnt \in Nat
    BY <1>6, AckRowEffect, Kinds DEF HasFCnt, TaskHasFCnt
  <2>3. CASE Deletes(task[t].item)
    BY <2>3, OneRow
  <2>4. CASE /\ OtherRows(task[t].item) /\ Queued' = Queued
             /\ queue'[task[t].item].fCnt = task[t].copy.fCnt
    BY <2>1, <2>4, OneRow
  <2> QED
    BY <1>6, <1>7, <2>3, <2>4, AckRowEffect
<1>8. CASE Next
  BY <1>0, <1>1, <1>2, <1>3, <1>4, <1>5, <1>6, <1>7, <1>8
     DEF Next, ServerStep, LockEnds, FrameExpires, MessageLost, GatewayRejects, GatewayAccepts,
         AckLost, Uplink, SelectDevice, TxAck, UpdateDevice, GetPending, LoadDevice, GetNext,
         SendFrame, XmitDataAns, AckGetDevice, AckGetItem, AckSaveSession, Abort
<1>9. CASE UNCHANGED vars
  BY <1>0, <1>7, <1>9 DEF vars
<1> QED
  BY <1>8, <1>9

(* Nothing that is held has the number of the next item.                   *)
LEMMA HeldSteps ==
  ASSUME Basics, [Next]_vars
  PROVE  /\ enqueued + 1 \notin Passed
         /\ \A t \in Task : task'[t].item \in Passed \cup {None}
         /\ \A k \in FrameId : frame'[k].payload \in Passed \cup {None}
         /\ Pending' \subseteq Passed
<1> USE DEF Basics
<1>1. ItemStep
  BY ItemSteps
<1>2. Queued # {} => Oldest \in Passed
  BY OldestIsFirst DEF Passed, ItemsPassed
<1>3. enqueued + 1 \notin Passed
  BY DEF Passed, TypeOK
<1>4. Pending' \subseteq Passed
  BY QueueSteps, Kinds DEF ItemsPassed, ItemHeld
<1> QED
  BY <1>1, <1>2, <1>3, <1>4 DEF ItemStep, ItemsPassed

LEMMA ProfileStays == [Next]_vars => UNCHANGED profile
  BY DEF Next, vars, Enqueue, Flush, TimeoutPasses, LockEnds, FrameExpires, MessageLost,
         GatewayRejects, GatewayAccepts, AckLost, Uplink, SelectDevice, TxAck, ServerStep,
         UpdateDevice, GetPending, DeleteAcked, LoadDevice, GetNext, Discard, UpdateQueueItem,
         SendFrame, XmitDataAns, AckGetDevice, AckGetItem, AckPutItem, AckSaveSession, Abort

LEMMA HasFCntNext == Basics /\ TypeOK' /\ [Next]_vars => HasFCnt'
<1> SUFFICES ASSUME Basics, TypeOK', [Next]_vars PROVE HasFCnt'
  OBVIOUS
<1> USE DEF Basics
<1> DEFINE Goal == \A t \in Task : TaskHasFCnt(t)'
<1>0. /\ None \notin Unnumbered /\ None \notin Encrypted /\ UNCHANGED Encrypted
      /\ \A t \in Task : task[t] \in TaskData /\ pc[t] \in Steps
      /\ \A i \in Queued : queue[i] \in Row
      /\ \A i \in Queued : i \in Unnumbered <=> queue[i].fCnt \notin Nat
  <2>1. None \notin Unnumbered
    BY Kinds DEF Unnumbered, Queued
  <2>2. None \notin Encrypted
    BY Kinds DEF Encrypted, TypeOK, Profile
  <2>3. UNCHANGED Encrypted
    BY ProfileStays DEF Encrypted
  <2>4. \A i \in Queued : queue[i] \in Row /\ (i \in Unnumbered <=> queue[i].fCnt \notin Nat)
    BY DEF Unnumbered, Queued, TypeOK
  <2> QED
    BY <2>1, <2>2, <2>3, <2>4 DEF TypeOK
<1>1. /\ \A x \in Passed \cup {None} : x \in Unnumbered' => x \in Unnumbered
      /\ Encrypted \cap Unnumbered' = {}
      /\ \A t \in Task : task[t].item \in Passed \cup {None} /\ task'[t].item \in Passed \cup {None}
      /\ \A k \in FrameId : /\ frame[k].payload \in Passed \cup {None}
                           /\ frame'[k].payload \in Passed \cup {None}
      /\ Queued # {} => Oldest \in Queued
  <2>1. \A x \in Passed \cup {None} : x \in Unnumbered' => x \in Unnumbered
    BY NumberSteps, HeldSteps, Kinds DEF Unnumbered, Queued, Item
  <2>2. Encrypted \cap Unnumbered' = {}
    BY NumberSteps DEF HasFCnt
  <2> QED
    BY <2>1, <2>2, HeldSteps, OldestIsFirst DEF ItemsPassed
<1>2. ASSUME NEW u \in Task, pc'[u] = pc[u], task'[u] = task[u] PROVE TaskHasFCnt(u)'
  <2>1. TaskHasFCnt(u)
    BY DEF HasFCnt
  <2> QED
    BY <1>0, <1>1, <1>2, <2>1 DEF TaskHasFCnt
<1>3. \A k \in FrameId : frame'[k].payload \notin Unnumbered'
  <2> SUFFICES ASSUME NEW k \in FrameId PROVE frame'[k].payload \notin Unnumbered
    BY <1>1
  <2>1. CASE frame'[k].payload \in {frame[k].payload, None}
    BY <1>0, <2>1 DEF HasFCnt
  <2>2. CASE frame'[k].payload \notin {frame[k].payload, None}
    <3>1. PICK t \in Task : SendFrame(t)
      BY <2>2, ItemSteps DEF ItemStep
    <3> QED
      BY <1>0, <3>1, SendEffect DEF HasFCnt, TaskHasFCnt, OtherFrames
  <2> QED
    BY <2>1, <2>2
<1>4. ASSUME NEW t \in Task, Ended(t) PROVE Goal
  <2>1. TaskHasFCnt(t)'
    BY <1>4, Kinds DEF Ended, TaskHasFCnt
  <2> QED
    BY <1>2, <1>4, <2>1 DEF Ended, Others
<1>5. ASSUME NEW t \in Task, NEW from, NEW to, Step(t, from, to), TaskHasFCnt(t)' PROVE Goal
  BY <1>2, <1>5 DEF Step, Others
<1>6. ASSUME UNCHANGED <<pc, task>> PROVE Goal
  BY <1>2, <1>6
<1>7. ASSUME NEW t \in Task, NEW must \in BOOLEAN, Uplink(t, must) PROVE Goal
  BY <1>5, <1>6, <1>7, UplinkEffect DEF Step, TaskHasFCnt
<1>8. ASSUME NEW t \in Task, UpdateDevice(t) PROVE Goal
  BY <1>5, <1>8, UpdateEffect DEF Step, TaskHasFCnt
<1>9. ASSUME NEW t \in Task, GetPending(t) PROVE Goal
  BY <1>5, <1>9, PendingEffect DEF Step, TaskHasFCnt
<1>10. ASSUME NEW t \in Task, DeleteAcked(t) PROVE Goal
  BY <1>4, <1>5, <1>10, DeleteAckedEffect DEF Step, TaskHasFCnt
<1>11. ASSUME NEW t \in Task, SelectDevice(t) PROVE Goal
  BY <1>5, <1>11, SelectEffect DEF Step, TaskHasFCnt
<1>12. ASSUME NEW t \in Task, LoadDevice(t) PROVE Goal
  BY <1>4, <1>5, <1>12, LoadEffect DEF Step, TaskHasFCnt
<1>13. ASSUME NEW t \in Task, GetNext(t) PROVE Goal
  <2>1. CASE Step(t, "next", "send") /\ task'[t] = task[t]
    <3>1. task[t].item = None
      BY <2>1 DEF ItemFree, Step
    <3> QED
      BY <1>0, <1>1, <1>5, <2>1, <3>1 DEF Step, TaskHasFCnt
  <2>2. CASE Step(t, "next", "putItem") /\ task'[t].item = Oldest /\ task'[t].copy = queue[Oldest] /\ Queued # {}
    <3>1. queue[Oldest] \in Row /\ (Oldest \in Encrypted => queue[Oldest].fCnt \in Nat)
      BY <1>0, <1>1, <2>2 DEF HasFCnt
    <3> QED
      BY <1>0, <1>5, <2>2, <3>1 DEF Step, TaskHasFCnt
  <2>3. CASE Step(t, "next", "discard")
    BY <1>5, <2>3 DEF Step, TaskHasFCnt
  <2> QED
    BY <1>4, <1>13, <2>1, <2>2, <2>3, NextEffect
<1>14. ASSUME NEW t \in Task, Discard(t) PROVE Goal
  BY <1>4, <1>5, <1>14, DiscardEffect DEF Step, TaskHasFCnt
<1>15. ASSUME NEW t \in Task, UpdateQueueItem(t) PROVE Goal
  <2>1. CASE Step(t, "putItem", "send") /\ UNCHANGED task
    <3>1. task[t].item \notin Unnumbered'
      <4>1. CASE task[t].item \in Encrypted
        BY <1>1, <4>1
      <4>2. CASE task[t].item \notin Encrypted
        <5>1. queue'[task[t].item].fCnt = AFCntDown(task[t].snap)
          BY <1>15, <2>1, <4>2, PutEffect DEF Step, Ended
        <5>2. AFCntDown(task[t].snap) \in Nat
          BY <1>0, Records, CounterType
        <5> QED
          BY <5>1, <5>2 DEF Unnumbered
      <4> QED
        BY <4>1, <4>2
    <3>2. TaskHasFCnt(t)
      BY DEF HasFCnt
    <3> QED
      BY <1>0, <1>5, <2>1, <3>1, <3>2 DEF Step, TaskHasFCnt
  <2> QED
    BY <1>4, <1>15, <2>1, PutEffect
<1>16. ASSUME NEW t \in Task, SendFrame(t) PROVE Goal
  <2>1. CASE Step(t, "send", "xmitAns") /\ task'[t].item = None
    BY <1>0, <1>1, <1>5, <2>1 DEF Step, TaskHasFCnt
  <2> QED
    BY <1>4, <1>16, <2>1, SendEffect
<1>17. ASSUME NEW t \in Task, XmitDataAns(t) PROVE Goal
  <2>1. CASE /\ Step(t, "xmitAns", "ackData") /\ task[t].id \in FrameId
             /\ task'[t].item = frame[task[t].id].payload
    BY <1>0, <1>1, <1>5, <2>1 DEF Step, TaskHasFCnt, HasFCnt
  <2> QED
    BY <1>4, <1>17, <2>1, XmitEffect
<1>18. ASSUME NEW t \in Task, NEW k \in FrameId, TxAck(t, k) PROVE Goal
  <2>1. CASE Step(t, "idle", "ackData") /\ task'[t].item = frame[k].payload
    BY <1>0, <1>1, <1>5, <2>1 DEF Step, TaskHasFCnt, HasFCnt
  <2> QED
    BY <1>6, <1>18, <2>1, TxAckEffect
<1>19. ASSUME NEW t \in Task, AckGetDevice(t) PROVE Goal
  <2>1. TaskHasFCnt(t)
    BY DEF HasFCnt
  <2> QED
    BY <1>0, <1>1, <1>5, <1>19, <2>1, AckDeviceEffect DEF Step, TaskHasFCnt
<1>20. ASSUME NEW t \in Task, AckGetItem(t) PROVE Goal
  <2>1. CASE /\ Step(t, "ackItem", "ackPut") /\ task[t].item \in Queued
             /\ task'[t].item = task[t].item /\ task'[t].copy = queue[task[t].item]
    <3>1. TaskHasFCnt(t)
      BY DEF HasFCnt
    <3>2. queue[task[t].item] \in Row /\ queue[task[t].item].fCnt \in Nat
      BY <1>0, <2>1, <3>1 DEF Step, TaskHasFCnt
    <3> QED
      BY <1>0, <1>1, <1>5, <2>1, <3>1, <3>2 DEF Step, TaskHasFCnt
  <2> QED
    BY <1>4, <1>20, <2>1, AckItemEffect
<1>21. ASSUME NEW t \in Task, AckPutItem(t) PROVE Goal
  <2>1. TaskHasFCnt(t)
    BY DEF HasFCnt
  <2>2. CASE Step(t, "ackPut", "ackSave") /\ UNCHANGED task
    BY <1>5, <2>1, <2>2 DEF Step, TaskHasFCnt
  <2> QED
    BY <1>4, <1>21, <2>2, AckRowEffect
<1>22. ASSUME NEW t \in Task, AckSaveSession(t) \/ Abort(t) PROVE Goal
  <2>1. Ended(t)
    BY <1>22, AckSaveEffect, Goes DEF Abort
  <2> QED
    BY <1>4, <2>1
<1>23. CASE Next
  <2>1. Goal
    BY <1>6, <1>7, <1>8, <1>9, <1>10, <1>11, <1>12, <1>13, <1>14, <1>15, <1>16, <1>17, <1>18,
       <1>19, <1>20, <1>21, <1>22, <1>23
       DEF Next, ServerStep, Enqueue, Flush, TimeoutPasses, LockEnds, FrameExpires, MessageLost,
           GatewayRejects, GatewayAccepts, AckLost
  <2> QED
    BY <1>0, <1>1, <1>3, <2>1 DEF HasFCnt
<1>24. CASE UNCHANGED vars
  BY <1>0, <1>1, <1>3, <1>6, <1>24 DEF vars, HasFCnt
<1> QED
  BY <1>23, <1>24

LEMMA BasicsInit == Init => Basics
<1> SUFFICES ASSUME Init PROVE Basics
  OBVIOUS
<1>1. Queued = {} /\ Pending = {} /\ Unnumbered = {}
  BY Kinds DEF Init, Queued, Pending, Unnumbered
<1>2. ItemFree /\ ItemHeld /\ AnswersKnown
  BY Kinds DEF Init, ItemFree, ItemHeld, AnswersKnown
<1>3. ItemsPassed
  BY <1>1, Kinds DEF Init, ItemsPassed
<1>4. HasFCnt
  BY <1>1 DEF Init, HasFCnt, TaskHasFCnt
<1> QED
  BY <1>2, <1>3, <1>4, TypeInit DEF Basics

LEMMA BasicsNext == Basics /\ [Next]_vars => Basics'
  BY TypeNext, ItemsNext, PassedNext, HasFCntNext DEF Basics

(* Type correctness of the queue, the tasks, the frames and the counters.  *)
THEOREM TypeCorrect == Spec => []TypeOK
<1>1. Basics => TypeOK
  BY DEF Basics
<1> QED
  BY <1>1, BasicsInit, BasicsNext, PTL DEF Spec

(* A pending item is the oldest of the queue, whatever tasks overlap and   *)
(* whichever of them fail.                                                 *)
THEOREM PendingStaysOldest == Spec => []PendingIsOldest
<1>1. Basics => PendingIsOldest
  <2> SUFFICES ASSUME Basics, NEW i \in Queued, queue[i].pending PROVE i = Oldest
    BY DEF PendingIsOldest
  <2>1. i \in Passed /\ Queued \subseteq 1 .. enqueued
    BY DEF Basics, ItemsPassed, Pending
  <2>2. \A j \in Queued : i <= j
    BY <2>1 DEF Passed
  <2>3. Oldest \in Queued /\ Oldest <= i
    BY OldestIsFirst
  <2>4. i <= Oldest /\ i \in Int /\ Oldest \in Int
    BY <2>1, <2>2, <2>3
  <2> QED
    BY <2>3, <2>4
<1> QED
  BY <1>1, BasicsInit, BasicsNext, PTL DEF Spec

-----------------------------------------------------------------------------
(* The items that left the queue have had their final event, no other has. *)
Settled == \A i \in Item : final[i] = IF i \in (1 .. enqueued) \ Queued THEN 1 ELSE 0

LEMMA SettledNext == Basics /\ Settled /\ [Next]_vars => Settled'
<1> SUFFICES ASSUME Basics, Settled, [Next]_vars PROVE Settled'
  OBVIOUS
<1> USE DEF Basics
<1>0. enqueued \in Nat /\ Queued \subseteq 1 .. enqueued
  BY DEF TypeOK, ItemsPassed
<1>1. ASSUME NEW c \in FCnt \cup {-1}, Enqueue(c) PROVE Settled'
  <2>1. 1 .. enqueued' = (1 .. enqueued) \cup {enqueued + 1}
    BY <1>0, <1>1, EnqueueEffect
  <2>2. (1 .. enqueued') \ Queued' = (1 .. enqueued) \ Queued
    BY <1>0, <1>1, <2>1, EnqueueEffect
  <2> QED
    BY <1>1, <2>2, EnqueueEffect DEF Settled
<1>2. ASSUME NEW is \in SUBSET Item, Flush(is) PROVE Settled'
  <2>1. /\ is \subseteq Queued /\ Queued' = Queued \ is /\ enqueued' = enqueued
        /\ \A j \in Item : final'[j] = IF j \in is /\ final[j] < 2 THEN final[j] + 1 ELSE final[j]
    BY <1>2, FlushEffect
  <2>2. \A i \in is : final[i] = 0 /\ i \in 1 .. enqueued
    BY <1>0, <2>1 DEF Settled, Queued
  <2>3. \A j \in Item : final'[j] = IF j \in is THEN 1 ELSE final[j]
    BY <2>1, <2>2
  <2> QED
    BY <2>1, <2>2, <2>3 DEF Settled
<1>3. ASSUME NEW i \in Queued, Deletes(i), UNCHANGED enqueued PROVE Settled'
  <2>1. /\ Queued' = Queued \ {i}
        /\ \A j \in Item : final'[j] = IF j = i /\ final[j] < 2 THEN final[j] + 1 ELSE final[j]
    BY <1>3 DEF Deletes
  <2>2. final[i] = 0 /\ i \in 1 .. enqueued /\ enqueued' = enqueued
    BY <1>0, <1>3 DEF Settled, Queued
  <2>3. \A j \in Item : final'[j] = IF j = i THEN 1 ELSE final[j]
    BY <2>1, <2>2
  <2> QED
    BY <2>1, <2>2, <2>3 DEF Settled
<1>4. ASSUME UNCHANGED final, Queued' = Queued, UNCHANGED enqueued PROVE Settled'
  BY <1>4 DEF Settled
<1>5. ASSUME UNCHANGED <<final, queue, enqueued>> PROVE Settled'
  BY <1>4, <1>5 DEF Queued
<1>6. ASSUME NEW t \in Task, DeleteAcked(t) PROVE Settled'
  BY <1>3, <1>5, <1>6, DeleteAckedEffect
<1>7. ASSUME NEW t \in Task, Discard(t) PROVE Settled'
  BY <1>3, <1>5, <1>7, DiscardEffect
<1>8. ASSUME NEW t \in Task, UpdateQueueItem(t) PROVE Settled'
  BY <1>4, <1>5, <1>8, PutEffect
<1>9. ASSUME NEW t \in Task, AckPutItem(t) PROVE Settled'
  BY <1>3, <1>4, <1>5, <1>9, AckRowEffect
<1>10. ASSUME NEW i \in Item, TimeoutPasses(i) PROVE Settled'
  BY <1>4, <1>10, TimeoutEffect
<1>11. ASSUME \/ LockEnds \/ AckLost
              \/ \E k \in FrameId : \/ FrameExpires(k) \/ MessageLost(k) \/ GatewayRejects(k)
                                    \/ \E received \in BOOLEAN : GatewayAccepts(k, received)
      PROVE  Settled'
  BY <1>5, <1>11 DEF LockEnds, FrameExpires, MessageLost, GatewayRejects, GatewayAccepts, AckLost
<1>12. ASSUME NEW t \in Task,
              \/ \E must \in BOOLEAN : Uplink(t, must)
              \/ \E k \in FrameId : TxAck(t, k)
              \/ SelectDevice(t) \/ UpdateDevice(t) \/ GetPending(t) \/ LoadDevice(t) \/ GetNext(t)
              \/ SendFrame(t) \/ XmitDataAns(t) \/ AckGetDevice(t) \/ AckGetItem(t)
              \/ AckSaveSession(t) \/ Abort(t)
      PROVE  Settled'
  BY <1>5, <1>12 DEF Uplink, SelectDevice, TxAck, UpdateDevice, GetPending, LoadDevice, GetNext,
                     SendFrame, XmitDataAns, AckGetDevice, AckGetItem, AckSaveSession, Abort
<1>13. CASE Next
  BY <1>1, <1>2, <1>6, <1>7, <1>8, <1>9, <1>10, <1>11, <1>12, <1>13 DEF Next, ServerStep
<1> QED
  BY <1>5, <1>13 DEF vars

(* Every item that was enqueued leaves the queue once, with exactly one    *)
(* final event, for any number of overlapping tasks.                       *)
THEOREM EveryItemSettledOnce == Spec => []SettledOnce
<1>1. Init => Settled
  BY DEF Init, Settled
<1>2. Basics /\ Settled => SettledOnce
  BY DEF Basics, TypeOK, Settled, SettledOnce, Item
<1> QED
  BY <1>1, <1>2, BasicsInit, BasicsNext, SettledNext, PTL DEF Spec

-----------------------------------------------------------------------------
(* What is handled as acknowledged by a gateway, and what is pending, is   *)
(* in a frame that a gateway accepted.  An item that is pending is never   *)
(* taken for a frame, so no stale copy makes a row pending.                *)
Known == {"ackData", "ackItem", "ackPut", "ackSave"}
AcceptedItems == {f.payload : f \in accepted} \cup {None}
TaskAccepted(t) ==
  /\ pc[t] = "xmitAns" => profile.roaming
  /\ pc[t] = "putItem" => ~task[t].copy.pending
  /\ pc[t] \in Known /\ ~profile.roaming => task[t].item \in AcceptedItems
FramesAccepted == ~profile.roaming =>
  \A k \in FrameId : frame[k].stage = "ok" => frame[k].payload \in AcceptedItems
PendingAccepted == ~profile.roaming => Pending \subseteq AcceptedItems
AcceptInv == (\A t \in Task : TaskAccepted(t)) /\ FramesAccepted /\ PendingAccepted

LEMMA AcceptedGrow == Basics /\ [Next]_vars => AcceptedItems \subseteq AcceptedItems'
<1> SUFFICES ASSUME Basics, [Next]_vars PROVE accepted \subseteq accepted'
  BY DEF AcceptedItems
<1>1. ASSUME NEW k \in FrameId, NEW received \in BOOLEAN, GatewayAccepts(k, received)
      PROVE accepted \subseteq accepted'
  BY <1>1 DEF GatewayAccepts
<1> QED
  BY <1>1 DEF Next, vars, Enqueue, Flush, TimeoutPasses, LockEnds, FrameExpires, MessageLost,
     GatewayRejects, AckLost, Uplink, SelectDevice, TxAck, ServerStep,
     UpdateDevice, GetPending, DeleteAcked, LoadDevice, GetNext, Discard, UpdateQueueItem,
     SendFrame, XmitDataAns, AckGetDevice, AckGetItem, AckPutItem, AckSaveSession, Abort

LEMMA TaskAcceptedNext ==
  Basics /\ AcceptInv /\ [Next]_vars => \A t \in Task : TaskAccepted(t)'
<1> DEFINE Goal == \A t \in Task : TaskAccepted(t)'
<1> SUFFICES ASSUME Basics, AcceptInv, [Next]_vars PROVE Goal
  OBVIOUS
<1> USE DEF Basics, Known
<1>0. AcceptedItems \subseteq AcceptedItems' /\ UNCHANGED profile /\ None \in AcceptedItems
  BY AcceptedGrow, ProfileStays DEF AcceptedItems
<1>2. ASSUME NEW u \in Task, pc'[u] = pc[u], task'[u] = task[u] PROVE TaskAccepted(u)'
  BY <1>0, <1>2 DEF AcceptInv, TaskAccepted
<1>4. ASSUME NEW t \in Task, Ended(t) PROVE Goal
  <2>1. TaskAccepted(t)'
    BY <1>4 DEF Ended, TaskAccepted
  <2> QED
    BY <1>2, <1>4, <2>1 DEF Ended, Others
<1>5. ASSUME NEW t \in Task, NEW from, NEW to, Step(t, from, to), TaskAccepted(t)' PROVE Goal
  BY <1>2, <1>5 DEF Step, Others
<1>6. ASSUME UNCHANGED <<pc, task>> PROVE Goal
  BY <1>2, <1>6
<1>7. ASSUME NEW t \in Task, NEW from,
             NEW to \in {"update", "pending?", "acked", "load", "next", "discard", "send"},
             Step(t, from, to)
      PROVE  Goal
  BY <1>5, <1>7 DEF Step, TaskAccepted
<1>8. ASSUME NEW t \in Task, GetNext(t) PROVE Goal
  <2>1. CASE /\ Step(t, "next", "putItem") /\ task'[t].copy = queue[Oldest]
             /\ Queued # {} /\ Oldest \notin Pending
    <3>1. ~task'[t].copy.pending
      BY <2>1, OldestIsFirst DEF Pending
    <3> QED
      BY <1>5, <2>1, <3>1 DEF Step, TaskAccepted
  <2> QED
    BY <1>4, <1>7, <1>8, <2>1, NextEffect
<1>9. ASSUME NEW t \in Task, SendFrame(t) PROVE Goal
  <2>1. CASE Step(t, "send", "xmitAns") /\ profile.roaming
    BY <1>0, <1>5, <2>1 DEF Step, TaskAccepted
  <2> QED
    BY <1>4, <1>9, <2>1, SendEffect
<1>10. ASSUME NEW t \in Task, XmitDataAns(t) PROVE Goal
  <2>1. CASE Step(t, "xmitAns", "ackData")
    <3>1. profile'.roaming
      BY <1>0, <2>1 DEF AcceptInv, TaskAccepted, Step
    <3> QED
      BY <1>5, <2>1, <3>1 DEF Step, TaskAccepted
  <2> QED
    BY <1>4, <1>10, <2>1, XmitEffect
<1>11. ASSUME NEW t \in Task, NEW k \in FrameId, TxAck(t, k) PROVE Goal
  <2>1. CASE /\ Step(t, "idle", "ackData") /\ frame[k].stage = "ok"
             /\ task'[t].item = frame[k].payload
    BY <1>0, <1>5, <2>1 DEF Step, AcceptInv, FramesAccepted, TaskAccepted
  <2> QED
    BY <1>6, <1>11, <2>1, TxAckEffect
<1>12. ASSUME NEW t \in Task, NEW from \in Known, NEW to \in Known, Step(t, from, to),
              task'[t].item = task[t].item
       PROVE  Goal
  <2>1. TaskAccepted(t)
    BY DEF AcceptInv
  <2> QED
    BY <1>0, <1>5, <1>12, <2>1 DEF Step, TaskAccepted
<1>13. ASSUME NEW t \in Task, AckGetDevice(t) PROVE Goal
  BY <1>12, <1>13, AckDeviceEffect
<1>14. ASSUME NEW t \in Task, AckGetItem(t) PROVE Goal
  BY <1>4, <1>12, <1>14, AckItemEffect
<1>15. ASSUME NEW t \in Task, AckPutItem(t) PROVE Goal
  BY <1>4, <1>12, <1>15, AckRowEffect
<1>16. ASSUME NEW t \in Task, AckSaveSession(t) \/ Abort(t) PROVE Goal
  <2>1. Ended(t)
    BY <1>16, AckSaveEffect, Goes DEF Abort
  <2> QED
    BY <1>4, <2>1
<1>17. ASSUME NEW t \in Task, NEW must \in BOOLEAN, Uplink(t, must) PROVE Goal
  BY <1>6, <1>7, <1>17, UplinkEffect
<1>18. ASSUME NEW t \in Task, UpdateDevice(t) PROVE Goal
  BY <1>7, <1>18, UpdateEffect
<1>19. ASSUME NEW t \in Task, GetPending(t) PROVE Goal
  BY <1>7, <1>19, PendingEffect
<1>20. ASSUME NEW t \in Task, DeleteAcked(t) \/ Discard(t) PROVE Goal
  BY <1>4, <1>7, <1>20, DeleteAckedEffect, DiscardEffect
<1>21. ASSUME NEW t \in Task, SelectDevice(t) \/ LoadDevice(t) PROVE Goal
  BY <1>4, <1>7, <1>21, SelectEffect, LoadEffect
<1>22. ASSUME NEW t \in Task, UpdateQueueItem(t) PROVE Goal
  BY <1>4, <1>7, <1>22, PutEffect
<1>23. CASE Next
  BY <1>6, <1>8, <1>9, <1>10, <1>11, <1>13, <1>14, <1>15, <1>16, <1>17, <1>18, <1>19, <1>20,
     <1>21, <1>22, <1>23
     DEF Next, ServerStep, Enqueue, Flush, TimeoutPasses, LockEnds, FrameExpires, MessageLost,
         GatewayRejects, GatewayAccepts, AckLost
<1> QED
  BY <1>6, <1>23 DEF vars

LEMMA FramesAcceptedNext == Basics /\ AcceptInv /\ [Next]_vars => FramesAccepted'
<1> SUFFICES ASSUME Basics, AcceptInv, [Next]_vars, NEW k \in FrameId, frame'[k].stage = "ok",
                    ~profile.roaming
             PROVE  frame'[k].payload \in AcceptedItems'
  BY ProfileStays DEF FramesAccepted
<1> USE DEF Basics, OtherFrames
<1>0. AcceptedItems \subseteq AcceptedItems'
  BY AcceptedGrow
<1>1. ASSUME frame[k].stage = "ok", frame'[k].payload = frame[k].payload
      PROVE  frame'[k].payload \in AcceptedItems'
  BY <1>0, <1>1 DEF AcceptInv, FramesAccepted
<1>2. ASSUME NEW j \in FrameId, NEW received \in BOOLEAN, GatewayAccepts(j, received)
      PROVE  frame'[k].payload \in AcceptedItems'
  <2>1. CASE k = j
    <3> DEFINE f == [payload |-> frame[j].payload, fCnt |-> frame[j].fCnt, id |-> j]
    <3>1. f \in accepted' /\ f.payload = frame[j].payload
      BY <1>2 DEF GatewayAccepts
    <3>2. frame'[k].payload = frame[j].payload
      BY <1>2, <2>1, AcceptEffect
    <3> QED
      BY <3>1, <3>2 DEF AcceptedItems
  <2>2. CASE k # j
    BY <1>1, <1>2, <2>2, AcceptEffect
  <2> QED
    BY <2>1, <2>2
<1>3. ASSUME NEW j \in FrameId, FrameExpires(j) PROVE frame'[k].payload \in AcceptedItems'
  BY <1>1, <1>3, ExpireEffect
<1>4. ASSUME NEW j \in FrameId, MessageLost(j) \/ GatewayRejects(j)
      PROVE  frame'[k].payload \in AcceptedItems'
  BY <1>1, <1>4, LostEffect, Stages
<1>5. ASSUME NEW t \in Task, SendFrame(t) PROVE frame'[k].payload \in AcceptedItems'
  BY <1>1, <1>5, SendEffect
<1>6. ASSUME NEW t \in Task, XmitDataAns(t) PROVE frame'[k].payload \in AcceptedItems'
  BY <1>1, <1>6, XmitEffect
<1>7. ASSUME NEW t \in Task, NEW j \in FrameId, TxAck(t, j)
      PROVE  frame'[k].payload \in AcceptedItems'
  BY <1>1, <1>7, TxAckEffect, Stages
<1>8. CASE UNCHANGED frame
  BY <1>1, <1>8
<1>9. CASE Next
  BY <1>2, <1>3, <1>4, <1>5, <1>6, <1>7, <1>8, <1>9
     DEF Next, ServerStep, Enqueue, Flush, TimeoutPasses, LockEnds, AckLost, Uplink,
         SelectDevice, UpdateDevice, GetPending, DeleteAcked, LoadDevice, GetNext, Discard,
         UpdateQueueItem, AckGetDevice, AckGetItem, AckPutItem, AckSaveSession, Abort
<1> QED
  BY <1>8, <1>9 DEF vars

LEMMA AcceptNext == Basics /\ AcceptInv /\ [Next]_vars => AcceptInv'
<1> SUFFICES ASSUME Basics, AcceptInv, [Next]_vars PROVE PendingAccepted'
  BY TaskAcceptedNext, FramesAcceptedNext DEF AcceptInv
<1> SUFFICES ASSUME ~profile.roaming, NEW i \in Pending', i \notin Pending PROVE i \in AcceptedItems
  BY AcceptedGrow, ProfileStays DEF AcceptInv, PendingAccepted
<1>1. PICK t \in Task : /\ (UpdateQueueItem(t) /\ task[t].copy.pending) \/ AckPutItem(t)
                        /\ task[t].item = i
  BY QueueSteps
<1> QED
  BY <1>1 DEF AcceptInv, TaskAccepted, Known, UpdateQueueItem, AckPutItem

LEMMA AcceptInit == Init => AcceptInv
  BY Kinds DEF Init, AcceptInv, TaskAccepted, FramesAccepted, PendingAccepted, Pending, Queued,
     NoFrame, Known

(* A pending item was in a frame that a gateway accepted: neither a        *)
(* rejected nor a lost downlink makes an item pending.                     *)
THEOREM PendingItemsWereAccepted == Spec => []PendingWasAccepted
<1>1. Basics /\ AcceptInv => PendingWasAccepted
  BY Kinds DEF AcceptInv, PendingAccepted, AcceptedItems, PendingWasAccepted, Pending, Queued
<1> QED
  BY <1>1, BasicsInit, BasicsNext, AcceptInit, AcceptNext, PTL DEF Spec

-----------------------------------------------------------------------------
(* Flows that do not overlap: one task at a time, and the item a flow puts *)
(* into a frame did not become pending since it was read.                  *)
OneAtATime == Serial => \A t, u \in Task : Busy(t) /\ Busy(u) => t = u
PutWaiting == Serial => \A t \in Task : pc[t] = "putItem" => task[t].item \notin Pending
OneFlow == OneAtATime /\ PutWaiting

(* At most one task starts, and it starts when it may.                     *)
LEMMA TaskSteps ==
  ASSUME Basics, [Next]_vars
  PROVE  \/ UNCHANGED pc
         \/ \E t \in Task : /\ \A u \in Task \ {t} : pc'[u] = pc[u]
                            /\ pc[t] = "idle" => IsFree(t)
<1> USE DEF Basics
<1> DEFINE Goal(t) == /\ \A u \in Task \ {t} : pc'[u] = pc[u]
                      /\ pc[t] = "idle" => IsFree(t)
<1>1. ASSUME NEW t \in Task, NEW must \in BOOLEAN, Uplink(t, must) PROVE UNCHANGED pc \/ Goal(t)
  BY <1>1, UplinkEffect DEF MayStart, Step, Others
<1>2. ASSUME NEW t \in Task, SelectDevice(t) PROVE Goal(t)
  BY <1>2, SelectEffect DEF MayStart, Step, Others
<1>3. ASSUME NEW t \in Task, NEW k \in FrameId, TxAck(t, k) PROVE UNCHANGED pc \/ Goal(t)
  BY <1>3, TxAckEffect DEF Step, Others
<1>4. ASSUME NEW t \in Task, ServerStep(t) \/ Abort(t) PROVE Goal(t)
  <2>1. pc[t] # "idle"
    BY <1>4 DEF ServerStep, UpdateDevice, GetPending, DeleteAcked, LoadDevice, GetNext, Discard,
       UpdateQueueItem, SendFrame, XmitDataAns, AckGetDevice, AckGetItem, AckPutItem,
       AckSaveSession, Abort, Busy
  <2>2. \A u \in Task \ {t} : pc'[u] = pc[u]
    <3>1. CASE UpdateDevice(t) \/ GetPending(t) \/ DeleteAcked(t) \/ LoadDevice(t) \/ GetNext(t)
      BY <3>1, UpdateEffect, PendingEffect, DeleteAckedEffect, LoadEffect, NextEffect
         DEF Step, Ended, Others
    <3>2. CASE Discard(t) \/ UpdateQueueItem(t) \/ SendFrame(t) \/ XmitDataAns(t)
      BY <3>2, DiscardEffect, PutEffect, SendEffect, XmitEffect DEF Step, Ended, Others
    <3>3. CASE AckGetDevice(t) \/ AckGetItem(t) \/ AckPutItem(t) \/ AckSaveSession(t)
      BY <3>3, AckDeviceEffect, AckItemEffect, AckRowEffect, AckSaveEffect DEF Step, Ended, Others
    <3>4. CASE Abort(t)
      BY <3>4, Goes DEF Abort, Ended, Others
    <3> QED
      BY <1>4, <3>1, <3>2, <3>3, <3>4 DEF ServerStep
  <2> QED
    BY <2>1, <2>2
<1>5. CASE Next
  BY <1>1, <1>2, <1>3, <1>4, <1>5
     DEF Next, Enqueue, Flush, TimeoutPasses, LockEnds, FrameExpires, MessageLost,
         GatewayRejects, GatewayAccepts, AckLost
<1> QED
  BY <1>5 DEF vars

(* A task waits to put its item back until it does so; only GetNext gets   *)
(* it there.                                                               *)
LEMMA PutSteps ==
  ASSUME Basics, [Next]_vars, NEW u \in Task, pc'[u] = "putItem", ~GetNext(u)
  PROVE  pc[u] = "putItem" /\ task'[u] = task[u]
<1> USE DEF Basics, Step, Ended, Others
<1> DEFINE Goal == pc[u] = "putItem" /\ task'[u] = task[u]
<1>1. ASSUME NEW t \in Task, NEW must \in BOOLEAN, Uplink(t, must) PROVE Goal
  BY <1>1, UplinkEffect
<1>2. ASSUME NEW t \in Task, SelectDevice(t) PROVE Goal
  BY <1>2, SelectEffect
<1>3. ASSUME NEW t \in Task, NEW k \in FrameId, TxAck(t, k) PROVE Goal
  BY <1>3, TxAckEffect
<1>4. ASSUME NEW t \in Task, ServerStep(t) \/ Abort(t) PROVE Goal
  <2>1. CASE UpdateDevice(t) \/ GetPending(t) \/ DeleteAcked(t) \/ LoadDevice(t)
    BY <2>1, UpdateEffect, PendingEffect, DeleteAckedEffect, LoadEffect
  <2>2. CASE Discard(t) \/ UpdateQueueItem(t) \/ SendFrame(t) \/ XmitDataAns(t)
    BY <2>2, DiscardEffect, PutEffect, SendEffect, XmitEffect
  <2>3. CASE AckGetDevice(t) \/ AckGetItem(t) \/ AckPutItem(t) \/ AckSaveSession(t)
    BY <2>3, AckDeviceEffect, AckItemEffect, AckRowEffect, AckSaveEffect
  <2>4. CASE Abort(t)
    BY <2>4, Goes DEF Abort
  <2>5. CASE GetNext(t)
    BY <2>5, NextEffect
  <2> QED
    BY <1>4, <2>1, <2>2, <2>3, <2>4, <2>5 DEF ServerStep
<1>5. CASE Next
  BY <1>1, <1>2, <1>3, <1>4, <1>5
     DEF Next, Enqueue, Flush, TimeoutPasses, LockEnds, FrameExpires, MessageLost,
         GatewayRejects, GatewayAccepts, AckLost
<1> QED
  BY <1>5 DEF vars

LEMMA OneFlowNext == Basics /\ AcceptInv /\ OneFlow /\ [Next]_vars => OneFlow'
<1> SUFFICES ASSUME Basics, AcceptInv, OneFlow, [Next]_vars, Serial, UNCHANGED profile
             PROVE  /\ (\A t, u \in Task : Busy(t) /\ Busy(u) => t = u)'
                    /\ (\A t \in Task : pc[t] = "putItem" => task[t].item \notin Pending)'
  BY ProfileStays DEF OneFlow, OneAtATime, PutWaiting, Serial
<1>1. (\A t, u \in Task : Busy(t) /\ Busy(u) => t = u)'
  BY TaskSteps DEF OneFlow, OneAtATime, IsFree, Busy
<1>2. ASSUME NEW t \in Task, pc'[t] = "putItem" PROVE task'[t].item \notin Pending'
  <2>1. CASE GetNext(t)
    BY <1>2, <2>1, NextEffect DEF Basics, Step, Ended, Queued, Pending
  <2>2. CASE ~GetNext(t)
    <3>1. pc[t] = "putItem" /\ task'[t].item = task[t].item
      BY <1>2, <2>2, PutSteps
    <3>2. task[t].item \notin Pending
      BY <3>1 DEF OneFlow, PutWaiting
    <3>3. ASSUME task[t].item \in Pending' PROVE FALSE
      <4>1. PICK u \in Task : (UpdateQueueItem(u) /\ task[u].copy.pending) \/ AckPutItem(u)
        BY <3>1, <3>2, <3>3, QueueSteps
      <4>2. u = t
        BY <3>1, <4>1 DEF OneFlow, OneAtATime, Busy, UpdateQueueItem, AckPutItem
      <4> QED
        BY <3>1, <4>1, <4>2 DEF AcceptInv, TaskAccepted, AckPutItem
    <3> QED
      BY <3>1, <3>3
  <2> QED
    BY <2>1, <2>2
<1> QED
  BY <1>1, <1>2

-----------------------------------------------------------------------------
(* The life of an item, case by case.                                      *)
LifeFacts == \A i \in Item :
  /\ ~Serial \/ i > enqueued => Life[i] = "new"
  /\ Serial /\ ~(i > enqueued) /\ i \in Pending => Life[i] = "pending"
  /\ Serial /\ ~(i > enqueued) /\ i \in Queued \ Pending => Life[i] = "waiting"
  /\ Serial /\ ~(i > enqueued) /\ i \notin Queued => Life[i] = "gone"

LEMMA LifeIs == LifeFacts
  BY DEF LifeFacts, Life, Pending

LEMMA LifeIsNext == LifeFacts'
  BY LifeIs, PTL

(* How a step of the queue shows in the life of its items.                 *)
LEMMA HeadLife ==
  ASSUME Basics, Serial
  PROVE  /\ \A i \in Item : Abstract!Alive(i) <=> i \in Queued
         /\ \A i \in Queued \cap Passed : Abstract!Head(i)
<1>1. \A j \in Item : Abstract!Alive(j) <=> j \in Queued
  <2>1. Queued \subseteq 1 .. enqueued /\ enqueued \in Nat
    BY DEF Basics, ItemsPassed, TypeOK
  <2> QED
    BY <2>1, LifeIs DEF LifeFacts, Item, Abstract!Alive
<1> QED
  BY <1>1 DEF Abstract!Head, Passed, Queued

LEMMA LifeSame ==
  ASSUME UNCHANGED <<profile, enqueued, Queued, Pending>>
  PROVE  UNCHANGED Life
<1>1. UNCHANGED Serial
  BY DEF Serial
<1>2. \A i \in Item : Life'[i] = Life[i]
  BY <1>1, LifeIs, LifeIsNext DEF LifeFacts, Pending, Item
<1> QED
  BY <1>2 DEF Life

LEMMA LifeRemove ==
  ASSUME Basics, Serial, NEW i \in Queued \cap Passed, Queued' = Queued \ {i}, Pending' = Pending \ {i},
         UNCHANGED <<profile, enqueued>>
  PROVE  Abstract!Remove(i)
<1>1. i \in Item /\ ~(i > enqueued) /\ Serial'
  BY DEF Basics, TypeOK, Queued, Passed, Serial
<1>2. Life'[i] = "gone"
  BY <1>1, LifeIsNext DEF LifeFacts
<1>3. \A j \in Item \ {i} : Life'[j] = Life[j]
  BY <1>1, LifeIs, LifeIsNext DEF LifeFacts, Item
<1>4. Life' = [Life EXCEPT ![i] = "gone"]
  BY <1>1, <1>2, <1>3 DEF Life
<1> QED
  BY <1>4, HeadLife DEF Abstract!Remove

LEMMA LifeHold ==
  ASSUME Basics, Serial, NEW i \in Queued \cap Passed, Queued' = Queued, Pending' = Pending \cup {i},
         UNCHANGED <<profile, enqueued>>
  PROVE  UNCHANGED Life \/ Abstract!Hold(i)
<1>1. i \in Item /\ ~(i > enqueued) /\ Serial'
  BY DEF Basics, TypeOK, Queued, Passed, Serial
<1>2. Life'[i] = "pending"
  BY <1>1, LifeIsNext DEF LifeFacts
<1>3. \A j \in Item \ {i} : Life'[j] = Life[j]
  BY <1>1, LifeIs, LifeIsNext DEF LifeFacts, Item
<1>4. Life' = [Life EXCEPT ![i] = "pending"]
  BY <1>1, <1>2, <1>3 DEF Life
<1>5. CASE i \in Pending
  <2>1. Pending' = Pending
    BY <1>5
  <2> QED
    BY <2>1, LifeSame
<1>6. CASE i \notin Pending
  BY <1>1, <1>4, <1>6, HeadLife, LifeIs DEF LifeFacts, Abstract!Hold
<1> QED
  BY <1>5, <1>6

LEMMA LifeEnqueue ==
  ASSUME Basics, Serial, NEW c \in FCnt \cup {-1}, Enqueue(c)
  PROVE  Abstract!Enqueue(enqueued + 1)
<1> DEFINE i == enqueued + 1
<1>1. i \in Item /\ enqueued' = i /\ enqueued \in Nat /\ Serial' /\ Queued' = Queued \cup {i}
      /\ Pending' = Pending \ {i} /\ i \notin Queued
  BY EnqueueEffect DEF Basics, TypeOK, Serial, ItemsPassed
<1>2. Life'[i] = "waiting" /\ Life[i] = "new"
  BY <1>1, LifeIs, LifeIsNext DEF LifeFacts
<1>3. \A j \in Item \ {i} : Life'[j] = Life[j]
  BY <1>1, LifeIs, LifeIsNext DEF LifeFacts, Item
<1>4. Life' = [Life EXCEPT ![i] = "waiting"]
  BY <1>1, <1>2, <1>3 DEF Life
<1>5. \A j \in Item : j < i => Life[j] # "new"
  BY <1>1, LifeIs DEF LifeFacts, Item
<1> QED
  BY <1>2, <1>4, <1>5 DEF Abstract!Enqueue

LEMMA LifeFlush ==
  ASSUME Basics, Serial, NEW is \in SUBSET Item, Flush(is)
  PROVE  Abstract!Flush({"waiting"}) \/ Abstract!Flush({"waiting", "pending"})
<1>1. /\ enqueued' = enqueued /\ enqueued \in Nat /\ Serial' /\ Queued' = Queued \ is
      /\ Pending' = Pending \ is /\ Queued \subseteq 1 .. enqueued
  BY FlushEffect DEF Basics, TypeOK, Serial, ItemsPassed
<1>2. \A j \in Item : Life'[j] = IF j \in is THEN "gone" ELSE Life[j]
  BY <1>1, LifeIs, LifeIsNext, FlushEffect DEF LifeFacts, Item, Basics
<1>3. CASE is = Queued
  <2>1. \A j \in Item : j \in is <=> Life[j] \in {"waiting", "pending"}
    BY <1>1, <1>3, LifeIs DEF LifeFacts, Item
  <2> QED
    BY <1>2, <2>1 DEF Abstract!Flush, Life
<1>4. CASE is = Queued \ Pending
  <2>1. \A j \in Item : j \in is <=> Life[j] \in {"waiting"}
    BY <1>1, <1>4, LifeIs DEF LifeFacts, Item
  <2> QED
    BY <1>2, <2>1 DEF Abstract!Flush, Life
<1> QED
  BY <1>3, <1>4 DEF Flush, Pending

LEMMA LifeStep ==
  Basics /\ AcceptInv /\ OneFlow /\ [Next]_vars => [Abstract!Next]_Life
<1> SUFFICES ASSUME Basics, AcceptInv, OneFlow, [Next]_vars PROVE [Abstract!Next]_Life
  OBVIOUS
<1>0. UNCHANGED profile /\ \A t \in Task : task[t].item \in Passed \cup {None}
  BY ProfileStays DEF Basics, ItemsPassed
<1>1. CASE ~Serial
  <2>1. \A i \in Item : Life'[i] = Life[i]
    BY <1>0, <1>1, LifeIs, LifeIsNext DEF LifeFacts, Serial
  <2> QED
    BY <2>1 DEF Life
<1>2. CASE Serial
  <2>1. ASSUME NEW c \in FCnt \cup {-1}, Enqueue(c) PROVE Abstract!Next
    BY <1>2, <2>1, LifeEnqueue, EnqueueEffect DEF Abstract!Next, Basics
  <2>2. ASSUME NEW is \in SUBSET Item, Flush(is) PROVE Abstract!Next
    BY <1>2, <2>2, LifeFlush DEF Abstract!Next
  <2>3. ASSUME UNCHANGED <<enqueued, Queued, Pending>> PROVE UNCHANGED Life
    BY <1>0, <2>3, LifeSame
  <2>4. ASSUME NEW t \in Task, task[t].item \in Queued, Deletes(task[t].item), UNCHANGED enqueued
        PROVE  Abstract!Next
    <3>1. task[t].item \in Queued \cap Passed
      BY <1>0, <2>4, Kinds DEF Queued
    <3>2. Abstract!Remove(task[t].item)
      BY <1>0, <1>2, <2>4, <3>1, LifeRemove DEF Deletes
    <3> QED
      BY <3>1, <3>2 DEF Abstract!Next, Queued
  <2>5. ASSUME UNCHANGED <<queue, enqueued>> PROVE UNCHANGED Life
    BY <2>3, <2>5 DEF Queued, Pending
  <2>6. ASSUME NEW t \in Task, DeleteAcked(t) PROVE [Abstract!Next]_Life
    BY <2>4, <2>5, <2>6, DeleteAckedEffect DEF Basics
  <2>7. ASSUME NEW t \in Task, Discard(t) PROVE [Abstract!Next]_Life
    BY <2>4, <2>5, <2>7, DiscardEffect DEF Basics
  <2>8. ASSUME NEW t \in Task, UpdateQueueItem(t) PROVE UNCHANGED Life
    <3>1. ~task[t].copy.pending /\ task[t].item \notin Pending
      BY <1>2, <2>8 DEF AcceptInv, TaskAccepted, OneFlow, PutWaiting, UpdateQueueItem
    <3>2. /\ UNCHANGED enqueued
          /\ \/ UNCHANGED queue
             \/ Queued' = Queued /\ Pending' = Pending \ {task[t].item}
      BY <2>8, <3>1, PutEffect DEF Basics
    <3> QED
      BY <2>3, <2>5, <3>1, <3>2
  <2>9. ASSUME NEW t \in Task, AckPutItem(t) PROVE [Abstract!Next]_Life
    <3>1. CASE /\ task[t].item \in Queued /\ Queued' = Queued /\ UNCHANGED enqueued
               /\ Pending' = Pending \cup {task[t].item}
      <4>1. task[t].item \in Queued \cap Passed
        BY <1>0, <3>1, Kinds DEF Queued
      <4> QED
        BY <1>0, <1>2, <3>1, <4>1, LifeHold DEF Abstract!Next, Queued
    <3> QED
      BY <2>4, <2>5, <2>9, <3>1, AckRowEffect DEF Basics
  <2>10. ASSUME NEW i \in Item, TimeoutPasses(i) PROVE UNCHANGED Life
    BY <2>3, <2>10, TimeoutEffect DEF Basics
  <2>11. CASE Next
    BY <2>1, <2>2, <2>5, <2>6, <2>7, <2>8, <2>9, <2>10, <2>11
       DEF Next, ServerStep, LockEnds, FrameExpires, MessageLost, GatewayRejects, GatewayAccepts,
           AckLost, Uplink, SelectDevice, TxAck, UpdateDevice, GetPending, LoadDevice, GetNext,
           SendFrame, XmitDataAns, AckGetDevice, AckGetItem, AckSaveSession, Abort
  <2> QED
    BY <2>5, <2>11 DEF vars
<1> QED
  BY <1>1, <1>2

LEMMA OneFlowInit == Init => OneFlow
  BY DEF Init, OneFlow, OneAtATime, PutWaiting, Busy

(* While flows do not overlap, the queue with its tasks, gateways, retries *)
(* and failures is the first-in first-out queue of DownlinkQueue.          *)
THEOREM ImplementsDownlinkQueue == Spec => RefinesDownlinkQueue
<1>1. Init => Abstract!Init
  <2> SUFFICES ASSUME Init PROVE Life = [i \in Item |-> "new"]
    BY DEF Abstract!Init
  <2>1. \A i \in Item : Life[i] = "new"
    BY LifeIs DEF LifeFacts, Init, Item
  <2> QED
    BY <2>1 DEF Life
<1> QED
  BY <1>1, BasicsInit, BasicsNext, AcceptInit, AcceptNext, OneFlowInit, OneFlowNext, LifeStep, PTL
     DEF Spec, RefinesDownlinkQueue, Abstract!Spec

-----------------------------------------------------------------------------
(* The frame-counters, while flows do not overlap.  Only the latest frame  *)
(* is on its way; a flow sees the counters of the session as they are; the *)
(* counter of a frame that is not counted yet fits the session, and the    *)
(* counters of counted frames are below those of the session.              *)
FlowSteps == {"update", "pending?", "acked", "load", "next", "discard", "putItem", "send"}
AckSteps == {"xmitAns"} \cup Known
SnapSteps == (FlowSteps \ {"load"}) \cup (Known \ {"ackData"})

Ctr(p) == IF profile.v11 /\ p # None THEN session.a ELSE session.n
Fits(p, c) == IF p = None THEN c = session.n ELSE c >= Ctr(p)

FrameFCnt == \A k \in FrameId : frame[k].payload # None => frame[k].fCnt = frame[k].aFCnt
Latest ==
  /\ InFlight \subseteq {sent}
  /\ ~profile.roaming => InFlight \cap counted = {}
  /\ \A k \in FrameId : frame[k].stage \in {"ok", "error"} => ~profile.roaming
  /\ \A f \in accepted : f.id <= sent
  /\ counted \subseteq 1 .. sent
Recorded == \A f \in accepted :
  profile.roaming \/ frame[f.id].stage \in {"sent", "ok"} =>
    f.payload = frame[f.id].payload /\ f.fCnt = frame[f.id].fCnt
FramesFit == \A k \in FrameId :
  frame[k].stage \in {"sent", "ok"} /\ k \notin counted => Fits(frame[k].payload, frame[k].fCnt)
CountedBelow ==
  /\ \A f \in accepted : f.id \in counted => f.fCnt < Ctr(f.payload)
  /\ \A k \in counted : frame[k].stage = "sent" => frame[k].fCnt < Ctr(frame[k].payload)
  /\ \A k \in FrameId, f \in accepted :
       /\ frame[k].stage = "sent" /\ f.id \in counted /\ f.id < k
       /\ SameCounter(f.payload, frame[k].payload)
       => f.fCnt < frame[k].fCnt
  /\ \A f, g \in accepted :
       f.id \in counted /\ f.id < g.id /\ SameCounter(f.payload, g.payload) => f.fCnt < g.fCnt
TaskFits(t) ==
  /\ pc[t] \in FlowSteps => InFlight = {}
  /\ pc[t] \in AckSteps => /\ task[t].id = sent /\ sent \notin counted
                           /\ ~profile.roaming => InFlight = {}
  /\ pc[t] \in SnapSteps => task[t].snap = session
  /\ pc[t] = "xmitAns" => Fits(frame[sent].payload, frame[sent].fCnt)
  /\ pc[t] \in Known =>
       /\ task[t].item # None => task[t].aFCnt >= Ctr(task[t].item)
       /\ \A f \in accepted : f.id = sent =>
            /\ Fits(f.payload, f.fCnt) /\ f.payload = task[t].item
            /\ f.payload # None => f.fCnt = task[t].aFCnt
       /\ profile.roaming => /\ frame[sent].payload = task[t].item
                             /\ frame[sent].aFCnt = task[t].aFCnt
  /\ pc[t] \in {"putItem", "send"} /\ task[t].item \in Encrypted
       => task[t].copy.fCnt >= AFCntDown(session)

Counters == Latest /\ Recorded /\ FramesFit /\ CountedBelow /\ \A t \in Task : TaskFits(t)
CountersInv == FrameFCnt /\ (Serial => Counters)

LEMMA CountersSafe == Basics /\ CountersInv => NoCounterReuse
<1> SUFFICES ASSUME Basics, CountersInv, Serial, NEW f \in accepted, NEW g \in accepted,
                    Reuses(g, f), f.id \in counted
             PROVE  FALSE
  BY DEF NoCounterReuse
<1>1. f.fCnt < g.fCnt
  BY DEF CountersInv, Counters, CountedBelow, Reuses
<1>2. f.fCnt \in Nat
  BY DEF Basics, TypeOK
<1> QED
  BY <1>1, <1>2 DEF Reuses

(* What the proofs below use of the types.                                 *)
LEMMA CounterTypes ==
  Basics => /\ session.n \in Nat /\ session.a \in Nat /\ sent \in Nat
            /\ \A k \in FrameId : frame[k].fCnt \in Nat /\ frame[k].aFCnt \in Nat /\ k \in Nat
            /\ \A f \in accepted : f.fCnt \in Nat /\ f.id \in FrameId
            /\ \A t \in Task : /\ task[t].aFCnt \in Nat /\ task[t].snap \in Session
                               /\ task[t].item \in Item \cup {None}
            /\ \A p : Ctr(p) \in Nat
            /\ \A k \in InFlight : k \in FrameId /\ frame[k].stage \in {"sent", "ok", "error"}
            /\ \A k \in FrameId : frame[k].stage \in {"sent", "ok", "error"} => k \in InFlight
<1> SUFFICES ASSUME Basics
             PROVE  /\ session.n \in Nat /\ session.a \in Nat /\ sent \in Nat
                    /\ \A k \in FrameId : frame[k].fCnt \in Nat /\ frame[k].aFCnt \in Nat /\ k \in Nat
                    /\ \A f \in accepted : f.fCnt \in Nat /\ f.id \in FrameId
                    /\ \A t \in Task : /\ task[t].aFCnt \in Nat /\ task[t].snap \in Session
                                       /\ task[t].item \in Item \cup {None}
  BY DEF Ctr, InFlight
<1>1. session.n \in Nat /\ session.a \in Nat /\ sent \in Nat
  BY DEF Basics, TypeOK, Session
<1>2. \A k \in FrameId : frame[k].fCnt \in Nat /\ frame[k].aFCnt \in Nat /\ k \in Nat
  BY Records, Kinds DEF Basics, TypeOK
<1>3. \A f \in accepted : f.fCnt \in Nat /\ f.id \in FrameId
  BY DEF Basics, TypeOK
<1>4. \A t \in Task : /\ task[t].aFCnt \in Nat /\ task[t].snap \in Session
                      /\ task[t].item \in Item \cup {None}
  BY Records DEF Basics, TypeOK
<1> QED
  BY <1>1, <1>2, <1>3, <1>4

(* The counters of a frame with an item are one and the same.              *)
LEMMA FrameFCntNext == Basics /\ FrameFCnt /\ [Next]_vars => FrameFCnt'
<1> SUFFICES ASSUME Basics, FrameFCnt, [Next]_vars, NEW k \in FrameId, frame'[k].payload # None
             PROVE  frame'[k].fCnt = frame'[k].aFCnt
  BY DEF FrameFCnt
<1> USE DEF Basics, OtherFrames, FrameFCnt
<1>1. ASSUME frame'[k].payload = frame[k].payload, frame'[k].fCnt = frame[k].fCnt,
             frame'[k].aFCnt = frame[k].aFCnt
      PROVE  frame'[k].fCnt = frame'[k].aFCnt
  BY <1>1
<1>2. frame'[k] # Handled
  BY Kinds
<1>3. ASSUME NEW j \in FrameId, FrameExpires(j) PROVE frame'[k].fCnt = frame'[k].aFCnt
  BY <1>1, <1>3, ExpireEffect
<1>4. ASSUME NEW j \in FrameId, MessageLost(j) \/ GatewayRejects(j)
      PROVE  frame'[k].fCnt = frame'[k].aFCnt
  BY <1>1, <1>2, <1>4, LostEffect
<1>5. ASSUME NEW j \in FrameId, NEW received \in BOOLEAN, GatewayAccepts(j, received)
      PROVE  frame'[k].fCnt = frame'[k].aFCnt
  BY <1>1, <1>5, AcceptEffect
<1>6. ASSUME NEW t \in Task, NEW j \in FrameId, TxAck(t, j) PROVE frame'[k].fCnt = frame'[k].aFCnt
  BY <1>1, <1>2, <1>6, TxAckEffect
<1>7. ASSUME NEW t \in Task, SendFrame(t) PROVE frame'[k].fCnt = frame'[k].aFCnt
  BY <1>1, <1>7, SendEffect
<1>8. ASSUME NEW t \in Task, XmitDataAns(t) PROVE frame'[k].fCnt = frame'[k].aFCnt
  BY <1>1, <1>8, XmitEffect
<1>9. CASE UNCHANGED frame
  BY <1>1, <1>9
<1> QED
  BY <1>3, <1>4, <1>5, <1>6, <1>7, <1>8, <1>9
     DEF Next, vars, Enqueue, Flush, TimeoutPasses, LockEnds, AckLost, Uplink, SelectDevice,
         ServerStep, UpdateDevice, GetPending, DeleteAcked, LoadDevice, GetNext, Discard,
         UpdateQueueItem, AckGetDevice, AckGetItem, AckPutItem, AckSaveSession, Abort

(* Only one task is active, and the others have nothing to keep.           *)
Alone(t) == \A u \in Task \ {t} : pc[u] = "idle"

LEMMA ActsAlone ==
  ASSUME Basics, Serial, OneFlow, NEW t \in Task, Busy(t) \/ IsFree(t)
  PROVE  Alone(t)
  BY DEF OneFlow, OneAtATime, Busy, IsFree, Alone

LEMMA OthersFit ==
  ASSUME NEW t \in Task, Alone(t), Others(t), TaskFits(t)'
  PROVE  \A u \in Task : TaskFits(u)'
<1> SUFFICES ASSUME NEW u \in Task \ {t} PROVE TaskFits(u)'
  OBVIOUS
<1>1. pc'[u] = "idle"
  BY DEF Alone, Others
<1> QED
  BY <1>1 DEF TaskFits, FlowSteps, AckSteps, SnapSteps, Known

LEMMA EndedFits ==
  ASSUME NEW t \in Task, Ended(t)
  PROVE  TaskFits(t)'
  BY DEF Ended, TaskFits, FlowSteps, AckSteps, SnapSteps, Known

(* A step of a task that leaves the session and the frames as they are.    *)
Shared == <<profile, session, frame, sent, accepted, counted>>

LEMMA TaskStepFits ==
  ASSUME Counters, UNCHANGED Shared, NEW t \in Task, Alone(t), Others(t), TaskFits(t)'
  PROVE  Counters'
<1>1. \A u \in Task : TaskFits(u)'
  BY OthersFit
<1>2. (Latest /\ Recorded /\ FramesFit /\ CountedBelow)'
  BY DEF Shared, Counters, Latest, Recorded, FramesFit, CountedBelow, InFlight, Fits, Ctr, SameCounter
<1> QED
  BY <1>1, <1>2 DEF Counters

LEMMA QuietFits ==
  ASSUME Counters, UNCHANGED Shared, UNCHANGED <<pc, task>>
  PROVE  Counters'
<1>1. \A u \in Task : TaskFits(u)'
  BY DEF Shared, Counters, TaskFits, InFlight, Fits, Ctr, AFCntDown, Encrypted
<1>2. (Latest /\ Recorded /\ FramesFit /\ CountedBelow)'
  BY DEF Shared, Counters, Latest, Recorded, FramesFit, CountedBelow, InFlight, Fits, Ctr, SameCounter
<1> QED
  BY <1>1, <1>2 DEF Counters

(* The steps of a flow up to the frame.                                    *)
LEMMA FlowFits ==
  ASSUME UNCHANGED Shared, InFlight = {}, NEW t \in Task, pc'[t] \in FlowSteps,
         pc'[t] # "load" => task'[t].snap = session,
         pc'[t] \in {"putItem", "send"} /\ task'[t].item \in Encrypted
           => task'[t].copy.fCnt >= AFCntDown(session)
  PROVE  TaskFits(t)'
  BY DEF Shared, TaskFits, FlowSteps, AckSteps, SnapSteps, Known, InFlight, AFCntDown, Encrypted

LEMMA FlowCounters ==
  ASSUME Basics, Serial, OneFlow, Counters, NEW t \in Task,
         \/ \E must \in BOOLEAN : Uplink(t, must)
         \/ SelectDevice(t) \/ UpdateDevice(t) \/ GetPending(t) \/ DeleteAcked(t)
         \/ LoadDevice(t) \/ GetNext(t) \/ Discard(t) \/ UpdateQueueItem(t)
  PROVE  Counters'
<1> USE DEF Basics, Shared, Step
<1>0. /\ Busy(t) \/ IsFree(t) => Alone(t)
      /\ pc[t] \in FlowSteps => InFlight = {}
      /\ pc[t] \in FlowSteps /\ pc[t] # "load" => task[t].snap = session
      /\ MayStart(t) => IsFree(t) /\ InFlight = {}
  BY ActsAlone DEF Counters, TaskFits, MayStart, SnapSteps
<1>1. ASSUME NEW from \in FlowSteps \cup {"idle"}, NEW to \in FlowSteps, Step(t, from, to),
             InFlight = {}, UNCHANGED Shared, Alone(t),
             to # "load" => task'[t].snap = session,
             to \in {"putItem", "send"} /\ task'[t].item \in Encrypted
               => task'[t].copy.fCnt >= AFCntDown(session)
      PROVE  Counters'
  <2>1. TaskFits(t)'
    BY <1>1, FlowFits
  <2> QED
    BY <1>1, <2>1, TaskStepFits
<1>2. ASSUME Ended(t), UNCHANGED Shared, Alone(t) PROVE Counters'
  BY <1>2, EndedFits, TaskStepFits DEF Ended
<1>3. ASSUME NEW must \in BOOLEAN, Uplink(t, must) PROVE Counters'
  <2>1. CASE UNCHANGED <<pc, task>>
    BY <1>3, <2>1, UplinkEffect, QuietFits
  <2>2. CASE Step(t, "idle", "update") /\ task'[t].snap = session
    BY <1>0, <1>1, <1>3, <2>2, UplinkEffect DEF FlowSteps
  <2> QED
    BY <1>3, <2>1, <2>2, UplinkEffect
<1>4. CASE SelectDevice(t)
  BY <1>0, <1>1, <1>4, SelectEffect DEF FlowSteps
<1>5. CASE UpdateDevice(t)
  <2>1. /\ Step(t, "update", "next") \/ Step(t, "update", "pending?")
        /\ task'[t].snap = session /\ UNCHANGED Shared
    BY <1>0, <1>5, UpdateEffect DEF FlowSteps
  <2> QED
    BY <1>0, <1>1, <2>1 DEF FlowSteps, Busy
<1>6. CASE GetPending(t)
  <2>1. /\ Step(t, "pending?", "next") \/ Step(t, "pending?", "acked")
        /\ task'[t].snap = session /\ UNCHANGED Shared
    BY <1>0, <1>6, PendingEffect DEF FlowSteps
  <2> QED
    BY <1>0, <1>1, <2>1 DEF FlowSteps, Busy
<1>7. CASE DeleteAcked(t)
  BY <1>0, <1>1, <1>2, <1>7, DeleteAckedEffect DEF FlowSteps, Busy
<1>8. CASE LoadDevice(t)
  BY <1>0, <1>1, <1>2, <1>8, LoadEffect DEF FlowSteps, Busy
<1>9. CASE GetNext(t)
  <2>0. task[t].snap = session /\ InFlight = {} /\ Alone(t) /\ UNCHANGED Shared
    BY <1>0, <1>9, NextEffect DEF FlowSteps, Busy
  <2>1. CASE Step(t, "next", "send") /\ task'[t] = task[t]
    <3>1. task[t].item = None /\ None \notin Encrypted
      BY <2>1, Kinds DEF ItemFree, TypeOK, Profile, Encrypted
    <3> QED
      BY <1>1, <2>0, <2>1, <3>1 DEF FlowSteps
  <2>2. CASE Ended(t)
    BY <1>2, <2>0, <2>2
  <2>3. CASE /\ Step(t, "next", "putItem")
             /\ Oldest \in Encrypted => queue[Oldest].fCnt >= AFCntDown(task[t].snap)
             /\ task'[t].item = Oldest /\ task'[t].copy = queue[Oldest]
             /\ task'[t].snap = task[t].snap
    BY <1>1, <2>0, <2>3 DEF FlowSteps
  <2>4. CASE Step(t, "next", "discard") /\ task'[t].snap = task[t].snap
    BY <1>1, <2>0, <2>4 DEF FlowSteps
  <2> QED
    BY <1>9, <2>1, <2>2, <2>3, <2>4, NextEffect
<1>10. CASE Discard(t)
  BY <1>0, <1>1, <1>2, <1>10, DiscardEffect DEF FlowSteps, Busy
<1>11. CASE UpdateQueueItem(t)
  <2>0. /\ task[t].snap = session /\ InFlight = {} /\ Alone(t) /\ UNCHANGED Shared
        /\ task[t].item \in Encrypted => task[t].copy.fCnt >= AFCntDown(session)
    BY <1>0, <1>11, PutEffect DEF FlowSteps, Busy, Counters, TaskFits
  <2>1. CASE Step(t, "putItem", "send") /\ UNCHANGED task
    BY <1>1, <2>0, <2>1 DEF FlowSteps
  <2>2. CASE Ended(t)
    BY <1>2, <2>0, <2>2
  <2> QED
    BY <1>11, <2>1, <2>2, PutEffect
<1> QED
  BY <1>3, <1>4, <1>5, <1>6, <1>7, <1>8, <1>9, <1>10, <1>11

(* The gateways, and Redis.                                                *)
LEMMA GatewayCounters ==
  ASSUME Basics, Serial, FrameFCnt, Counters, NEW k \in FrameId,
         FrameExpires(k) \/ MessageLost(k) \/ GatewayRejects(k)
  PROVE  Counters'
<1> USE DEF Basics, OtherFrames
<1>0. UNCHANGED <<profile, session, sent, accepted, counted, pc, task>>
  BY ExpireEffect, LostEffect
<1>1. /\ InFlight' \subseteq InFlight
      /\ \A j \in InFlight' : /\ frame'[j].payload = frame[j].payload
                              /\ frame'[j].fCnt = frame[j].fCnt
      /\ \A j \in FrameId : \/ frame'[j].stage = frame[j].stage
                            \/ frame'[j].stage = "done" \/ (frame'[j].stage = "error" /\ ~profile.roaming)
      /\ profile.roaming \/ k \notin InFlight =>
           \A j \in FrameId : /\ frame'[j].payload = frame[j].payload
                              /\ frame'[j].fCnt = frame[j].fCnt /\ frame'[j].aFCnt = frame[j].aFCnt
  <2>1. CASE FrameExpires(k)
    BY <2>1, ExpireEffect DEF InFlight
  <2>2. CASE MessageLost(k) \/ GatewayRejects(k)
    <3>1. \A j \in FrameId : frame'[j].stage \in {"sent", "ok", "error"} => j \in InFlight
      BY <2>2, LostEffect DEF InFlight
    <3> QED
      BY <2>2, <3>1, LostEffect, Stages DEF InFlight
  <2> QED
    BY <2>1, <2>2
<1>2. Latest' /\ Recorded'
  <2>1. Latest'
    BY <1>0, <1>1 DEF Counters, Latest
  <2>2. Recorded'
    BY <1>0, <1>1, CounterTypes DEF Counters, Recorded, InFlight
  <2> QED
    BY <2>1, <2>2
<1>3. FramesFit' /\ CountedBelow'
  <2>1. ASSUME NEW j \in FrameId, frame'[j].stage \in {"sent", "ok"}
        PROVE  /\ frame'[j].stage = frame[j].stage /\ frame'[j].payload = frame[j].payload
               /\ frame'[j].fCnt = frame[j].fCnt
    BY <1>1, <2>1 DEF InFlight
  <2>2. FramesFit'
    BY <1>0, <2>1 DEF Counters, FramesFit, Fits, Ctr
  <2>3. \A f \in accepted' : f.id \in counted' => f.fCnt < Ctr(f.payload)'
    BY <1>0 DEF Counters, CountedBelow, Ctr
  <2>4. \A j \in counted : frame'[j].stage = "sent" => frame'[j].fCnt < Ctr(frame'[j].payload)
    BY <2>1 DEF Counters, CountedBelow, TypeOK
  <2>5. \A j \in FrameId, f \in accepted :
          /\ frame'[j].stage = "sent" /\ f.id \in counted /\ f.id < j
          /\ SameCounter(f.payload, frame'[j].payload)
          => f.fCnt < frame'[j].fCnt
    BY <2>1 DEF Counters, CountedBelow
  <2>6. \A f, g \in accepted :
          f.id \in counted /\ f.id < g.id /\ SameCounter(f.payload, g.payload) => f.fCnt < g.fCnt
    BY DEF Counters, CountedBelow
  <2>7. CountedBelow'
    BY <1>0, <2>3, <2>4, <2>5, <2>6 DEF CountedBelow, Ctr, SameCounter
  <2> QED
    BY <2>2, <2>7
<1>4. ASSUME NEW t \in Task PROVE TaskFits(t)'
  <2>1. TaskFits(t)
    BY DEF Counters
  <2>2. CASE pc[t] \in AckSteps /\ profile.roaming
    <3>1. /\ frame'[sent].payload = frame[sent].payload /\ frame'[sent].fCnt = frame[sent].fCnt
          /\ frame'[sent].aFCnt = frame[sent].aFCnt
      <4>1. sent \in FrameId
        BY <2>1, <2>2 DEF TaskFits, AnswersKnown, AckSteps, Known
      <4> QED
        BY <1>1, <2>2, <4>1
    <3> QED
      BY <1>0, <2>1, <2>2, <3>1 DEF TaskFits, AckSteps, FlowSteps, SnapSteps, Known, Fits, Ctr
  <2>3. CASE pc[t] \in FlowSteps
    BY <1>0, <1>1, <2>1, <2>3
       DEF TaskFits, AckSteps, FlowSteps, SnapSteps, Known, AFCntDown, Encrypted
  <2>4. CASE pc[t] \in AckSteps /\ ~profile.roaming
    <3>1. sent \in FrameId
      BY <2>1, <2>4 DEF TaskFits, AnswersKnown, AckSteps, Known
    <3>2. /\ frame'[sent].payload = frame[sent].payload /\ frame'[sent].fCnt = frame[sent].fCnt
          /\ InFlight' = {}
      BY <1>1, <2>1, <2>4, <3>1 DEF TaskFits
    <3> QED
      BY <1>0, <2>1, <2>4, <3>2 DEF TaskFits, AckSteps, FlowSteps, SnapSteps, Known, Fits, Ctr
  <2>5. CASE pc[t] \notin FlowSteps \cup AckSteps
    BY <1>0, <2>5 DEF TaskFits, AckSteps, FlowSteps, SnapSteps, Known
  <2> QED
    BY <2>2, <2>3, <2>4, <2>5
<1> QED
  BY <1>2, <1>3, <1>4 DEF Counters

LEMMA AcceptCounters ==
  ASSUME Basics, Serial, FrameFCnt, Counters, NEW k \in FrameId, NEW received \in BOOLEAN,
         GatewayAccepts(k, received)
  PROVE  Counters'
<1> USE DEF Basics, OtherFrames
<1>0. /\ UNCHANGED <<profile, session, sent, counted, pc, task>>
      /\ frame[k].stage = "sent" /\ k = sent
      /\ \A j \in FrameId : /\ frame'[j].payload = frame[j].payload
                            /\ frame'[j].fCnt = frame[j].fCnt /\ frame'[j].aFCnt = frame[j].aFCnt
      /\ \A j \in FrameId \ {k} : frame'[j].stage = frame[j].stage
      /\ frame'[k].stage = IF profile.roaming THEN "done" ELSE "ok"
  BY AcceptEffect DEF Counters, Latest
<1> DEFINE new == [payload |-> frame[k].payload, fCnt |-> frame[k].fCnt, id |-> k]
<1>1. /\ accepted' = accepted \cup {new} /\ new.payload = frame[k].payload
      /\ new.fCnt = frame[k].fCnt /\ new.id = k
  BY AcceptEffect
<1> HIDE DEF new
<1>2. Latest'
  <2>1. InFlight' \subseteq InFlight
    BY <1>0 DEF InFlight
  <2>2. \A f \in accepted' : f.id <= sent
    BY <1>0, <1>1, CounterTypes DEF Counters, Latest
  <2>3. \A j \in FrameId : frame'[j].stage \in {"ok", "error"} => ~profile.roaming
    BY <1>0 DEF Counters, Latest
  <2> QED
    BY <1>0, <2>1, <2>2, <2>3 DEF Counters, Latest
<1>3. Recorded'
  <2>1. ASSUME NEW f \in accepted, frame'[f.id].stage \in {"sent", "ok"} \/ profile.roaming
        PROVE  f.payload = frame[f.id].payload /\ f.fCnt = frame[f.id].fCnt
    BY <1>0, <2>1, CounterTypes DEF Counters, Recorded
  <2> QED
    BY <1>0, <1>1, <2>1, CounterTypes DEF Recorded
<1>4. FramesFit'
  BY <1>0 DEF Counters, FramesFit, Fits, Ctr
<1>5. CountedBelow'
  <2>1. ASSUME k \in counted PROVE new.fCnt < Ctr(new.payload)
    BY <1>0, <1>1, <2>1 DEF Counters, CountedBelow
  <2>2. ASSUME NEW f \in accepted, f.id \in counted, f.id < k,
               SameCounter(f.payload, new.payload)
        PROVE  f.fCnt < new.fCnt
    BY <1>0, <1>1, <2>2 DEF Counters, CountedBelow
  <2>3. \A f \in accepted' : f.id <= k /\ f.id \in Nat
    BY <1>0, <1>1, <1>2, CounterTypes DEF Latest
  <2>4. \A j \in FrameId : frame'[j].stage = "sent" => FALSE
    BY <1>0 DEF Counters, Latest, InFlight
  <2> QED
    BY <1>0, <1>1, <2>1, <2>2, <2>3, <2>4 DEF Counters, CountedBelow, Ctr, SameCounter, TypeOK
<1>6. ASSUME NEW t \in Task PROVE TaskFits(t)'
  <2>1. TaskFits(t) /\ sent \in InFlight
    BY <1>0 DEF Counters, InFlight
  <2>2. CASE pc[t] \in AckSteps /\ profile.roaming
    <3>1. /\ frame'[sent].payload = frame[sent].payload /\ frame'[sent].fCnt = frame[sent].fCnt
          /\ frame'[sent].aFCnt = frame[sent].aFCnt /\ InFlight # {}
      BY <1>0, <2>1
    <3>2. Fits(new.payload, new.fCnt)
      BY <1>0, <1>1, <2>1, <2>2 DEF TaskFits, Counters, FramesFit
    <3>3. pc[t] \in Known => /\ new.payload = task[t].item
                             /\ new.payload # None => new.fCnt = task[t].aFCnt
      BY <1>0, <1>1, <2>1, <2>2 DEF TaskFits, FrameFCnt
    <3> QED
      BY <1>0, <1>1, <2>1, <2>2, <3>1, <3>2, <3>3
         DEF TaskFits, AckSteps, FlowSteps, SnapSteps, Known, Fits, Ctr
  <2>3. CASE ~(pc[t] \in AckSteps /\ profile.roaming)
    <3>1. pc[t] \notin FlowSteps \cup AckSteps
      BY <2>1, <2>3 DEF TaskFits
    <3> QED
      BY <1>0, <3>1 DEF TaskFits, AckSteps, FlowSteps, SnapSteps, Known
  <2> QED
    BY <2>2, <2>3
<1> QED
  BY <1>2, <1>3, <1>4, <1>5, <1>6 DEF Counters

(* A new frame.                                                            *)
LEMMA SendCounters ==
  ASSUME Basics, Serial, OneFlow, Counters, NEW t \in Task, SendFrame(t)
  PROVE  Counters'
<1> USE DEF Basics, OtherFrames
<1>0. /\ Alone(t) /\ pc[t] = "send" /\ InFlight = {} /\ task[t].snap = session /\ session' = session
      /\ UNCHANGED <<profile, accepted, counted>>
      /\ task[t].item \in Encrypted => task[t].copy.fCnt >= AFCntDown(session)
  <2>1. pc[t] = "send" /\ UNCHANGED <<profile, accepted, counted>>
    BY SendEffect
  <2>2. /\ InFlight = {} /\ task[t].snap = session
        /\ task[t].item \in Encrypted => task[t].copy.fCnt >= AFCntDown(session)
    BY <2>1 DEF Counters, TaskFits, FlowSteps, SnapSteps
  <2>3. Alone(t)
    BY <2>1, ActsAlone DEF Busy
  <2> QED
    BY <2>1, <2>2, <2>3, SendEffect
<1>1. CASE sent' # sent
  <2> DEFINE k == sent + 1
             f == frame'[k]
  <2>1. /\ k \in FrameId /\ sent' = k /\ OtherFrames(k) /\ sent \in Nat /\ k > sent
        /\ f.stage = "sent"
        /\ f.payload \in {task[t].item, None}
        /\ f.aFCnt = IF task[t].item \in Encrypted THEN task[t].copy.fCnt ELSE AFCntDown(session)
        /\ f.fCnt = IF f.payload = None THEN session.n ELSE f.aFCnt
        /\ Others(t)
        /\ \/ Ended(t)
           \/ profile.roaming /\ pc'[t] = "xmitAns" /\ task'[t].id = k
    BY <1>0, <1>1, SendEffect, CounterTypes DEF Ended, Step
  <2>2. k \notin counted /\ (\A g \in accepted : g.id <= sent /\ g.id # k)
    BY <2>1, CounterTypes DEF Counters, Latest
  <2>3. \A j \in FrameId \ {k} : frame'[j] = frame[j] /\ frame'[j].stage \notin {"sent", "ok", "error"}
    BY <1>0, <2>1, CounterTypes
  <2>4. Fits(f.payload, f.fCnt) /\ f.fCnt >= Ctr(f.payload)
    <3>1. session.n \in Nat /\ session.a \in Nat /\ f.payload # None => f.payload = task[t].item
      BY <2>1, CounterTypes
    <3>2. CASE f.payload = None
      BY <2>1, <3>1, <3>2, CounterTypes DEF Fits, Ctr
    <3>3. CASE f.payload # None
      BY <1>0, <2>1, <3>1, <3>3, CounterTypes DEF Fits, Ctr, AFCntDown
    <3> QED
      BY <3>2, <3>3
  <2>5. Latest'
    <3>1. InFlight' \subseteq {k}
      BY <2>3 DEF InFlight
    <3>2. counted' \subseteq 1 .. sent'
      BY <1>0, <2>1 DEF Counters, Latest
    <3>3. \A g \in accepted' : g.id <= sent'
      BY <1>0, <2>1, <2>2, CounterTypes
    <3>4. \A j \in FrameId : frame'[j].stage \in {"ok", "error"} => ~profile.roaming
      BY <2>1, <2>3
    <3> QED
      BY <1>0, <2>1, <2>2, <3>1, <3>2, <3>3, <3>4 DEF Latest
  <2>6. Recorded'
    BY <1>0, <2>2, <2>3, CounterTypes DEF Counters, Recorded
  <2>7. FramesFit'
    <3>1. ASSUME NEW j \in FrameId, frame'[j].stage \in {"sent", "ok"}
          PROVE  Fits(frame'[j].payload, frame'[j].fCnt)
      BY <2>3, <2>4, <3>1
    <3> QED
      BY <1>0, <3>1 DEF FramesFit, Fits, Ctr
  <2>8. CountedBelow'
    <3>1. \A j \in counted : frame'[j].stage # "sent"
      BY <2>2, <2>3 DEF TypeOK
    <3>2. ASSUME NEW g \in accepted, g.id \in counted, SameCounter(g.payload, f.payload)
          PROVE  g.fCnt < f.fCnt
      <4>1. g.fCnt < Ctr(g.payload) /\ Ctr(g.payload) = Ctr(f.payload)
        BY <3>2 DEF Counters, CountedBelow, SameCounter, Ctr
      <4>2. g.fCnt \in Nat /\ Ctr(f.payload) \in Nat /\ f.fCnt \in Nat
        BY <2>1, CounterTypes, TypeNext, <1>0, TypeSend DEF TypeOK, Frame
      <4> QED
        BY <2>4, <4>1, <4>2
    <3>3. /\ \A g \in accepted : g.id \in counted => g.fCnt < Ctr(g.payload)
          /\ \A g, h \in accepted :
               g.id \in counted /\ g.id < h.id /\ SameCounter(g.payload, h.payload) => g.fCnt < h.fCnt
      BY DEF Counters, CountedBelow
    <3> QED
      BY <1>0, <2>3, <3>1, <3>2, <3>3 DEF CountedBelow, Ctr, SameCounter
  <2>9. TaskFits(t)'
    <3>1. CASE Ended(t)
      BY <3>1, EndedFits
    <3>2. CASE profile.roaming /\ pc'[t] = "xmitAns" /\ task'[t].id = k
      <4>1. Fits(frame'[sent'].payload, frame'[sent'].fCnt)
        BY <2>1, <2>4
      <4>2. sent' \notin counted' /\ task'[t].id = sent'
        BY <1>0, <2>1, <2>2, <3>2
      <4> QED
        BY <1>0, <3>2, <4>1, <4>2 DEF TaskFits, FlowSteps, AckSteps, SnapSteps, Known, Fits, Ctr
    <3> QED
      BY <2>1, <3>1, <3>2
  <2> QED
    BY <1>0, <2>1, <2>5, <2>6, <2>7, <2>8, <2>9, OthersFit DEF Counters
<1>2. CASE UNCHANGED <<frame, sent, session>> /\ Ended(t)
  BY <1>0, <1>2, EndedFits, TaskStepFits DEF Ended, Shared
<1> QED
  BY <1>1, <1>2, SendEffect, CounterTypes

(* The answer of a visited server, and the tx acknowledgement of a gateway.*)
LEMMA XmitCounters ==
  ASSUME Basics, AcceptInv, FrameFCnt, Serial, OneFlow, Counters, NEW t \in Task, XmitDataAns(t)
  PROVE  Counters'
<1> USE DEF Basics
<1>0. /\ Alone(t) /\ pc[t] = "xmitAns" /\ task[t].id = sent /\ sent \in FrameId /\ sent \notin counted
      /\ Fits(frame[sent].payload, frame[sent].fCnt) /\ profile.roaming
      /\ UNCHANGED <<profile, session, sent, accepted, counted>>
  <2>1. /\ pc[t] = "xmitAns" /\ task[t].id \in FrameId
        /\ UNCHANGED <<profile, session, sent, accepted, counted>>
    BY XmitEffect
  <2>2. /\ task[t].id = sent /\ sent \notin counted
        /\ Fits(frame[sent].payload, frame[sent].fCnt) /\ profile.roaming
    BY <2>1 DEF Counters, TaskFits, AckSteps, AcceptInv, TaskAccepted
  <2> QED
    BY <2>1, <2>2, ActsAlone DEF Busy
<1>1. CASE Ended(t) /\ UNCHANGED frame
  BY <1>0, <1>1, EndedFits, TaskStepFits DEF Ended, Shared
<1>2. CASE ~(Ended(t) /\ UNCHANGED frame)
  <2>1. /\ Step(t, "xmitAns", "ackData")
        /\ \A j \in FrameId : /\ frame'[j].payload = frame[j].payload
                              /\ frame'[j].fCnt = frame[j].fCnt
                              /\ frame'[j].aFCnt = frame[j].aFCnt
                              /\ frame'[j].stage = frame[j].stage
        /\ task'[t].item = frame[sent].payload /\ task'[t].aFCnt = frame[sent].aFCnt
        /\ task'[t].id = sent
    BY <1>0, <1>2, XmitEffect
  <2>2. InFlight' = InFlight
    BY <2>1 DEF InFlight
  <2>3. Latest'
    BY <1>0, <2>1, <2>2 DEF Counters, Latest
  <2>4. Recorded' /\ FramesFit'
    BY <1>0, <2>1, CounterTypes DEF Counters, Recorded, FramesFit, Fits, Ctr
  <2>5. CountedBelow'
    BY <1>0, <2>1 DEF Counters, CountedBelow, Ctr, SameCounter, TypeOK
  <2>6. TaskFits(t)'
    <3>1. /\ frame[sent].payload # None => frame[sent].fCnt = frame[sent].aFCnt
          /\ \A f \in accepted : f.id = sent => f.payload = frame[sent].payload /\ f.fCnt = frame[sent].fCnt
      BY <1>0 DEF FrameFCnt, Counters, Recorded
    <3>2. task'[t].item # None => task'[t].aFCnt >= Ctr(task'[t].item)
      BY <1>0, <2>1, <3>1 DEF Fits
    <3> QED
      BY <1>0, <2>1, <3>1, <3>2 DEF TaskFits, FlowSteps, AckSteps, SnapSteps, Known, Fits, Ctr, Step
  <2> QED
    BY <1>0, <2>1, <2>3, <2>4, <2>5, <2>6, OthersFit DEF Counters, Step
<1> QED
  BY <1>1, <1>2

LEMMA TxAckCounters ==
  ASSUME Basics, FrameFCnt, Serial, OneFlow, Counters, NEW t \in Task, NEW k \in FrameId, TxAck(t, k)
  PROVE  Counters'
<1> USE DEF Basics, OtherFrames
<1>0. /\ Alone(t) /\ pc[t] = "idle" /\ k = sent /\ sent \notin counted /\ ~profile.roaming
      /\ UNCHANGED <<profile, session, sent, accepted, counted>>
      /\ frame'[k].stage = "done" /\ OtherFrames(k)
  <2>1. /\ k \in InFlight /\ IsFree(t) /\ UNCHANGED <<profile, session, sent, accepted, counted>>
        /\ frame'[k].stage = "done" /\ OtherFrames(k)
    BY TxAckEffect, Stages
  <2>2. ~profile.roaming
    BY DEF TxAck, Counters, Latest
  <2> QED
    BY <2>1, <2>2, ActsAlone DEF Counters, Latest, IsFree, Busy
<1>1. InFlight' = {}
  BY <1>0 DEF InFlight, Counters, Latest
<1>2. Latest' /\ Recorded' /\ FramesFit'
  BY <1>0, <1>1, CounterTypes DEF Counters, Latest, Recorded, FramesFit, Fits, Ctr, InFlight
<1>3. CountedBelow'
  BY <1>0 DEF Counters, CountedBelow, Ctr, SameCounter, TypeOK
<1>4. TaskFits(t)' /\ Others(t)
  <2>1. CASE UNCHANGED <<pc, task>>
    BY <1>0, <2>1 DEF TaskFits, FlowSteps, AckSteps, SnapSteps, Known, Others
  <2>2. CASE /\ Step(t, "idle", "ackData") /\ frame[k].stage = "ok"
             /\ task'[t].item = frame[k].payload /\ task'[t].aFCnt = frame[k].aFCnt
             /\ task'[t].id = k
    <3>1. Fits(frame[k].payload, frame[k].fCnt)
      BY <1>0, <2>2 DEF Counters, FramesFit
    <3>2. /\ frame[sent].payload # None => frame[sent].fCnt = frame[sent].aFCnt
          /\ \A f \in accepted : f.id = sent => f.payload = frame[sent].payload /\ f.fCnt = frame[sent].fCnt
      BY <1>0, <2>2 DEF FrameFCnt, Counters, Recorded
    <3>3. task'[t].item # None => task'[t].aFCnt >= Ctr(task'[t].item)
      BY <1>0, <2>2, <3>1, <3>2 DEF Fits
    <3> QED
      BY <1>0, <1>1, <2>2, <3>1, <3>2, <3>3
         DEF TaskFits, FlowSteps, AckSteps, SnapSteps, Known, Fits, Ctr, Step
  <2> QED
    BY <2>1, <2>2, TxAckEffect
<1> QED
  BY <1>0, <1>2, <1>3, <1>4, OthersFit DEF Counters

LEMMA AckCounters ==
  ASSUME Basics, Serial, OneFlow, Counters, NEW t \in Task,
         AckGetDevice(t) \/ AckGetItem(t) \/ AckPutItem(t) \/ Abort(t)
  PROVE  Counters'
<1> USE DEF Basics
<1>0. Alone(t) /\ UNCHANGED Shared
  BY ActsAlone, AckDeviceEffect, AckItemEffect, AckRowEffect
     DEF Busy, Abort, Step, Shared
<1>1. CASE Ended(t)
  BY <1>0, <1>1, EndedFits, TaskStepFits DEF Ended
<1>2. ASSUME NEW from \in Known, NEW to \in Known \ {"ackData"}, Step(t, from, to),
             task'[t].item = task[t].item, task'[t].id = task[t].id,
             task'[t].aFCnt = task[t].aFCnt, task'[t].snap = session
      PROVE  Counters'
  <2>1. TaskFits(t)
    BY DEF Counters
  <2>2. TaskFits(t)'
    BY <1>0, <1>2, <2>1
       DEF TaskFits, FlowSteps, AckSteps, SnapSteps, Known, Fits, Ctr, Step, Shared, InFlight
  <2> QED
    BY <1>0, <1>2, <2>2, TaskStepFits DEF Step
<1>3. pc[t] \in Known \ {"ackData"} => task[t].snap = session
  BY DEF Counters, TaskFits, SnapSteps
<1>4. CASE AckGetDevice(t)
  BY <1>2, <1>4, AckDeviceEffect DEF Known
<1>5. CASE AckGetItem(t)
  BY <1>1, <1>2, <1>3, <1>5, AckItemEffect DEF Known
<1>6. CASE AckPutItem(t)
  BY <1>1, <1>2, <1>3, <1>6, AckRowEffect DEF Known, Step
<1>7. CASE Abort(t)
  BY <1>1, <1>7, Goes DEF Abort
<1> QED
  BY <1>4, <1>5, <1>6, <1>7

(* The frame is counted, and the counter of its key rises above it.        *)
LEMMA SaveCounters ==
  ASSUME Basics, Serial, OneFlow, FrameFCnt, Counters, NEW t \in Task, AckSaveSession(t)
  PROVE  Counters'
<1> USE DEF Basics
<1> DEFINE p == task[t].item
<1>0. /\ Alone(t) /\ Ended(t) /\ task[t].snap = session /\ sent \in FrameId
      /\ counted' = counted \cup {sent}
      /\ UNCHANGED <<profile, frame, sent, accepted>>
  <2>1. pc[t] = "ackSave" /\ Alone(t)
    BY AckSaveEffect, ActsAlone DEF Busy
  <2>2. task[t].snap = session /\ task[t].id = sent /\ task[t].id \in FrameId
    BY <2>1 DEF Counters, TaskFits, AckSteps, SnapSteps, FlowSteps, Known, AnswersKnown
  <2> QED
    BY <2>1, <2>2, AckSaveEffect
<1>1. /\ p # None => task[t].aFCnt >= Ctr(p)
      /\ ~profile.roaming => InFlight = {}
      /\ \A f \in accepted : f.id = sent =>
           /\ Fits(f.payload, f.fCnt) /\ f.payload = p
           /\ f.payload # None => f.fCnt = task[t].aFCnt
      /\ profile.roaming => frame[sent].payload = p /\ frame[sent].aFCnt = task[t].aFCnt
      /\ sent \notin counted
  BY AckSaveEffect DEF Counters, TaskFits, AckSteps, Known
<1> DEFINE After(q) == IF profile.v11 /\ q # None THEN session'.a ELSE session'.n
<1>2. /\ \A q : After(q) >= Ctr(q) /\ After(q) \in Nat
      /\ p = None => After(p) = session.n + 1
      /\ p # None => After(p) = task[t].aFCnt + 1
  <2>1. session.n \in Nat /\ session.a \in Nat /\ task[t].aFCnt \in Nat
    BY CounterTypes
  <2>2. CASE p = None
    BY <1>0, <2>1, <2>2, AckSaveEffect DEF Ctr
  <2>3. CASE p # None /\ profile.v11
    <3>1. session'.n = session.n /\ session'.a = task[t].aFCnt + 1 /\ task[t].aFCnt >= session.a
      BY <1>0, <1>1, <2>3, AckSaveEffect DEF Ctr
    <3> QED
      BY <2>1, <2>3, <3>1 DEF Ctr
  <2>4. CASE p # None /\ ~profile.v11
    <3>1. session'.n = task[t].aFCnt + 1 /\ task[t].aFCnt >= session.n
      BY <1>0, <1>1, <2>4, AckSaveEffect DEF Ctr
    <3> QED
      BY <2>1, <2>4, <3>1 DEF Ctr
  <2> QED
    BY <2>2, <2>3, <2>4
<1> HIDE DEF After
<1>3. Latest'
  <2>1. sent \in 1 .. sent
    BY <1>0, CounterTypes DEF FrameId
  <2> QED
    BY <1>0, <1>1, <2>1 DEF Counters, Latest, InFlight
<1>4. Recorded'
  BY <1>0 DEF Counters, Recorded
<1>5. FramesFit'
  BY <1>0 DEF Counters, Latest, FramesFit, InFlight
<1>6. \A f \in accepted : f.id \in counted' => f.fCnt < After(f.payload)
  <2>1. ASSUME NEW f \in accepted, f.id \in counted PROVE f.fCnt < After(f.payload)
    <3>1. f.fCnt < Ctr(f.payload) /\ f.fCnt \in Nat /\ Ctr(f.payload) \in Nat
      BY <2>1, CounterTypes DEF Counters, CountedBelow
    <3> QED
      BY <1>2, <3>1
  <2>2. ASSUME NEW f \in accepted, f.id = sent PROVE f.fCnt < After(f.payload)
    <3>1. f.payload = p /\ f.fCnt \in Nat
      BY <1>1, <2>2, CounterTypes
    <3>2. f.fCnt = IF p = None THEN session.n ELSE task[t].aFCnt
      BY <1>1, <2>2 DEF Fits
    <3> QED
      BY <1>2, <3>1, <3>2
  <2> QED
    BY <1>0, <2>1, <2>2
<1>7. \A k \in counted' : frame[k].stage = "sent" => frame[k].fCnt < After(frame[k].payload)
  <2>1. ASSUME NEW k \in counted, frame[k].stage = "sent" PROVE frame[k].fCnt < After(frame[k].payload)
    <3>1. /\ frame[k].fCnt < Ctr(frame[k].payload) /\ frame[k].fCnt \in Nat
          /\ Ctr(frame[k].payload) \in Nat
      BY <2>1, CounterTypes DEF Counters, CountedBelow, TypeOK
    <3> QED
      BY <1>2, <3>1
  <2>2. ASSUME frame[sent].stage = "sent" PROVE frame[sent].fCnt < After(frame[sent].payload)
    <3>1. profile.roaming /\ frame[sent].payload = p /\ frame[sent].aFCnt = task[t].aFCnt
      BY <1>0, <1>1, <2>2 DEF InFlight
    <3>2. Fits(p, frame[sent].fCnt) /\ frame[sent].fCnt \in Nat
      BY <1>0, <1>1, <2>2, <3>1, CounterTypes DEF Counters, FramesFit
    <3>3. CASE p = None
      BY <1>2, <3>1, <3>2, <3>3 DEF Fits
    <3>4. CASE p # None
      <4>1. frame[sent].fCnt = task[t].aFCnt
        BY <1>0, <3>1, <3>4 DEF FrameFCnt
      <4> QED
        BY <1>2, <3>1, <3>2, <3>4, <4>1
    <3> QED
      BY <3>3, <3>4
  <2> QED
    BY <1>0, <2>1, <2>2
<1>8. CountedBelow'
  <2>1. \A k \in FrameId : frame[k].stage = "sent" => k <= sent
    BY CounterTypes DEF Counters, Latest
  <2>2. \A f \in accepted : f.id <= sent /\ f.id \in Nat
    BY CounterTypes DEF Counters, Latest
  <2>3. /\ \A k \in FrameId, f \in accepted :
             /\ frame[k].stage = "sent" /\ f.id \in counted' /\ f.id < k
             /\ SameCounter(f.payload, frame[k].payload)
             => f.fCnt < frame[k].fCnt
        /\ \A f, g \in accepted :
             /\ f.id \in counted' /\ f.id < g.id /\ SameCounter(f.payload, g.payload)
             => f.fCnt < g.fCnt
    BY <1>0, <2>1, <2>2, CounterTypes DEF Counters, CountedBelow
  <2> QED
    BY <1>0, <1>6, <1>7, <2>3 DEF CountedBelow, After, Ctr, SameCounter
<1> QED
  BY <1>0, <1>3, <1>4, <1>5, <1>8, EndedFits, OthersFit DEF Counters, Ended

LEMMA CountersNext ==
  Basics /\ AcceptInv /\ OneFlow /\ CountersInv /\ [Next]_vars => CountersInv'
<1> SUFFICES ASSUME Basics, AcceptInv, OneFlow, CountersInv, Serial, [Next]_vars PROVE Counters'
  BY FrameFCntNext, ProfileStays DEF CountersInv, Serial
<1>0. FrameFCnt /\ Counters
  BY DEF CountersInv
<1>1. ASSUME UNCHANGED Shared, UNCHANGED <<pc, task>> PROVE Counters'
  BY <1>0, <1>1, QuietFits
<1>2. ASSUME NEW k \in FrameId, FrameExpires(k) \/ MessageLost(k) \/ GatewayRejects(k)
      PROVE  Counters'
  BY <1>0, <1>2, GatewayCounters
<1>3. ASSUME NEW k \in FrameId, NEW received \in BOOLEAN, GatewayAccepts(k, received)
      PROVE  Counters'
  BY <1>0, <1>3, AcceptCounters
<1>4. ASSUME NEW t \in Task, \/ \E must \in BOOLEAN : Uplink(t, must)
                             \/ SelectDevice(t) \/ UpdateDevice(t) \/ GetPending(t)
                             \/ DeleteAcked(t) \/ LoadDevice(t) \/ GetNext(t) \/ Discard(t)
                             \/ UpdateQueueItem(t)
      PROVE  Counters'
  BY <1>0, <1>4, FlowCounters
<1>5. ASSUME NEW t \in Task, \/ SendFrame(t) \/ XmitDataAns(t) \/ \E k \in FrameId : TxAck(t, k)
                             \/ AckGetDevice(t) \/ AckGetItem(t) \/ AckPutItem(t)
                             \/ AckSaveSession(t) \/ Abort(t)
      PROVE  Counters'
  BY <1>0, <1>5, SendCounters, XmitCounters, TxAckCounters, AckCounters, SaveCounters
<1>6. ASSUME \/ \E c \in FCnt \cup {-1} : Enqueue(c)
             \/ \E is \in SUBSET Item : Flush(is)
             \/ \E i \in Item : TimeoutPasses(i)
             \/ LockEnds \/ AckLost
      PROVE  Counters'
  BY <1>1, <1>6 DEF Enqueue, Flush, TimeoutPasses, LockEnds, AckLost, Shared
<1>7. CASE UNCHANGED vars
  BY <1>1, <1>7 DEF vars, Shared
<1>8. CASE Next
  BY <1>2, <1>3, <1>4, <1>5, <1>6, <1>8 DEF Next, ServerStep
<1> QED
  BY <1>7, <1>8

LEMMA CountersInit == Init => CountersInv
<1> SUFFICES ASSUME Init PROVE CountersInv
  OBVIOUS
<1>1. \A k \in FrameId : frame[k].payload = None /\ frame[k].stage = "none"
  BY Kinds, Stages DEF Init
<1>2. InFlight = {} /\ accepted = {} /\ counted = {}
  BY <1>1 DEF Init, InFlight
<1>3. \A t \in Task : TaskFits(t)
  BY DEF Init, TaskFits, FlowSteps, AckSteps, SnapSteps, Known
<1>4. Latest /\ Recorded /\ FramesFit /\ CountedBelow
  BY <1>1, <1>2 DEF Latest, Recorded, FramesFit, CountedBelow
<1> QED
  BY <1>1, <1>3, <1>4 DEF CountersInv, Counters, FrameFCnt

(* While flows do not overlap, no key is used twice with the counter of a  *)
(* downlink whose tx acknowledgement was saved: for any number of items,   *)
(* frames, losses and failures, roaming or not, LoRaWAN 1.0 or 1.1.        *)
THEOREM CountersAreNotReused == Spec => []NoCounterReuse
  BY BasicsInit, BasicsNext, AcceptInit, AcceptNext, OneFlowInit, OneFlowNext,
     CountersInit, CountersNext, CountersSafe, PTL DEF Spec

-----------------------------------------------------------------------------
(* Ack events, while flows do not overlap.  What is pending is the one     *)
(* item the frame on its way, or the task at work, is about.               *)
TaskHead(t) ==
  /\ pc[t] \in {"putItem", "send"} /\ task[t].item # None => Pending = {}
  /\ pc[t] = "xmitAns" /\ frame[sent].payload # None => Pending \subseteq {frame[sent].payload}
  /\ pc[t] \in Known /\ task[t].item # None => Pending \subseteq {task[t].item}
  /\ pc[t] = "acked" /\ task[t].item \in Queued => task[t].item \in Pending
  /\ pc[t] \in {"pending?", "acked"} => task[t].ackOf # None
Heads ==
  /\ Pending \subseteq Confirmed
  /\ \A k \in InFlight : frame[k].payload # None => Pending \subseteq {frame[k].payload}
  /\ \A t \in Task : TaskHead(t)

(* In Class-A a device that owes an acknowledgement gets no other item     *)
(* before its next uplink, which settles the matter.                       *)
TaskOwed(t) ==
  /\ pc[t] \in FlowSteps => device.item = None
  /\ pc[t] \in Known /\ device.item # None => task[t].item \in {None, device.item}
  /\ pc[t] = "xmitAns" /\ device.item # None => frame[sent].payload \in {None, device.item}
  /\ pc[t] \in {"update", "pending?", "acked"} /\ task[t].ackOf # None
       => Pending \subseteq {task[t].ackOf}
Owed == profile.class = "A" =>
  /\ device.item # None => /\ Pending \subseteq {device.item}
                          /\ \A k \in InFlight : frame[k].payload \in {None, device.item}
  /\ \A t \in Task : TaskOwed(t)

(* In LoRaWAN 1.1 conf_f_cnt is the counter of the pending item, unless    *)
(* the tx acknowledgement of a frame was not saved.                        *)
TaskNumbers(t) ==
  /\ pc[t] \in Known =>
       /\ task[t].item \in Queued => queue[task[t].item].fCnt = task[t].aFCnt
       /\ \E f \in accepted : f.id = sent
  /\ pc[t] \in {"ackPut", "ackSave"} /\ task[t].item # None => task[t].copy.fCnt = task[t].aFCnt
  /\ pc[t] \in {"putItem", "send"} /\ task[t].item \in Encrypted \cap Queued
       => queue[task[t].item].fCnt = task[t].copy.fCnt
  /\ pc[t] = "send" /\ task[t].item \in Queued \ Encrypted
       => queue[task[t].item].fCnt = AFCntDown(session)
  /\ pc[t] \in {"update", "pending?", "acked"} /\ task[t].ackOf # None
       => \E f \in accepted : f.payload = task[t].ackOf /\ f.fCnt = session.conf
OneRecord == \A f, g \in accepted : f.id = g.id => f.payload = g.payload /\ f.fCnt = g.fCnt
FramesNumbered ==
  /\ \A k \in InFlight : frame[k].payload \in Queued => queue[frame[k].payload].fCnt = frame[k].fCnt
  /\ \A k \in FrameId : frame[k].stage = "ok" => \E f \in accepted : f.id = k
PendingNumbered == \A i \in Pending :
  \E f \in accepted : f.payload = i /\ (f.id \notin counted \/ f.fCnt = session.conf)
OwedNumbered == device.item # None =>
  \E f \in accepted : f.payload = device.item /\ f.fCnt = device.fCnt
Numbers == profile.v11 /\ ~profile.roaming =>
  /\ OneRecord /\ FramesNumbered /\ PendingNumbered /\ OwedNumbered
  /\ \A t \in Task : TaskNumbers(t)

(* An item is taken for another one only if the tx acknowledgement of a    *)
(* frame is never saved.                                                   *)
Forgotten == {f \in accepted : /\ f.id \notin counted \cup InFlight
                               /\ \A t \in Task : pc[t] \in AckSteps => task[t].id # f.id}
Excused == misacked # {} => profile.class # "A" /\ (profile.v11 => Forgotten # {})

RoamsInClassA == profile.roaming => profile.class = "A"
Truth == Heads /\ Owed /\ Numbers /\ Excused
TruthInv == RoamsInClassA /\ (Serial => Truth)

(* What a step is proved from.                                             *)
Flows == Basics /\ AcceptInv /\ OneFlow /\ FrameFCnt /\ Counters /\ Serial

(* A step of the surroundings: no task moves, nothing becomes pending.     *)
Calm ==
  /\ UNCHANGED <<profile, sent, pc, task>>
  /\ Pending' \subseteq Pending /\ Pending \cap Queued' \subseteq Pending'
  /\ Queued' \cap Passed \subseteq Queued
  /\ InFlight' \subseteq InFlight
  /\ \A k \in FrameId : frame'[k].payload = frame[k].payload \/ (k \notin InFlight' /\ ~profile.roaming)

LEMMA CalmSteps ==
  ASSUME Flows,
         \/ \E c \in FCnt \cup {-1} : Enqueue(c)
         \/ \E is \in SUBSET Item : Flush(is)
         \/ \E i \in Item : TimeoutPasses(i)
         \/ LockEnds \/ AckLost \/ UNCHANGED vars
         \/ \E k \in FrameId : FrameExpires(k) \/ MessageLost(k) \/ GatewayRejects(k)
         \/ \E k \in FrameId, received \in BOOLEAN : GatewayAccepts(k, received)
         \/ \E t \in Task, must \in BOOLEAN : Uplink(t, must) /\ UNCHANGED <<pc, task>>
         \/ \E t \in Task, k \in FrameId : TxAck(t, k) /\ UNCHANGED <<pc, task>>
  PROVE  Calm
<1> USE DEF Flows, Basics, Calm
<1>0. Pending \subseteq Queued /\ enqueued + 1 \notin Passed /\ Queued \subseteq 1 .. enqueued
      /\ enqueued + 1 \notin Queued
  BY DEF Pending, Passed, ItemsPassed, TypeOK
<1>1. ASSUME UNCHANGED <<profile, sent, pc, task, frame>>, Pending' = Pending, Queued' = Queued
      PROVE  Calm
  BY <1>0, <1>1 DEF InFlight
<1>2. ASSUME NEW c \in FCnt \cup {-1}, Enqueue(c) PROVE Calm
  <2>1. /\ UNCHANGED <<profile, sent, pc, task, frame>>
        /\ Queued' = Queued \cup {enqueued + 1} /\ Pending' = Pending \ {enqueued + 1}
    BY <1>2, EnqueueEffect
  <2> QED
    BY <1>0, <2>1 DEF InFlight
<1>3. ASSUME NEW is \in SUBSET Item, Flush(is) PROVE Calm
  BY <1>0, <1>3, FlushEffect DEF InFlight
<1>4. ASSUME NEW i \in Item, TimeoutPasses(i) PROVE Calm
  BY <1>1, <1>4, TimeoutEffect
<1>5. CASE LockEnds \/ AckLost \/ UNCHANGED vars
  BY <1>1, <1>5 DEF LockEnds, AckLost, vars, Queued, Pending
<1>6. ASSUME UNCHANGED <<profile, sent, pc, task, queue>>,
             NEW k \in FrameId, OtherFrames(k), k \in InFlight,
             \/ frame'[k].payload = frame[k].payload
             \/ frame'[k] = Handled /\ ~profile.roaming
      PROVE  Calm
  <2>1. Pending' = Pending /\ Queued' = Queued
    BY <1>6 DEF Pending, Queued
  <2>2. frame'[k] = Handled => k \notin InFlight'
    BY Stages DEF InFlight
  <2>3. InFlight' \subseteq InFlight
    BY <1>6 DEF OtherFrames, InFlight
  <2>4. \A j \in FrameId : frame'[j].payload = frame[j].payload \/ (j \notin InFlight' /\ ~profile.roaming)
    BY <1>6, <2>2 DEF OtherFrames
  <2>5. Queued' \cap Passed \subseteq Queued /\ Pending \cap Queued' \subseteq Pending'
    BY <2>1
  <2> QED
    BY <1>6, <2>1, <2>3, <2>4, <2>5
<1>7. ASSUME NEW k \in FrameId, FrameExpires(k) PROVE Calm
  <2>1. /\ \A j \in FrameId : frame'[j].payload = frame[j].payload /\ frame'[j].stage = frame[j].stage
        /\ UNCHANGED <<profile, sent, pc, task, queue>>
    BY <1>7, ExpireEffect
  <2> QED
    BY <1>0, <2>1 DEF InFlight, Pending, Queued
<1>8. ASSUME NEW k \in FrameId, MessageLost(k) \/ GatewayRejects(k) PROVE Calm
  BY <1>6, <1>8, LostEffect
<1>9. ASSUME NEW k \in FrameId, NEW received \in BOOLEAN, GatewayAccepts(k, received) PROVE Calm
  BY <1>6, <1>9, AcceptEffect
<1>10. ASSUME NEW t \in Task, NEW must \in BOOLEAN, Uplink(t, must), UNCHANGED <<pc, task>>
       PROVE  Calm
  BY <1>1, <1>10 DEF Uplink, Pending, Queued
<1>11. ASSUME NEW t \in Task, NEW k \in FrameId, TxAck(t, k), UNCHANGED <<pc, task>> PROVE Calm
  <2>1. ~profile.roaming
    BY <1>11 DEF TxAck, Counters, Latest
  <2> QED
    BY <1>6, <1>11, <2>1, TxAckEffect
<1> QED
  BY <1>2, <1>3, <1>4, <1>5, <1>7, <1>8, <1>9, <1>10, <1>11

LEMMA CalmHeads ==
  ASSUME Flows, Heads, Calm
  PROVE  Heads'
<1> USE DEF Flows, Basics, Calm
<1>1. Pending' \subseteq Confirmed'
  BY DEF Heads, Confirmed
<1>2. \A k \in InFlight' : frame'[k].payload # None => Pending' \subseteq {frame'[k].payload}
  BY DEF Heads, InFlight
<1>3. ASSUME NEW t \in Task PROVE TaskHead(t)'
  <2>1. pc[t] = "xmitAns" => sent \in FrameId /\ profile.roaming
    BY DEF Counters, TaskFits, AckSteps, AnswersKnown, AcceptInv, TaskAccepted
  <2>2. pc[t] = "xmitAns" => frame'[sent].payload = frame[sent].payload
    BY <2>1
  <2>3. task[t].item \in Queued' => task[t].item \in Queued
    BY Kinds DEF ItemsPassed, Queued
  <2> QED
    BY <2>2, <2>3 DEF Heads, TaskHead
<1> QED
  BY <1>1, <1>2, <1>3 DEF Heads

(* The task that moves; no other one has anything to keep.                 *)
LEMMA MoveHeads ==
  ASSUME Heads, NEW t \in Task, Alone(t), Others(t), UNCHANGED profile, Pending' \subseteq Confirmed,
         \A k \in InFlight' : frame'[k].payload # None => Pending' \subseteq {frame'[k].payload},
         TaskHead(t)'
  PROVE  Heads'
<1>1. ASSUME NEW u \in Task \ {t} PROVE TaskHead(u)'
  <2>1. pc'[u] = "idle"
    BY DEF Alone, Others
  <2> QED
    BY <2>1 DEF TaskHead, Known
<1> QED
  BY <1>1 DEF Heads, Confirmed

LEMMA FlowHeads ==
  ASSUME Flows, Heads, NEW t \in Task,
         \/ \E must \in BOOLEAN : Uplink(t, must) /\ ~UNCHANGED <<pc, task>>
         \/ SelectDevice(t) \/ UpdateDevice(t) \/ GetPending(t) \/ DeleteAcked(t)
         \/ LoadDevice(t) \/ GetNext(t) \/ Discard(t) \/ UpdateQueueItem(t)
  PROVE  Heads'
<1> USE DEF Flows, Basics
<1>0. /\ Busy(t) \/ IsFree(t) => Alone(t)
      /\ pc[t] \in FlowSteps => InFlight = {}
      /\ MayStart(t) => IsFree(t) /\ InFlight = {}
      /\ Pending \subseteq Confirmed /\ TaskHead(t)
  BY ActsAlone DEF Counters, TaskFits, MayStart, Heads
<1>1. ASSUME NEW from \in FlowSteps \cup {"idle"}, NEW to, Step(t, from, to),
             InFlight = {}, UNCHANGED <<profile, frame>>, Alone(t), Pending' \subseteq Pending,
             TaskHead(t)'
      PROVE  Heads'
  BY <1>0, <1>1, MoveHeads DEF Step, InFlight
<1>2. ASSUME Ended(t), InFlight = {}, UNCHANGED <<profile, frame>>, Alone(t),
             Pending' \subseteq Pending
      PROVE  Heads'
  <2>1. TaskHead(t)'
    BY <1>2 DEF Ended, TaskHead, Known
  <2> QED
    BY <1>0, <1>2, <2>1, MoveHeads DEF Ended, InFlight
<1>3. ASSUME NEW from \in FlowSteps \cup {"idle"},
             NEW to \in {"update", "load", "next", "discard"}, Step(t, from, to),
             InFlight = {}, UNCHANGED <<profile, frame>>, Alone(t), Pending' \subseteq Pending
      PROVE  Heads'
  <2>1. TaskHead(t)'
    BY <1>3 DEF Step, TaskHead, Known
  <2> QED
    BY <1>1, <1>3, <2>1
<1>4. UNCHANGED queue => Pending' = Pending /\ Queued' = Queued
  BY DEF Pending, Queued
<1>5. ASSUME NEW must \in BOOLEAN, Uplink(t, must), ~UNCHANGED <<pc, task>> PROVE Heads'
  BY <1>0, <1>3, <1>4, <1>5, UplinkEffect DEF FlowSteps
<1>6. CASE SelectDevice(t)
  BY <1>0, <1>3, <1>4, <1>6, SelectEffect DEF FlowSteps
<1>7. CASE UpdateDevice(t)
  <2>0. pc[t] = "update" /\ InFlight = {} /\ Alone(t) /\ Pending' = Pending /\ UNCHANGED <<profile, frame>>
    BY <1>0, <1>4, <1>7, UpdateEffect DEF FlowSteps, Busy, Step
  <2>1. CASE task[t].ackOf = None
    BY <1>3, <1>7, <2>0, <2>1, UpdateEffect DEF FlowSteps
  <2>2. CASE task[t].ackOf # None
    <3>1. Step(t, "update", "pending?") /\ task' = task
      BY <1>7, <2>2, UpdateEffect
    <3>2. TaskHead(t)'
      BY <2>2, <3>1 DEF Step, TaskHead, Known
    <3> QED
      BY <1>1, <2>0, <3>1, <3>2 DEF FlowSteps
  <2> QED
    BY <2>1, <2>2
<1>8. CASE GetPending(t)
  <2>0. /\ pc[t] = "pending?" /\ InFlight = {} /\ Alone(t) /\ Pending' = Pending
        /\ UNCHANGED <<profile, frame>>
    BY <1>0, <1>4, <1>8, PendingEffect DEF FlowSteps, Busy, Step
  <2>1. CASE Step(t, "pending?", "next")
    BY <1>3, <2>0, <2>1 DEF FlowSteps
  <2>2. CASE /\ Step(t, "pending?", "acked") /\ task'[t].item \in Pending
             /\ task'[t].ackOf = task[t].ackOf
    <3>1. TaskHead(t)'
      BY <1>0, <2>0, <2>2 DEF Step, TaskHead, Known
    <3> QED
      BY <1>1, <2>0, <2>2, <3>1 DEF FlowSteps
  <2> QED
    BY <1>8, <2>1, <2>2, PendingEffect
<1>9. CASE DeleteAcked(t)
  <2>0. pc[t] = "acked" /\ InFlight = {} /\ Alone(t) /\ UNCHANGED <<profile, frame>>
    BY <1>0, <1>9, DeleteAckedEffect DEF FlowSteps, Busy
  <2> QED
    BY <1>2, <1>3, <1>4, <1>9, <2>0, DeleteAckedEffect DEF FlowSteps, Deletes
<1>10. CASE LoadDevice(t)
  BY <1>0, <1>2, <1>3, <1>4, <1>10, LoadEffect DEF FlowSteps, Busy
<1>11. CASE GetNext(t)
  <2>0. /\ pc[t] = "next" /\ InFlight = {} /\ Alone(t) /\ Pending' = Pending
        /\ UNCHANGED <<profile, frame>>
    BY <1>0, <1>4, <1>11, NextEffect DEF FlowSteps, Busy
  <2>1. CASE Step(t, "next", "send") /\ task'[t] = task[t]
    <3>1. task'[t].item = None
      BY <2>0, <2>1 DEF ItemFree
    <3>2. TaskHead(t)'
      BY <2>1, <3>1 DEF Step, TaskHead, Known
    <3> QED
      BY <1>1, <2>0, <2>1, <3>2 DEF FlowSteps
  <2>2. CASE Step(t, "next", "putItem") /\ Oldest \notin Pending /\ Queued # {}
    <3>1. Pending = {}
      <4>1. Oldest \in Queued /\ (\A j \in Queued : Oldest <= j) /\ Queued \subseteq Nat
        BY <2>2, OldestIsFirst, Kinds DEF Queued
      <4>2. ASSUME NEW i \in Pending PROVE i \in Queued /\ i <= Oldest
        BY <4>1 DEF ItemsPassed, Passed, Pending
      <4>3. ASSUME NEW i \in Pending PROVE i = Oldest
        <5>1. i \in Queued /\ i <= Oldest /\ Oldest <= i
          BY <4>1, <4>2
        <5>2. i \in Nat /\ Oldest \in Nat
          BY <4>1, <5>1
        <5> HIDE DEF Oldest
        <5> QED
          BY <5>1, <5>2
      <4> QED
        BY <2>2, <4>3
    <3>2. TaskHead(t)'
      BY <2>0, <2>2, <3>1 DEF Step, TaskHead, Known
    <3> QED
      BY <1>1, <2>0, <2>2, <3>2 DEF FlowSteps
  <2> QED
    BY <1>2, <1>3, <1>11, <2>0, <2>1, <2>2, NextEffect DEF FlowSteps
<1>12. CASE Discard(t)
  <2>0. pc[t] = "discard" /\ InFlight = {} /\ Alone(t) /\ UNCHANGED <<profile, frame>>
    BY <1>0, <1>12, DiscardEffect DEF FlowSteps, Busy
  <2> QED
    BY <1>2, <1>3, <1>4, <1>12, <2>0, DiscardEffect DEF FlowSteps, Deletes
<1>13. CASE UpdateQueueItem(t)
  <2>0. pc[t] = "putItem" /\ InFlight = {} /\ Alone(t) /\ UNCHANGED <<profile, frame>>
    BY <1>0, <1>13, PutEffect DEF FlowSteps, Busy
  <2>1. ~task[t].copy.pending /\ task[t].item # None /\ Pending = {}
    BY <1>0, <2>0, Kinds DEF AcceptInv, TaskAccepted, ItemHeld, TaskHead
  <2>2. CASE Step(t, "putItem", "send") /\ UNCHANGED task
    <3>1. Pending' = {}
      BY <1>4, <1>13, <2>1, <2>2, PutEffect DEF Ended, Step
    <3>2. TaskHead(t)'
      BY <2>2, <3>1 DEF Step, TaskHead, Known
    <3> QED
      BY <1>1, <2>0, <2>2, <3>1, <3>2 DEF FlowSteps
  <2>3. CASE Ended(t) /\ UNCHANGED queue
    BY <1>2, <1>4, <2>0, <2>3
  <2> QED
    BY <1>13, <2>2, <2>3, PutEffect
<1> QED
  BY <1>5, <1>6, <1>7, <1>8, <1>9, <1>10, <1>11, <1>12, <1>13

LEMMA AckHeads ==
  ASSUME Flows, Heads, NEW t \in Task,
         \/ SendFrame(t) \/ XmitDataAns(t)
         \/ \E k \in FrameId : TxAck(t, k) /\ ~UNCHANGED <<pc, task>>
         \/ AckGetDevice(t) \/ AckGetItem(t) \/ AckPutItem(t) \/ AckSaveSession(t) \/ Abort(t)
  PROVE  Heads'
<1> USE DEF Flows, Basics
<1>0. /\ Busy(t) \/ IsFree(t) => Alone(t)
      /\ Pending \subseteq Confirmed /\ TaskHead(t) /\ TaskFits(t)
      /\ \A k \in InFlight : frame[k].payload # None => Pending \subseteq {frame[k].payload}
  BY ActsAlone DEF Counters, Heads
<1>1. UNCHANGED queue => Pending' = Pending /\ Queued' = Queued
  BY DEF Pending, Queued
<1>2. ASSUME UNCHANGED <<profile, queue>>, NEW from, NEW to, Step(t, from, to), Alone(t),
             \A k \in InFlight' : k \in InFlight /\ frame'[k].payload = frame[k].payload,
             TaskHead(t)'
      PROVE  Heads'
  <2>1. Pending' \subseteq Confirmed /\ Others(t)
    BY <1>0, <1>1, <1>2 DEF Step
  <2>2. \A k \in InFlight' : frame'[k].payload # None => Pending' \subseteq {frame'[k].payload}
    BY <1>0, <1>1, <1>2
  <2> QED
    BY <1>2, <2>1, <2>2, MoveHeads
<1>3. ASSUME UNCHANGED <<profile, queue, frame>>, Ended(t), Alone(t) PROVE Heads'
  <2>1. TaskHead(t)'
    BY <1>3 DEF Ended, TaskHead, Known
  <2> QED
    BY <1>0, <1>1, <1>3, <2>1, MoveHeads DEF Ended, InFlight
<1>4. CASE SendFrame(t)
  <2>0. pc[t] = "send" /\ InFlight = {} /\ Alone(t) /\ UNCHANGED <<profile, queue>>
    BY <1>0, <1>4, SendEffect DEF Busy, TaskFits, FlowSteps
  <2> DEFINE k == sent + 1
  <2>1. CASE UNCHANGED frame /\ Ended(t)
    BY <1>3, <2>0, <2>1
  <2>2. CASE ~(UNCHANGED frame /\ Ended(t))
    <3>1. /\ sent' = k /\ OtherFrames(k) /\ Others(t) /\ frame'[k].payload \in {task[t].item, None}
          /\ Ended(t) \/ pc'[t] = "xmitAns"
      BY <1>4, <2>2, SendEffect DEF Step, Ended
    <3>2. frame'[k].payload # None => Pending' = {}
      BY <1>0, <1>1, <2>0, <3>1 DEF TaskHead
    <3>3. \A j \in InFlight' : j = k
      BY <2>0, <3>1 DEF InFlight, OtherFrames
    <3>4. TaskHead(t)'
      BY <3>1, <3>2 DEF TaskHead, Known, Ended
    <3> QED
      BY <1>0, <1>1, <2>0, <3>1, <3>2, <3>3, <3>4, MoveHeads
  <2> QED
    BY <2>1, <2>2
<1>5. CASE XmitDataAns(t)
  <2>0. pc[t] = "xmitAns" /\ Alone(t) /\ UNCHANGED <<profile, queue>> /\ task[t].id = sent
    BY <1>0, <1>5, XmitEffect DEF Busy, TaskFits, AckSteps
  <2>1. CASE UNCHANGED frame /\ Ended(t)
    BY <1>3, <2>0, <2>1
  <2>2. CASE ~(UNCHANGED frame /\ Ended(t))
    <3>1. /\ Step(t, "xmitAns", "ackData") /\ task'[t].item = frame[sent].payload
          /\ \A j \in FrameId : /\ frame'[j].payload = frame[j].payload
                                /\ frame'[j].stage = frame[j].stage
      BY <1>5, <2>0, <2>2, XmitEffect
    <3>2. TaskHead(t)'
      BY <1>0, <1>1, <2>0, <3>1 DEF Step, TaskHead, Known
    <3> QED
      BY <1>2, <2>0, <3>1, <3>2 DEF InFlight
  <2> QED
    BY <2>1, <2>2
<1>6. ASSUME NEW k \in FrameId, TxAck(t, k), ~UNCHANGED <<pc, task>> PROVE Heads'
  <2>1. /\ IsFree(t) /\ k \in InFlight /\ frame'[k] = Handled /\ OtherFrames(k)
        /\ Step(t, "idle", "ackData") /\ task'[t].item = frame[k].payload
        /\ UNCHANGED <<profile, queue>>
    BY <1>6, TxAckEffect
  <2>2. TaskHead(t)'
    BY <1>0, <1>1, <2>1 DEF Step, TaskHead, Known
  <2>3. \A j \in InFlight' : j \in InFlight /\ frame'[j].payload = frame[j].payload
    BY <2>1, Stages DEF InFlight, OtherFrames
  <2> QED
    BY <1>0, <1>2, <2>1, <2>2, <2>3
<1>7. ASSUME NEW from \in Known, NEW to \in Known, Step(t, from, to), task'[t].item = task[t].item,
             UNCHANGED <<profile, queue, frame>>
      PROVE  Heads'
  <2>1. TaskHead(t)' /\ Alone(t)
    BY <1>0, <1>1, <1>7 DEF Step, TaskHead, Known, Busy
  <2> QED
    BY <1>2, <1>7, <2>1 DEF InFlight
<1>8. CASE AckGetDevice(t)
  BY <1>7, <1>8, AckDeviceEffect DEF Known
<1>9. CASE AckGetItem(t)
  BY <1>0, <1>3, <1>7, <1>9, AckItemEffect DEF Known, Busy
<1>10. CASE AckPutItem(t)
  <2> DEFINE i == task[t].item
  <2>0. /\ pc[t] = "ackPut" /\ Alone(t) /\ UNCHANGED <<profile, frame>> /\ i \in Item /\ i # None
        /\ Pending \subseteq {i}
    BY <1>0, <1>10, AckRowEffect, Kinds DEF Busy, TaskHead, Known
  <2>1. CASE UNCHANGED queue /\ Ended(t)
    BY <1>3, <2>0, <2>1
  <2>2. CASE ~(UNCHANGED queue /\ Ended(t))
    <3>1. /\ Step(t, "ackPut", "ackSave") /\ task' = task
          /\ Pending' \subseteq {i} /\ Pending' \subseteq Confirmed
      BY <1>0, <1>10, <2>0, <2>2, AckRowEffect DEF Deletes
    <3>2. \A k \in InFlight' : frame'[k].payload # None => frame'[k].payload = i
      BY <1>0, <2>0 DEF TaskFits, Known, AckSteps, Counters, Latest, InFlight
    <3>3. TaskHead(t)'
      BY <3>1 DEF Step, TaskHead, Known
    <3> QED
      BY <2>0, <3>1, <3>2, <3>3, MoveHeads DEF Step
  <2> QED
    BY <2>1, <2>2
<1>11. CASE AckSaveSession(t)
  BY <1>0, <1>3, <1>11, AckSaveEffect DEF Busy
<1>12. CASE Abort(t)
  BY <1>0, <1>3, <1>12, Goes DEF Abort
<1> QED
  BY <1>4, <1>5, <1>6, <1>8, <1>9, <1>10, <1>11, <1>12

LEMMA CalmOwed ==
  ASSUME Flows, Owed, Calm, device' = device \/ device'.item = None
  PROVE  Owed'
<1> USE DEF Flows, Basics, Calm
<1> SUFFICES ASSUME profile.class = "A" PROVE Owed'
  BY DEF Owed
<1>1. device'.item # None =>
        /\ Pending' \subseteq {device'.item}
        /\ \A k \in InFlight' : frame'[k].payload \in {None, device'.item}
  BY DEF Owed, InFlight
<1>2. ASSUME NEW t \in Task PROVE TaskOwed(t)'
  <2>1. pc[t] = "xmitAns" => sent \in FrameId /\ profile.roaming
    BY DEF Counters, TaskFits, AckSteps, AnswersKnown, AcceptInv, TaskAccepted
  <2>2. pc[t] = "xmitAns" => frame'[sent].payload = frame[sent].payload
    BY <2>1
  <2> QED
    BY <2>2 DEF Owed, TaskOwed
<1> QED
  BY <1>1, <1>2 DEF Owed

LEMMA AcceptOwed ==
  ASSUME Flows, Heads, Owed, NEW k \in FrameId, NEW received \in BOOLEAN,
         GatewayAccepts(k, received), device' # device
  PROVE  Owed'
<1> USE DEF Flows, Basics
<1>0. /\ UNCHANGED <<profile, sent, pc, task, queue>> /\ k = sent /\ k \in InFlight
      /\ device'.item = frame[k].payload /\ frame[k].payload # None
      /\ \A j \in FrameId : frame'[j].payload = frame[j].payload
      /\ InFlight' \subseteq InFlight /\ InFlight \subseteq {k}
  <2>1. /\ UNCHANGED <<profile, sent, pc, task, queue>> /\ k \in InFlight /\ OtherFrames(k)
        /\ device'.item = frame[k].payload /\ frame[k].payload \in Confirmed
        /\ frame'[k].payload = frame[k].payload
    BY AcceptEffect
  <2>2. None \notin Confirmed
    BY Kinds DEF Confirmed, TypeOK, Profile
  <2> QED
    BY <2>1, <2>2 DEF Counters, Latest, OtherFrames, InFlight
<1>1. Pending' = Pending /\ Pending \subseteq {frame[k].payload}
  BY <1>0 DEF Heads, Pending, Queued
<1>2. ASSUME NEW t \in Task PROVE TaskOwed(t)'
  BY <1>0, <1>1 DEF Counters, TaskFits, TaskOwed, AckSteps, FlowSteps, Known
<1> QED
  BY <1>0, <1>1, <1>2 DEF Owed

LEMMA MoveOwed ==
  ASSUME NEW t \in Task, Alone(t), Others(t), UNCHANGED profile,
         profile.class = "A" => /\ device'.item # None =>
                                     /\ Pending' \subseteq {device'.item}
                                     /\ \A k \in InFlight' : frame'[k].payload \in {None, device'.item}
                                /\ TaskOwed(t)'
  PROVE  Owed'
<1>1. ASSUME NEW u \in Task \ {t} PROVE TaskOwed(u)'
  <2>1. pc'[u] = "idle"
    BY DEF Alone, Others
  <2> QED
    BY <2>1 DEF TaskOwed, Known, FlowSteps
<1> QED
  BY <1>1 DEF Owed

LEMMA FlowOwed ==
  ASSUME Flows, Heads, Owed, NEW t \in Task,
         \/ \E must \in BOOLEAN : Uplink(t, must) /\ ~UNCHANGED <<pc, task>>
         \/ SelectDevice(t) \/ UpdateDevice(t) \/ GetPending(t) \/ DeleteAcked(t)
         \/ LoadDevice(t) \/ GetNext(t) \/ Discard(t) \/ UpdateQueueItem(t) \/ SendFrame(t)
  PROVE  Owed'
<1> USE DEF Flows, Basics
<1>0. /\ Busy(t) \/ IsFree(t) => Alone(t)
      /\ MayStart(t) => IsFree(t)
      /\ profile.class = "A" => TaskOwed(t)
  BY ActsAlone DEF MayStart, Owed
<1>1. ASSUME Alone(t), UNCHANGED profile, Ended(t) \/ \E from, to : Step(t, from, to),
             profile.class = "A" => device'.item = None,
             pc'[t] \notin {"update", "pending?", "acked"}
      PROVE  Owed'
  <2>1. profile.class = "A" => TaskOwed(t)'
    BY <1>1 DEF TaskOwed
  <2> QED
    BY <1>1, <2>1, MoveOwed DEF Step, Ended
<1>2. ASSUME Alone(t), UNCHANGED <<profile, device, queue>>, pc[t] \in {"update", "pending?"},
             NEW from, NEW to, Step(t, from, to), task'[t].ackOf = task[t].ackOf
      PROVE  Owed'
  <2>1. Pending' = Pending
    BY <1>2 DEF Pending, Queued
  <2>2. profile.class = "A" => device'.item = None /\ TaskOwed(t)'
    BY <1>0, <1>2, <2>1 DEF TaskOwed, FlowSteps
  <2> QED
    BY <1>2, <2>2, MoveOwed DEF Step
<1>3. pc[t] \in FlowSteps => Alone(t) /\ (profile.class = "A" => device.item = None)
  BY <1>0 DEF Busy, FlowSteps, TaskOwed
<1>4. ASSUME NEW must \in BOOLEAN, Uplink(t, must), ~UNCHANGED <<pc, task>> PROVE Owed'
  <2>1. /\ Alone(t) /\ Step(t, "idle", "update") /\ task'[t].ackOf = device.item
        /\ device'.item = None /\ UNCHANGED <<profile, queue>>
    BY <1>0, <1>4, UplinkEffect DEF NoAck
  <2>2. Pending' = Pending
    BY <2>1 DEF Pending, Queued
  <2>3. profile.class = "A" => TaskOwed(t)'
    BY <2>1, <2>2 DEF TaskOwed, Owed, Step, Known
  <2> QED
    BY <2>1, <2>3, MoveOwed DEF Step
<1>5. CASE SelectDevice(t)
  <2>1. Alone(t) /\ Step(t, "idle", "load") /\ profile.class # "A" /\ UNCHANGED profile
    BY <1>0, <1>5, SelectEffect
  <2> QED
    BY <2>1, MoveOwed DEF Step
<1>6. CASE UpdateDevice(t)
  <2>1. pc[t] = "update" /\ UNCHANGED <<profile, device, queue, task>>
    BY <1>6, UpdateEffect DEF Step
  <2> QED
    BY <1>2, <1>3, <1>6, <2>1, UpdateEffect DEF FlowSteps
<1>7. CASE GetPending(t)
  <2>1. pc[t] = "pending?" /\ UNCHANGED <<profile, device, queue>>
    BY <1>7, PendingEffect DEF Step
  <2> QED
    BY <1>2, <1>3, <1>7, <2>1, PendingEffect DEF FlowSteps
<1>8. CASE DeleteAcked(t)
  <2>1. /\ pc[t] = "acked" /\ UNCHANGED <<profile, device>>
        /\ Step(t, "acked", "next") \/ Ended(t)
    BY <1>8, DeleteAckedEffect
  <2> QED
    BY <1>1, <1>3, <2>1 DEF FlowSteps, Step, Ended
<1>9. CASE LoadDevice(t)
  <2>1. /\ pc[t] = "load" /\ UNCHANGED <<profile, device>>
        /\ Step(t, "load", "next") \/ Ended(t)
    BY <1>9, LoadEffect
  <2> QED
    BY <1>1, <1>3, <2>1 DEF FlowSteps, Step, Ended
<1>10. CASE GetNext(t)
  <2>1. /\ pc[t] = "next" /\ UNCHANGED <<profile, device>>
        /\ Ended(t) \/ \E to \in {"send", "putItem", "discard"} : Step(t, "next", to)
    BY <1>10, NextEffect
  <2> QED
    BY <1>1, <1>3, <2>1 DEF FlowSteps, Step, Ended
<1>11. CASE Discard(t)
  <2>1. /\ pc[t] = "discard" /\ UNCHANGED <<profile, device>>
        /\ Step(t, "discard", "next") \/ Ended(t)
    BY <1>11, DiscardEffect
  <2> QED
    BY <1>1, <1>3, <2>1 DEF FlowSteps, Step, Ended
<1>12. CASE UpdateQueueItem(t)
  <2>1. /\ pc[t] = "putItem" /\ UNCHANGED <<profile, device>>
        /\ Step(t, "putItem", "send") \/ Ended(t)
    BY <1>12, PutEffect
  <2> QED
    BY <1>1, <1>3, <2>1 DEF FlowSteps, Step, Ended
<1>13. CASE SendFrame(t)
  <2>1. /\ pc[t] = "send" /\ UNCHANGED <<profile, device>>
        /\ Step(t, "send", "xmitAns") \/ Ended(t)
    BY <1>13, SendEffect
  <2> QED
    BY <1>1, <1>3, <2>1 DEF FlowSteps, Step, Ended
<1> QED
  BY <1>4, <1>5, <1>6, <1>7, <1>8, <1>9, <1>10, <1>11, <1>12, <1>13

LEMMA AckOwed ==
  ASSUME Flows, Heads, Owed, NEW t \in Task,
         \/ XmitDataAns(t)
         \/ \E k \in FrameId : TxAck(t, k) /\ ~UNCHANGED <<pc, task>>
         \/ AckGetDevice(t) \/ AckGetItem(t) \/ AckPutItem(t) \/ AckSaveSession(t) \/ Abort(t)
  PROVE  Owed'
<1> USE DEF Flows, Basics
<1>0. /\ Busy(t) \/ IsFree(t) => Alone(t)
      /\ profile.class = "A" => TaskOwed(t)
      /\ profile.class = "A" /\ device.item # None =>
           /\ Pending \subseteq {device.item}
           /\ \A k \in InFlight : frame[k].payload \in {None, device.item}
  BY ActsAlone DEF Owed
<1>1. ASSUME Alone(t), UNCHANGED <<profile, device>>, Others(t),
             \A i \in Pending' : i \in Pending \/ (i = task[t].item /\ pc[t] \in Known /\ i # None),
             \A k \in InFlight' : k \in InFlight /\ frame'[k].payload = frame[k].payload,
             profile.class = "A" => TaskOwed(t)'
      PROVE  Owed'
  <2>1. profile.class = "A" /\ device'.item # None => Pending' \subseteq {device'.item}
    BY <1>0, <1>1 DEF TaskOwed
  <2>2. profile.class = "A" /\ device'.item # None =>
          \A k \in InFlight' : frame'[k].payload \in {None, device'.item}
    BY <1>0, <1>1
  <2> QED
    BY <1>1, <2>1, <2>2, MoveOwed
<1>2. UNCHANGED queue => Pending' = Pending
  BY DEF Pending, Queued
<1>3. ASSUME UNCHANGED <<profile, device, queue, frame>>, Ended(t), Alone(t) PROVE Owed'
  <2>1. TaskOwed(t)'
    BY <1>3 DEF Ended, TaskOwed, Known, FlowSteps
  <2> QED
    BY <1>1, <1>2, <1>3, <2>1 DEF Ended, InFlight
<1>4. CASE XmitDataAns(t)
  <2>0. pc[t] = "xmitAns" /\ Alone(t) /\ UNCHANGED <<profile, device, queue>> /\ task[t].id = sent
    BY <1>0, <1>4, XmitEffect DEF Busy, TaskFits, AckSteps, Counters
  <2>1. CASE UNCHANGED frame /\ Ended(t)
    BY <1>3, <2>0, <2>1
  <2>2. CASE ~(UNCHANGED frame /\ Ended(t))
    <3>1. /\ Step(t, "xmitAns", "ackData") /\ task'[t].item = frame[sent].payload
          /\ \A j \in FrameId : /\ frame'[j].payload = frame[j].payload
                                /\ frame'[j].stage = frame[j].stage
      BY <1>4, <2>0, <2>2, XmitEffect
    <3>2. profile.class = "A" => TaskOwed(t)'
      BY <1>0, <2>0, <3>1 DEF Step, TaskOwed, Known, FlowSteps
    <3> QED
      BY <1>1, <1>2, <2>0, <3>1, <3>2 DEF InFlight, Step
  <2> QED
    BY <2>1, <2>2
<1>5. ASSUME NEW k \in FrameId, TxAck(t, k), ~UNCHANGED <<pc, task>> PROVE Owed'
  <2>1. /\ Alone(t) /\ k \in InFlight /\ frame'[k] = Handled /\ OtherFrames(k)
        /\ Step(t, "idle", "ackData") /\ task'[t].item = frame[k].payload
        /\ UNCHANGED <<profile, device, queue>>
    BY <1>0, <1>5, TxAckEffect
  <2>2. profile.class = "A" => TaskOwed(t)'
    BY <1>0, <2>1 DEF Step, TaskOwed, Known, FlowSteps
  <2>3. \A j \in InFlight' : j \in InFlight /\ frame'[j].payload = frame[j].payload
    BY <2>1, Stages DEF InFlight, OtherFrames
  <2> QED
    BY <1>1, <1>2, <2>1, <2>2, <2>3 DEF Step
<1>6. ASSUME NEW from \in Known, NEW to \in Known, Step(t, from, to), task'[t].item = task[t].item,
             UNCHANGED <<profile, device, frame>>,
             \A i \in Pending' : i \in Pending \/ (i = task[t].item /\ i # None)
      PROVE  Owed'
  <2>1. Alone(t) /\ (profile.class = "A" => TaskOwed(t)')
    BY <1>0, <1>6 DEF Step, TaskOwed, Known, FlowSteps, Busy
  <2> QED
    BY <1>1, <1>6, <2>1 DEF InFlight, Step
<1>7. CASE AckGetDevice(t)
  BY <1>2, <1>6, <1>7, AckDeviceEffect DEF Known
<1>8. CASE AckGetItem(t)
  BY <1>0, <1>2, <1>3, <1>6, <1>8, AckItemEffect DEF Known, Busy
<1>9. CASE AckPutItem(t)
  <2>1. CASE UNCHANGED queue /\ Ended(t)
    BY <1>0, <1>3, <1>9, <2>1, AckRowEffect DEF Busy
  <2>2. CASE ~(UNCHANGED queue /\ Ended(t))
    <3>1. /\ Step(t, "ackPut", "ackSave") /\ task' = task /\ UNCHANGED <<profile, device, frame>>
          /\ \A i \in Pending' : i \in Pending \/ (i = task[t].item /\ i # None)
      BY <1>9, <2>2, AckRowEffect, Kinds DEF Deletes
    <3> QED
      BY <1>6, <3>1 DEF Known
  <2> QED
    BY <2>1, <2>2
<1>10. CASE AckSaveSession(t)
  BY <1>0, <1>3, <1>10, AckSaveEffect DEF Busy
<1>11. CASE Abort(t)
  BY <1>0, <1>3, <1>11, Goes DEF Abort
<1> QED
  BY <1>4, <1>5, <1>7, <1>8, <1>9, <1>10, <1>11

(* The rows of the items that were sent keep their counter, and the frames *)
(* on their way their content.                                             *)
CalmRows ==
  /\ UNCHANGED <<session, accepted, counted>>
  /\ device' = device \/ device'.item = None
  /\ \A i \in Queued' \cap Passed : queue'[i].fCnt = queue[i].fCnt
  /\ \A k \in FrameId : frame'[k].stage \in {"sent", "ok", "error"} =>
       /\ k \in InFlight /\ frame'[k].payload = frame[k].payload /\ frame'[k].fCnt = frame[k].fCnt
       /\ frame'[k].stage = "ok" => frame[k].stage = "ok"

LEMMA CalmRowSteps ==
  ASSUME Flows,
         \/ \E c \in FCnt \cup {-1} : Enqueue(c)
         \/ \E is \in SUBSET Item : Flush(is)
         \/ \E i \in Item : TimeoutPasses(i)
         \/ LockEnds \/ AckLost \/ UNCHANGED vars
         \/ \E k \in FrameId : FrameExpires(k) \/ MessageLost(k) \/ GatewayRejects(k)
         \/ \E t \in Task, must \in BOOLEAN : Uplink(t, must) /\ UNCHANGED <<pc, task>>
         \/ \E t \in Task, k \in FrameId : TxAck(t, k) /\ UNCHANGED <<pc, task>>
  PROVE  CalmRows
<1> USE DEF Flows, Basics, CalmRows
<1>0. Queued' \subseteq Item /\ enqueued + 1 \notin Passed /\ NoAck.item = None
  BY DEF Queued, Passed, ItemsPassed, TypeOK, NoAck
<1>1. ASSUME UNCHANGED <<session, accepted, counted, frame>>, device' = device \/ device' = NoAck,
             \A i \in Queued' \cap Passed : queue'[i].fCnt = queue[i].fCnt
      PROVE  CalmRows
  BY <1>0, <1>1 DEF InFlight
<1>2. ASSUME NEW c \in FCnt \cup {-1}, Enqueue(c) PROVE CalmRows
  <2>1. UNCHANGED <<session, accepted, counted, frame, device>> /\ OtherRows(enqueued + 1)
    BY <1>2, EnqueueEffect
  <2> QED
    BY <1>0, <1>1, <2>1 DEF OtherRows
<1>3. ASSUME NEW is \in SUBSET Item, Flush(is) PROVE CalmRows
  BY <1>0, <1>1, <1>3, FlushEffect
<1>4. ASSUME NEW i \in Item, TimeoutPasses(i) PROVE CalmRows
  BY <1>0, <1>1, <1>4, TimeoutEffect
<1>5. CASE LockEnds \/ AckLost \/ UNCHANGED vars
  BY <1>1, <1>5 DEF LockEnds, AckLost, vars
<1>6. ASSUME NEW k \in FrameId, FrameExpires(k) PROVE CalmRows
  BY <1>6, ExpireEffect DEF InFlight
<1>7. ASSUME UNCHANGED <<session, accepted, counted, device, queue>>,
             NEW k \in FrameId, OtherFrames(k), k \in InFlight,
             \/ /\ frame'[k].payload = frame[k].payload /\ frame'[k].fCnt = frame[k].fCnt
                /\ frame'[k].stage # "ok"
             \/ frame'[k] = Handled
      PROVE  CalmRows
  BY <1>7, Stages DEF OtherFrames, InFlight
<1>8. ASSUME NEW k \in FrameId, MessageLost(k) \/ GatewayRejects(k) PROVE CalmRows
  BY <1>7, <1>8, LostEffect
<1>9. ASSUME NEW t \in Task, NEW must \in BOOLEAN, Uplink(t, must) PROVE CalmRows
  BY <1>1, <1>9 DEF Uplink
<1>10. ASSUME NEW t \in Task, NEW k \in FrameId, TxAck(t, k) PROVE CalmRows
  BY <1>7, <1>10, TxAckEffect
<1> QED
  BY <1>2, <1>3, <1>4, <1>5, <1>6, <1>8, <1>9, <1>10

LEMMA CalmNumbers ==
  ASSUME Flows, Numbers, Calm, CalmRows
  PROVE  Numbers'
<1> USE DEF Flows, Basics, Calm, CalmRows
<1> SUFFICES ASSUME profile.v11, ~profile.roaming
             PROVE  /\ OneRecord' /\ FramesNumbered' /\ PendingNumbered' /\ OwedNumbered'
                    /\ \A t \in Task : TaskNumbers(t)'
  BY DEF Numbers
<1>0. OneRecord /\ FramesNumbered /\ PendingNumbered /\ OwedNumbered
      /\ \A t \in Task : TaskNumbers(t)
  BY DEF Numbers
<1>1. /\ \A k \in FrameId : frame[k].payload \in Queued' => frame[k].payload \in Passed
      /\ \A t \in Task : task[t].item \in Queued' => task[t].item \in Passed
  BY Kinds DEF ItemsPassed, Queued
<1>2. OneRecord' /\ PendingNumbered' /\ OwedNumbered'
  BY <1>0 DEF OneRecord, PendingNumbered, OwedNumbered
<1>3. FramesNumbered'
  <2>1. ASSUME NEW k \in InFlight', frame'[k].payload \in Queued'
        PROVE  queue'[frame'[k].payload].fCnt = frame'[k].fCnt
    <3>1. k \in InFlight /\ frame'[k].payload = frame[k].payload /\ frame'[k].fCnt = frame[k].fCnt
      BY DEF InFlight
    <3>2. frame[k].payload \in Queued' \cap Passed /\ frame[k].payload \in Queued
      BY <1>1, <2>1, <3>1 DEF InFlight
    <3> QED
      BY <1>0, <3>1, <3>2 DEF FramesNumbered
  <2> QED
    BY <1>0, <2>1 DEF FramesNumbered
<1>4. ASSUME NEW t \in Task PROVE TaskNumbers(t)'
  <2>1. task[t].item \in Queued' =>
          task[t].item \in Queued /\ queue'[task[t].item].fCnt = queue[task[t].item].fCnt
    BY <1>1
  <2>2. TaskNumbers(t)
    BY <1>0
  <2> QED
    BY <2>1, <2>2 DEF TaskNumbers, AFCntDown, Encrypted
<1> QED
  BY <1>2, <1>3, <1>4

LEMMA AcceptNumbers ==
  ASSUME Flows, Numbers, NEW k \in FrameId, NEW received \in BOOLEAN, GatewayAccepts(k, received)
  PROVE  Numbers'
<1> USE DEF Flows, Basics
<1> SUFFICES ASSUME profile.v11, ~profile.roaming
             PROVE  /\ OneRecord' /\ FramesNumbered' /\ PendingNumbered' /\ OwedNumbered'
                    /\ \A t \in Task : TaskNumbers(t)'
  BY ProfileStays DEF Numbers, Next, GatewayAccepts
<1> DEFINE new == [payload |-> frame[k].payload, fCnt |-> frame[k].fCnt, id |-> k]
<1>0. /\ accepted' = accepted \cup {new} /\ new.payload = frame[k].payload
      /\ new.fCnt = frame[k].fCnt /\ new.id = k
      /\ UNCHANGED <<session, queue, counted, pc, task>>
      /\ frame[k].stage = "sent" /\ k \in InFlight
      /\ \A j \in FrameId : /\ frame'[j].payload = frame[j].payload /\ frame'[j].fCnt = frame[j].fCnt
                            /\ j # k => frame'[j].stage = frame[j].stage
      /\ device' = device \/ (device'.item = new.payload /\ device'.fCnt = new.fCnt)
  BY AcceptEffect DEF OtherFrames
<1> HIDE DEF new
<1>1. OneRecord /\ FramesNumbered /\ PendingNumbered /\ OwedNumbered
  BY DEF Numbers
<1>2. OneRecord'
  <2>1. \A f \in accepted : f.id = k => f.payload = new.payload /\ f.fCnt = new.fCnt
    BY <1>0 DEF Counters, Recorded
  <2> QED
    BY <1>0, <1>1, <2>1 DEF OneRecord
<1>3. FramesNumbered'
  <2>1. InFlight' \subseteq InFlight /\ Queued' = Queued
    BY <1>0 DEF InFlight, Queued
  <2>2. \A j \in FrameId : frame'[j].stage = "ok" => \E f \in accepted' : f.id = j
    BY <1>0, <1>1 DEF FramesNumbered
  <2> QED
    BY <1>0, <1>1, <2>1, <2>2 DEF FramesNumbered, InFlight
<1>4. PendingNumbered' /\ OwedNumbered'
  BY <1>0, <1>1 DEF PendingNumbered, OwedNumbered, Pending, Queued
<1>5. ASSUME NEW t \in Task PROVE TaskNumbers(t)'
  <2>1. pc'[t] \notin FlowSteps \cup AckSteps
    BY <1>0 DEF Counters, TaskFits
  <2> QED
    BY <2>1 DEF TaskNumbers, FlowSteps, AckSteps, Known
<1> QED
  BY <1>2, <1>3, <1>4, <1>5

LEMMA MoveNumbers ==
  ASSUME NEW t \in Task, Alone(t), Others(t), UNCHANGED profile,
         profile.v11 /\ ~profile.roaming =>
           OneRecord' /\ FramesNumbered' /\ PendingNumbered' /\ OwedNumbered' /\ TaskNumbers(t)'
  PROVE  Numbers'
<1>1. ASSUME NEW u \in Task \ {t} PROVE TaskNumbers(u)'
  <2>1. pc'[u] = "idle"
    BY DEF Alone, Others
  <2> QED
    BY <2>1 DEF TaskNumbers, Known
<1> QED
  BY <1>1 DEF Numbers

LEMMA FlowNumbers ==
  ASSUME Flows, Numbers, NEW t \in Task,
         \/ \E must \in BOOLEAN : Uplink(t, must) /\ ~UNCHANGED <<pc, task>>
         \/ SelectDevice(t) \/ UpdateDevice(t) \/ GetPending(t) \/ DeleteAcked(t)
         \/ LoadDevice(t) \/ GetNext(t) \/ Discard(t) \/ UpdateQueueItem(t)
  PROVE  Numbers'
<1> USE DEF Flows, Basics
<1>0. /\ Busy(t) \/ IsFree(t) => Alone(t)
      /\ MayStart(t) => IsFree(t) /\ InFlight = {}
      /\ pc[t] \in FlowSteps => InFlight = {} /\ Alone(t)
      /\ pc[t] \in FlowSteps /\ pc[t] # "load" => task[t].snap = session
  BY ActsAlone DEF MayStart, Counters, TaskFits, FlowSteps, SnapSteps, Busy
<1>1. ASSUME Alone(t), Others(t), InFlight = {}, UNCHANGED <<profile, session, frame, accepted, counted>>,
             device' = device \/ device'.item = None, Pending' \subseteq Pending,
             profile.v11 /\ ~profile.roaming => TaskNumbers(t)'
      PROVE  Numbers'
  <2>1. ASSUME profile.v11, ~profile.roaming
        PROVE  OneRecord' /\ FramesNumbered' /\ PendingNumbered' /\ OwedNumbered'
    <3>1. OneRecord /\ FramesNumbered /\ PendingNumbered /\ OwedNumbered
      BY <2>1 DEF Numbers
    <3> QED
      BY <1>1, <3>1 DEF OneRecord, FramesNumbered, PendingNumbered, OwedNumbered, InFlight
  <2> QED
    BY <1>1, <2>1, MoveNumbers
<1>2. ASSUME Ended(t) \/ \E from : \E to \in {"load", "next", "discard"} : Step(t, from, to)
      PROVE  TaskNumbers(t)' /\ Others(t)
  BY <1>2 DEF Ended, Step, TaskNumbers, Known
<1>3. UNCHANGED queue => Pending' = Pending /\ Queued' = Queued
  BY DEF Pending, Queued
<1>4. ASSUME NEW must \in BOOLEAN, Uplink(t, must), ~UNCHANGED <<pc, task>> PROVE Numbers'
  <2>1. /\ Alone(t) /\ InFlight = {} /\ Step(t, "idle", "update") /\ task'[t].ackOf = device.item
        /\ device'.item = None /\ UNCHANGED <<profile, queue, session, frame, accepted, counted>>
        /\ profile.v11 /\ device # NoAck => session.conf = device.fCnt
    BY <1>0, <1>4, UplinkEffect DEF NoAck
  <2>2. device.item # None => device # NoAck
    BY DEF NoAck
  <2>3. profile.v11 /\ ~profile.roaming => TaskNumbers(t)'
    BY <2>1, <2>2 DEF TaskNumbers, Numbers, OwedNumbered, Step, Known
  <2> QED
    BY <1>1, <1>3, <2>1, <2>3 DEF Step
<1>5. CASE SelectDevice(t)
  BY <1>0, <1>1, <1>2, <1>3, <1>5, SelectEffect
<1>6. CASE UpdateDevice(t)
  <2>1. /\ Step(t, "update", "next") \/ Step(t, "update", "pending?")
        /\ UNCHANGED <<profile, queue, device, session, frame, accepted, counted, task>>
    BY <1>0, <1>6, UpdateEffect DEF FlowSteps, Step
  <2>2. profile.v11 /\ ~profile.roaming => TaskNumbers(t)'
    BY <2>1 DEF TaskNumbers, Numbers, Step, Known
  <2> QED
    BY <1>0, <1>1, <1>3, <2>1, <2>2 DEF Step, FlowSteps
<1>7. CASE GetPending(t)
  <2>1. /\ Step(t, "pending?", "next") \/ Step(t, "pending?", "acked")
        /\ UNCHANGED <<profile, queue, device, session, frame, accepted, counted>>
        /\ task'[t].ackOf = task[t].ackOf
    BY <1>7, PendingEffect
  <2>2. profile.v11 /\ ~profile.roaming => TaskNumbers(t)'
    BY <2>1 DEF TaskNumbers, Numbers, Step, Known
  <2> QED
    BY <1>0, <1>1, <1>3, <2>1, <2>2 DEF Step, FlowSteps
<1>8. CASE DeleteAcked(t)
  <2>1. /\ pc[t] = "acked" /\ (Step(t, "acked", "next") \/ Ended(t))
        /\ Pending' \subseteq Pending
        /\ UNCHANGED <<profile, device, session, frame, accepted, counted>>
    BY <1>3, <1>8, DeleteAckedEffect DEF Deletes
  <2>2. pc[t] = "acked"
    BY <1>8, DeleteAckedEffect
  <2> QED
    BY <1>0, <1>1, <1>2, <2>1, <2>2 DEF FlowSteps
<1>9. CASE LoadDevice(t)
  <2>1. /\ Step(t, "load", "next") \/ Ended(t)
        /\ UNCHANGED <<profile, queue, device, session, frame, accepted, counted>>
    BY <1>9, LoadEffect
  <2>2. pc[t] = "load"
    BY <1>9, LoadEffect
  <2> QED
    BY <1>0, <1>1, <1>2, <1>3, <2>1, <2>2 DEF FlowSteps
<1>10. CASE GetNext(t)
  <2>0. /\ pc[t] = "next" /\ InFlight = {} /\ Alone(t) /\ Pending' = Pending
        /\ UNCHANGED <<profile, queue, device, session, frame, accepted, counted>>
    BY <1>0, <1>3, <1>10, NextEffect DEF FlowSteps
  <2>1. CASE Step(t, "next", "send") /\ task'[t] = task[t]
    <3>1. task'[t].item = None /\ None \notin Queued'
      BY <2>0, <2>1, Kinds DEF ItemFree, Queued
    <3>2. TaskNumbers(t)'
      BY <2>1, <3>1 DEF TaskNumbers, Step, Known
    <3> QED
      BY <1>1, <2>0, <2>1, <3>2 DEF Step
  <2>2. CASE /\ Step(t, "next", "putItem")
             /\ task'[t].item = Oldest /\ task'[t].copy = queue[Oldest]
    <3>1. TaskNumbers(t)'
      BY <2>0, <2>2 DEF TaskNumbers, Step, Known
    <3> QED
      BY <1>1, <2>0, <2>2, <3>1 DEF Step
  <2> QED
    BY <1>1, <1>2, <1>10, <2>0, <2>1, <2>2, NextEffect
<1>11. CASE Discard(t)
  <2>1. /\ Step(t, "discard", "next") \/ Ended(t)
        /\ Pending' \subseteq Pending
        /\ UNCHANGED <<profile, device, session, frame, accepted, counted>>
    BY <1>3, <1>11, DiscardEffect DEF Deletes
  <2>2. pc[t] = "discard"
    BY <1>11, DiscardEffect
  <2> QED
    BY <1>0, <1>1, <1>2, <2>1, <2>2 DEF FlowSteps
<1>12. CASE UpdateQueueItem(t)
  <2> DEFINE i == task[t].item
  <2>0. /\ pc[t] = "putItem" /\ InFlight = {} /\ Alone(t) /\ task[t].snap = session
        /\ UNCHANGED <<profile, device, session, frame, accepted, counted>>
    BY <1>0, <1>12, PutEffect DEF FlowSteps
  <2>1. CASE i \in Encrypted /\ Step(t, "putItem", "send") /\ UNCHANGED <<queue, task>>
    <3>1. profile.v11 /\ ~profile.roaming => TaskNumbers(t)'
      BY <1>3, <2>0, <2>1 DEF TaskNumbers, Numbers, Step, Known, Encrypted
    <3> QED
      BY <1>1, <1>3, <2>0, <2>1, <3>1 DEF Step
  <2>2. CASE /\ i \notin Encrypted /\ Step(t, "putItem", "send") /\ UNCHANGED task
             /\ queue'[i].fCnt = AFCntDown(task[t].snap)
             /\ Pending' = (Pending \ {i}) \cup (IF task[t].copy.pending THEN {i} ELSE {})
    <3>1. TaskNumbers(t)'
      BY <2>0, <2>2 DEF TaskNumbers, Step, Known, Encrypted, AFCntDown
    <3>2. Pending' \subseteq Pending
      BY <2>0, <2>2 DEF AcceptInv, TaskAccepted
    <3> QED
      BY <1>1, <2>0, <2>2, <3>1, <3>2 DEF Step
  <2>3. CASE Ended(t) /\ UNCHANGED queue
    BY <1>1, <1>2, <1>3, <2>0, <2>3
  <2> QED
    BY <1>12, <2>1, <2>2, <2>3, PutEffect
<1> QED
  BY <1>4, <1>5, <1>6, <1>7, <1>8, <1>9, <1>10, <1>11, <1>12

LEMMA SendNumbers ==
  ASSUME Flows, Numbers, NEW t \in Task, SendFrame(t)
  PROVE  Numbers'
<1> USE DEF Flows, Basics
<1> DEFINE i == task[t].item
           k == sent + 1
<1>0. /\ pc[t] = "send" /\ InFlight = {} /\ Alone(t) /\ task[t].snap = session /\ session' = session
      /\ UNCHANGED <<profile, queue, device, accepted, counted>>
  <2>1. pc[t] = "send" /\ UNCHANGED <<profile, queue, device, accepted, counted>>
    BY SendEffect
  <2>2. InFlight = {} /\ task[t].snap = session /\ Alone(t)
    BY <2>1, ActsAlone DEF Counters, TaskFits, FlowSteps, SnapSteps, Busy
  <2> QED
    BY <2>1, <2>2, SendEffect
<1> SUFFICES ASSUME profile.v11, ~profile.roaming
             PROVE  /\ Others(t) /\ TaskNumbers(t)'
                    /\ OneRecord' /\ FramesNumbered' /\ PendingNumbered' /\ OwedNumbered'
  BY <1>0, SendEffect, MoveNumbers DEF Step, Ended
<1>1. Others(t) /\ TaskNumbers(t)'
  BY SendEffect DEF Ended, TaskNumbers, Known
<1>2. OneRecord' /\ PendingNumbered' /\ OwedNumbered'
  BY <1>0 DEF Numbers, OneRecord, PendingNumbered, OwedNumbered, Pending, Queued
<1>3. FramesNumbered'
  <2>1. CASE UNCHANGED frame
    BY <1>0, <2>1 DEF FramesNumbered, InFlight
  <2>2. CASE ~UNCHANGED frame
    <3>1. /\ OtherFrames(k) /\ frame'[k].stage = "sent" /\ frame'[k].payload \in {i, None}
          /\ frame'[k].aFCnt = IF i \in Encrypted THEN task[t].copy.fCnt ELSE AFCntDown(session)
          /\ frame'[k].payload # None => frame'[k].fCnt = frame'[k].aFCnt
      BY <1>0, <2>2, SendEffect
    <3>2. InFlight' \subseteq {k} /\ Queued' = Queued /\ None \notin Queued
      BY <1>0, <3>1, Kinds DEF InFlight, OtherFrames, Queued
    <3>3. ASSUME frame'[k].payload \in Queued PROVE queue[frame'[k].payload].fCnt = frame'[k].fCnt
      <4>1. frame'[k].payload = i /\ i \in Queued /\ i # None
        BY <3>1, <3>2, <3>3
      <4>2. TaskNumbers(t)
        BY DEF Numbers
      <4> QED
        BY <1>0, <3>1, <4>1, <4>2 DEF TaskNumbers
    <3>4. \A j \in FrameId : frame'[j].stage # "ok"
      BY <1>0, <3>1 DEF InFlight, OtherFrames
    <3> QED
      BY <1>0, <3>2, <3>3, <3>4 DEF FramesNumbered
  <2> QED
    BY <2>1, <2>2
<1> QED
  BY <1>1, <1>2, <1>3

LEMMA AckNumbers ==
  ASSUME Flows, Heads, Numbers, NEW t \in Task,
         \/ XmitDataAns(t)
         \/ \E k \in FrameId : TxAck(t, k) /\ ~UNCHANGED <<pc, task>>
         \/ AckGetDevice(t) \/ AckGetItem(t) \/ AckPutItem(t) \/ AckSaveSession(t) \/ Abort(t)
  PROVE  Numbers'
<1> USE DEF Flows, Basics
<1> SUFFICES ASSUME profile.v11, ~profile.roaming PROVE Numbers'
  <2>1. UNCHANGED profile
    BY DEF XmitDataAns, TxAck, AckGetDevice, AckGetItem, AckPutItem, AckSaveSession, Abort
  <2> QED
    BY <2>1 DEF Numbers
<1> DEFINE i == task[t].item
<1>0. /\ Busy(t) \/ IsFree(t) => Alone(t)
      /\ OneRecord /\ FramesNumbered /\ PendingNumbered /\ OwedNumbered /\ TaskNumbers(t)
      /\ TaskFits(t) /\ TaskHead(t) /\ Pending \subseteq Confirmed
  BY ActsAlone DEF Numbers, Counters, Heads
<1>1. ASSUME Alone(t), Others(t), UNCHANGED <<profile, queue, device, session, accepted, counted>>,
             \A k \in InFlight' : /\ k \in InFlight /\ frame'[k].payload = frame[k].payload
                                  /\ frame'[k].fCnt = frame[k].fCnt /\ frame'[k].stage = frame[k].stage,
             TaskNumbers(t)'
      PROVE  Numbers'
  <2>1. OneRecord' /\ PendingNumbered' /\ OwedNumbered'
    BY <1>0, <1>1 DEF OneRecord, PendingNumbered, OwedNumbered, Pending, Queued
  <2>2. FramesNumbered'
    BY <1>0, <1>1 DEF FramesNumbered, InFlight, Queued
  <2> QED
    BY <1>1, <2>1, <2>2, MoveNumbers
<1>2. ASSUME Alone(t), Ended(t), UNCHANGED <<profile, queue, device, session, accepted, counted, frame>>
      PROVE  Numbers'
  <2>1. TaskNumbers(t)'
    BY <1>2 DEF Ended, TaskNumbers, Known
  <2> QED
    BY <1>1, <1>2, <2>1 DEF Ended, InFlight
<1>3. CASE XmitDataAns(t)
  <2>1. pc[t] = "xmitAns"
    BY <1>3, XmitEffect
  <2> QED
    BY <2>1 DEF AcceptInv, TaskAccepted
<1>4. ASSUME NEW k \in FrameId, TxAck(t, k), ~UNCHANGED <<pc, task>> PROVE Numbers'
  <2>1. /\ Alone(t) /\ k \in InFlight /\ frame'[k] = Handled /\ OtherFrames(k)
        /\ Step(t, "idle", "ackData") /\ frame[k].stage = "ok"
        /\ task'[t].item = frame[k].payload /\ task'[t].aFCnt = frame[k].aFCnt
        /\ UNCHANGED <<profile, queue, device, session, accepted, counted, sent>>
    BY <1>0, <1>4, TxAckEffect
  <2>2. k = sent /\ InFlight' = {}
    BY <2>1, Stages DEF Counters, Latest, InFlight, OtherFrames
  <2>3. TaskNumbers(t)'
    <3>1. frame[k].payload \in Queued => queue[frame[k].payload].fCnt = frame[k].aFCnt
      BY <1>0, <2>1, Kinds DEF FramesNumbered, FrameFCnt, Queued
    <3>2. \E f \in accepted : f.id = sent
      BY <1>0, <2>1, <2>2 DEF FramesNumbered
    <3> QED
      BY <2>1, <3>1, <3>2 DEF TaskNumbers, Step, Known, Queued
  <2> QED
    BY <1>1, <2>1, <2>2, <2>3 DEF Step
<1>5. CASE AckGetDevice(t)
  <2>1. /\ Step(t, "ackData", IF i = None THEN "ackSave" ELSE "ackItem")
        /\ task'[t].item = i /\ task'[t].aFCnt = task[t].aFCnt
        /\ UNCHANGED <<profile, queue, device, session, accepted, counted, frame, sent>>
    BY <1>5, AckDeviceEffect
  <2>2. TaskNumbers(t)'
    BY <1>0, <2>1 DEF TaskNumbers, Step, Known, Queued
  <2> QED
    BY <1>0, <1>1, <2>1, <2>2 DEF Step, Busy, InFlight
<1>6. CASE AckGetItem(t)
  <2>0. pc[t] = "ackItem" /\ Alone(t)
    BY <1>0, <1>6, AckItemEffect DEF Busy
  <2>1. CASE Ended(t)
    BY <1>2, <1>6, <2>0, <2>1, AckItemEffect
  <2>2. CASE ~Ended(t)
    <3>1. /\ Step(t, "ackItem", "ackPut") /\ i \in Queued
          /\ task'[t].item = i /\ task'[t].aFCnt = task[t].aFCnt /\ task'[t].copy = queue[i]
          /\ UNCHANGED <<profile, queue, device, session, accepted, counted, frame, sent>>
      BY <1>6, <2>2, AckItemEffect
    <3>2. TaskNumbers(t)'
      BY <1>0, <3>1 DEF TaskNumbers, Step, Known, Queued
    <3> QED
      BY <1>1, <2>0, <3>1, <3>2 DEF Step, InFlight
  <2> QED
    BY <2>1, <2>2
<1>7. CASE Abort(t)
  BY <1>0, <1>2, <1>7, Goes DEF Abort
<1>8. CASE AckPutItem(t)
  <2>0. /\ pc[t] = "ackPut" /\ Alone(t) /\ i \in Item /\ i # None /\ InFlight = {}
        /\ UNCHANGED <<profile, device, session, accepted, counted, frame, sent>>
    BY <1>0, <1>8, AckRowEffect, Kinds DEF Busy, TaskFits, AckSteps, Known
  <2>1. CASE UNCHANGED queue /\ Ended(t)
    BY <1>2, <2>0, <2>1
  <2>2. CASE ~(UNCHANGED queue /\ Ended(t))
    <3>1. /\ Step(t, "ackPut", "ackSave") /\ task' = task
          /\ Pending' \subseteq Pending \cup {i}
          /\ i \in Queued' => queue'[i].fCnt = task[t].copy.fCnt
      BY <1>8, <2>2, AckRowEffect DEF Deletes
    <3>2. TaskNumbers(t)'
      BY <1>0, <2>0, <3>1 DEF TaskNumbers, Step, Known
    <3>3. \E f \in accepted : f.payload = i /\ f.id \notin counted
      BY <1>0, <2>0 DEF TaskNumbers, TaskFits, Known, AckSteps
    <3>4. OneRecord' /\ PendingNumbered' /\ OwedNumbered' /\ FramesNumbered'
      BY <1>0, <2>0, <3>1, <3>3
         DEF OneRecord, PendingNumbered, OwedNumbered, FramesNumbered, InFlight
    <3> QED
      BY <2>0, <3>1, <3>2, <3>4, MoveNumbers DEF Step
  <2> QED
    BY <2>1, <2>2
<1>9. CASE AckSaveSession(t)
  <2>0. /\ pc[t] = "ackSave" /\ Alone(t) /\ InFlight = {} /\ Ended(t)
        /\ task[t].snap = session /\ task[t].id = sent /\ sent \notin counted
        /\ UNCHANGED <<profile, device, accepted, frame, queue>>
        /\ counted' = counted \cup {sent}
        /\ session'.conf = IF i \in Confirmed THEN task[t].copy.fCnt ELSE session.conf
    BY <1>0, <1>9, AckSaveEffect DEF Busy, TaskFits, AckSteps, SnapSteps, Known
  <2>1. \A f \in accepted : f.id = sent => f.payload = i /\ (i # None => f.fCnt = task[t].aFCnt)
    BY <1>0, <2>0 DEF TaskFits, Known
  <2>2. None \notin Confirmed /\ None \notin Pending
    BY Kinds DEF Confirmed, TypeOK, Profile, Pending, Queued
  <2>3. ASSUME NEW j \in Pending
        PROVE  \E f \in accepted : f.payload = j /\ (f.id \notin counted' \/ f.fCnt = session'.conf)
    <3>1. CASE i = None
      <4>1. PICK f \in accepted : f.payload = j /\ (f.id \notin counted \/ f.fCnt = session.conf)
        BY <1>0 DEF PendingNumbered
      <4> QED
        BY <2>0, <2>1, <2>2, <3>1, <4>1
    <3>2. CASE i # None
      <4>1. i = j /\ i \in Confirmed
        BY <1>0, <2>0, <3>2 DEF TaskHead, Known
      <4>2. session'.conf = task[t].aFCnt
        BY <1>0, <2>0, <3>2, <4>1 DEF TaskNumbers
      <4> QED
        BY <1>0, <2>0, <2>1, <3>2, <4>1, <4>2 DEF TaskNumbers, Known
    <3> QED
      BY <3>1, <3>2
  <2>4. PendingNumbered'
    BY <2>0, <2>3 DEF PendingNumbered, Pending, Queued
  <2>5. OneRecord' /\ OwedNumbered' /\ FramesNumbered'
    BY <1>0, <2>0 DEF OneRecord, OwedNumbered, FramesNumbered, InFlight
  <2>6. TaskNumbers(t)'
    BY <2>0 DEF Ended, TaskNumbers, Known
  <2> QED
    BY <2>0, <2>4, <2>5, <2>6, MoveNumbers DEF Ended
<1> QED
  BY <1>3, <1>4, <1>5, <1>6, <1>7, <1>8, <1>9

(* What is forgotten stays so: its tx acknowledgement is lost for good.    *)
LEMMA ForgottenStays ==
  ASSUME Flows, ~profile.roaming, [Next]_vars
  PROVE  Forgotten \subseteq Forgotten'
<1> USE DEF Flows, Basics
<1> SUFFICES ASSUME NEW f \in Forgotten PROVE f \in Forgotten'
  OBVIOUS
<1>0. /\ f \in accepted /\ f.id \in FrameId /\ f.id \notin counted /\ f.id \notin InFlight
      /\ f.id # sent + 1
      /\ \A t \in Task : pc[t] \in AckSteps => task[t].id # f.id
  BY CounterTypes DEF Forgotten, Counters, Latest
<1>1. ASSUME f \in accepted', UNCHANGED <<counted, pc, task>>, f.id \notin InFlight'
      PROVE  f \in Forgotten'
  BY <1>0, <1>1 DEF Forgotten
<1>2. UNCHANGED frame => InFlight' = InFlight
  BY DEF InFlight
<1>3. ASSUME NEW t \in Task, UNCHANGED accepted, f.id \notin counted', Others(t),
             f.id \notin InFlight', pc'[t] \in AckSteps => task'[t].id # f.id
      PROVE  f \in Forgotten'
  BY <1>0, <1>3 DEF Forgotten, Others
<1>4. ASSUME NEW t \in Task, UNCHANGED <<accepted, counted>>, Others(t), f.id \notin InFlight',
             pc'[t] \notin AckSteps
      PROVE  f \in Forgotten'
  BY <1>0, <1>3, <1>4
<1>5. ASSUME \/ \E c \in FCnt \cup {-1} : Enqueue(c)
             \/ \E is \in SUBSET Item : Flush(is)
             \/ \E i \in Item : TimeoutPasses(i)
             \/ LockEnds \/ AckLost \/ UNCHANGED vars
      PROVE  f \in Forgotten'
  BY <1>0, <1>1, <1>2, <1>5 DEF Enqueue, Flush, TimeoutPasses, LockEnds, AckLost, vars
<1>6. ASSUME NEW k \in FrameId, FrameExpires(k) \/ MessageLost(k) \/ GatewayRejects(k)
      PROVE  f \in Forgotten'
  <2>1. CASE FrameExpires(k)
    BY <1>0, <1>1, <2>1, ExpireEffect DEF InFlight
  <2>2. CASE MessageLost(k) \/ GatewayRejects(k)
    BY <1>0, <1>1, <2>2, LostEffect DEF InFlight, OtherFrames
  <2> QED
    BY <1>6, <2>1, <2>2
<1>7. ASSUME NEW k \in FrameId, NEW received \in BOOLEAN, GatewayAccepts(k, received)
      PROVE  f \in Forgotten'
  BY <1>0, <1>1, <1>7, AcceptEffect DEF InFlight, OtherFrames
<1>8. ASSUME NEW t \in Task, NEW must \in BOOLEAN, Uplink(t, must) PROVE f \in Forgotten'
  BY <1>0, <1>1, <1>2, <1>4, <1>8, UplinkEffect DEF Step, AckSteps, Known
<1>9. ASSUME NEW t \in Task, SelectDevice(t) PROVE f \in Forgotten'
  BY <1>0, <1>2, <1>4, <1>9, SelectEffect DEF Step, AckSteps, Known
<1>10. ASSUME NEW t \in Task, UpdateDevice(t) \/ GetPending(t) PROVE f \in Forgotten'
  BY <1>0, <1>2, <1>4, <1>10, UpdateEffect, PendingEffect DEF Step, AckSteps, Known
<1>11. ASSUME NEW t \in Task, DeleteAcked(t) \/ Discard(t) PROVE f \in Forgotten'
  BY <1>0, <1>2, <1>4, <1>11, DeleteAckedEffect, DiscardEffect DEF Step, Ended, AckSteps, Known
<1>12. ASSUME NEW t \in Task, LoadDevice(t) \/ GetNext(t) PROVE f \in Forgotten'
  BY <1>0, <1>2, <1>4, <1>12, LoadEffect, NextEffect DEF Step, Ended, AckSteps, Known
<1>13. ASSUME NEW t \in Task, UpdateQueueItem(t) PROVE f \in Forgotten'
  BY <1>0, <1>2, <1>4, <1>13, PutEffect DEF Step, Ended, AckSteps, Known
<1>14. ASSUME NEW t \in Task, SendFrame(t) PROVE f \in Forgotten'
  <2>1. f.id \notin InFlight' /\ Ended(t) /\ UNCHANGED <<accepted, counted>>
    BY <1>0, <1>2, <1>14, SendEffect DEF OtherFrames, InFlight
  <2> QED
    BY <1>4, <2>1 DEF Ended, AckSteps, Known
<1>15. ASSUME NEW t \in Task, XmitDataAns(t) PROVE f \in Forgotten'
  BY <1>15, XmitEffect DEF AcceptInv, TaskAccepted
<1>16. ASSUME NEW t \in Task, NEW k \in FrameId, TxAck(t, k) PROVE f \in Forgotten'
  <2>1. f.id \notin InFlight' /\ k # f.id
    BY <1>0, <1>16, TxAckEffect DEF OtherFrames, InFlight
  <2> QED
    BY <1>0, <1>1, <1>3, <1>16, <2>1, TxAckEffect DEF Step
<1>17. ASSUME NEW t \in Task, AckGetDevice(t) \/ AckGetItem(t) PROVE f \in Forgotten'
  BY <1>0, <1>2, <1>3, <1>4, <1>17, AckDeviceEffect, AckItemEffect DEF Step, Ended, AckSteps, Known
<1>18. ASSUME NEW t \in Task, AckPutItem(t) PROVE f \in Forgotten'
  BY <1>0, <1>2, <1>3, <1>4, <1>18, AckRowEffect DEF Step, Ended, AckSteps, Known
<1>19. ASSUME NEW t \in Task, AckSaveSession(t) PROVE f \in Forgotten'
  <2>1. task[t].id # f.id
    BY <1>0, <1>19, AckSaveEffect DEF AckSteps, Known
  <2> QED
    BY <1>0, <1>2, <1>3, <1>19, <2>1, AckSaveEffect DEF Ended, AckSteps, Known
<1>20. ASSUME NEW t \in Task, Abort(t) PROVE f \in Forgotten'
  <2>1. Ended(t) /\ UNCHANGED <<accepted, counted, frame>>
    BY <1>20, Goes DEF Abort
  <2> QED
    BY <1>0, <1>2, <1>4, <2>1 DEF Ended, AckSteps, Known
<1>21. CASE Next
  BY <1>5, <1>6, <1>7, <1>8, <1>9, <1>10, <1>11, <1>12, <1>13, <1>14, <1>15, <1>16, <1>17, <1>18,
     <1>19, <1>20, <1>21 DEF Next, ServerStep
<1> QED
  BY <1>5, <1>21

(* The item an acknowledgement is taken for is another one: in Class-A     *)
(* never, in LoRaWAN 1.1 one of two frames with one counter is forgotten.  *)
LEMMA ExcusedNext ==
  ASSUME Flows, RoamsInClassA, Truth, [Next]_vars
  PROVE  Excused'
<1> USE DEF Flows, Basics
<1>0. UNCHANGED profile
  BY ProfileStays
<1>1. CASE misacked' = misacked
  BY <1>0, <1>1, ForgottenStays DEF Truth, Excused, RoamsInClassA
<1>2. ASSUME NEW t \in Task, DeleteAcked(t), misacked' # misacked PROVE Excused'
  <2> DEFINE i == task[t].item
             a == task[t].ackOf
  <2>1. /\ pc[t] = "acked" /\ i \in Queued /\ a # i
        /\ TaskHead(t) /\ (profile.class = "A" => TaskOwed(t))
        /\ InFlight = {} /\ Alone(t)
    BY <1>2, ActsAlone, DeleteAckedEffect
       DEF Truth, Heads, Owed, Counters, TaskFits, FlowSteps, Busy
  <2>2. i \in Pending /\ a # None /\ i # None
    BY <2>1, Kinds DEF TaskHead, Queued
  <2>3. profile.class # "A"
    BY <2>1, <2>2 DEF TaskOwed
  <2>4. ASSUME profile.v11 PROVE Forgotten # {}
    <3>1. OneRecord /\ PendingNumbered /\ TaskNumbers(t)
      BY <2>3, <2>4 DEF Truth, Numbers, RoamsInClassA
    <3>2. PICK f \in accepted : f.payload = a /\ f.fCnt = session.conf
      BY <2>1, <2>2, <3>1 DEF TaskNumbers
    <3>3. PICK g \in accepted : g.payload = i /\ (g.id \notin counted \/ g.fCnt = session.conf)
      BY <2>2, <3>1 DEF PendingNumbered
    <3>4. \A h \in accepted : h.id \notin counted => h \in Forgotten
      <4>1. \A u \in Task : pc[u] \notin AckSteps
        BY <2>1 DEF Alone, AckSteps, Known
      <4> QED
        BY <2>1, <4>1 DEF Forgotten
    <3>5. CASE g.id \notin counted
      BY <3>4, <3>5
    <3>6. CASE g.fCnt = session.conf
      <4>1. f.id # g.id /\ f.id \in Nat /\ g.id \in Nat /\ f.fCnt \in Nat
        BY <2>1, <3>1, <3>2, <3>3, CounterTypes, Kinds DEF OneRecord
      <4>2. SameCounter(f.payload, g.payload) /\ SameCounter(g.payload, f.payload)
        BY <2>2, <3>2, <3>3 DEF SameCounter
      <4>3. f.id \notin counted \/ g.id \notin counted
        BY <3>2, <3>6, <4>1, <4>2 DEF Counters, CountedBelow
      <4> QED
        BY <3>4, <4>3
    <3> QED
      BY <3>3, <3>5, <3>6
  <2>5. profile.v11 => Forgotten' # {}
    BY <2>3, <2>4, ForgottenStays DEF RoamsInClassA
  <2> QED
    BY <1>0, <2>3, <2>5 DEF Excused
<1> QED
  BY <1>1, <1>2 DEF Next, vars, ServerStep, Enqueue, Flush, TimeoutPasses, LockEnds, FrameExpires,
     MessageLost, GatewayRejects, GatewayAccepts, AckLost, Uplink, SelectDevice, TxAck,
     UpdateDevice, GetPending, LoadDevice, GetNext, Discard, UpdateQueueItem, SendFrame,
     XmitDataAns, AckGetDevice, AckGetItem, AckPutItem, AckSaveSession, Abort

(* Steps of the surroundings, among them a start that comes to nothing.    *)
LEMMA CalmTruth ==
  ASSUME Flows, Truth,
         \/ \E c \in FCnt \cup {-1} : Enqueue(c)
         \/ \E is \in SUBSET Item : Flush(is)
         \/ \E i \in Item : TimeoutPasses(i)
         \/ LockEnds \/ AckLost \/ UNCHANGED vars
         \/ \E k \in FrameId : FrameExpires(k) \/ MessageLost(k) \/ GatewayRejects(k)
         \/ \E t \in Task, must \in BOOLEAN : Uplink(t, must) /\ UNCHANGED <<pc, task>>
         \/ \E t \in Task, k \in FrameId : TxAck(t, k) /\ UNCHANGED <<pc, task>>
  PROVE  Heads' /\ Owed' /\ Numbers'
<1>1. Calm
  BY CalmSteps
<1>2. CalmRows
  BY CalmRowSteps
<1> QED
  BY <1>1, <1>2, CalmHeads, CalmOwed, CalmNumbers DEF Truth, CalmRows

LEMMA AcceptTruth ==
  ASSUME Flows, Truth, NEW k \in FrameId, NEW received \in BOOLEAN, GatewayAccepts(k, received)
  PROVE  Heads' /\ Owed' /\ Numbers'
<1>1. Calm
  BY CalmSteps
<1>2. Heads' /\ Numbers'
  BY <1>1, CalmHeads, AcceptNumbers DEF Truth
<1>3. Owed'
  BY <1>1, CalmOwed, AcceptOwed DEF Truth
<1> QED
  BY <1>2, <1>3

LEMMA FlowTruth ==
  ASSUME Flows, Truth, NEW t \in Task,
         \/ \E must \in BOOLEAN : Uplink(t, must) /\ ~UNCHANGED <<pc, task>>
         \/ SelectDevice(t) \/ UpdateDevice(t) \/ GetPending(t) \/ DeleteAcked(t)
         \/ LoadDevice(t) \/ GetNext(t) \/ Discard(t) \/ UpdateQueueItem(t)
  PROVE  Heads' /\ Owed' /\ Numbers'
<1>1. Heads'
  BY FlowHeads DEF Truth
<1>2. Owed'
  BY FlowOwed DEF Truth
<1>3. Numbers'
  BY FlowNumbers DEF Truth
<1> QED
  BY <1>1, <1>2, <1>3

LEMMA AckTruth ==
  ASSUME Flows, Truth, NEW t \in Task,
         \/ SendFrame(t) \/ XmitDataAns(t)
         \/ \E k \in FrameId : TxAck(t, k) /\ ~UNCHANGED <<pc, task>>
         \/ AckGetDevice(t) \/ AckGetItem(t) \/ AckPutItem(t) \/ AckSaveSession(t) \/ Abort(t)
  PROVE  Heads' /\ Owed' /\ Numbers'
<1>1. Heads'
  BY AckHeads DEF Truth
<1>2. Owed'
  BY FlowOwed, AckOwed DEF Truth
<1>3. Numbers'
  BY SendNumbers, AckNumbers DEF Truth
<1> QED
  BY <1>1, <1>2, <1>3

LEMMA TruthNext ==
  Basics /\ AcceptInv /\ OneFlow /\ CountersInv /\ TruthInv /\ [Next]_vars => TruthInv'
<1> SUFFICES ASSUME Basics, AcceptInv, OneFlow, CountersInv, TruthInv, [Next]_vars
             PROVE  TruthInv'
  OBVIOUS
<1>1. UNCHANGED profile /\ RoamsInClassA'
  BY ProfileStays DEF TruthInv, RoamsInClassA
<1> SUFFICES ASSUME Serial PROVE Truth'
  BY <1>1 DEF TruthInv, Serial
<1>2. Flows /\ Truth /\ RoamsInClassA
  BY DEF Flows, CountersInv, TruthInv
<1>3. ASSUME NEW t \in Task, NEW must \in BOOLEAN, Uplink(t, must)
      PROVE  Heads' /\ Owed' /\ Numbers'
  BY <1>2, <1>3, CalmTruth, FlowTruth
<1>4. ASSUME NEW t \in Task, NEW k \in FrameId, TxAck(t, k) PROVE Heads' /\ Owed' /\ Numbers'
  BY <1>2, <1>4, CalmTruth, AckTruth
<1>5. ASSUME NEW t \in Task, ServerStep(t) \/ Abort(t) \/ SelectDevice(t)
      PROVE  Heads' /\ Owed' /\ Numbers'
  BY <1>2, <1>5, FlowTruth, AckTruth DEF ServerStep
<1>6. ASSUME NEW k \in FrameId, NEW received \in BOOLEAN, GatewayAccepts(k, received)
      PROVE  Heads' /\ Owed' /\ Numbers'
  BY <1>2, <1>6, AcceptTruth
<1>7. Heads' /\ Owed' /\ Numbers'
  BY <1>2, <1>3, <1>4, <1>5, <1>6, CalmTruth DEF Next
<1>8. Excused'
  BY <1>2, ExcusedNext
<1> QED
  BY <1>7, <1>8 DEF Truth

LEMMA TruthInit == Init => TruthInv
<1> SUFFICES ASSUME Init PROVE TruthInv
  OBVIOUS
<1>1. RoamsInClassA
  BY DownlinkAssumption DEF Init, RoamsInClassA
<1>2. \A k \in FrameId : frame[k].stage = "none"
  BY Stages DEF Init
<1>3. Queued = {} /\ Pending = {} /\ InFlight = {} /\ accepted = {} /\ device.item = None
  BY <1>2 DEF Init, Queued, Pending, InFlight, NoAck
<1>4. \A t \in Task : TaskHead(t) /\ TaskOwed(t) /\ TaskNumbers(t)
  BY DEF Init, TaskHead, TaskOwed, TaskNumbers, FlowSteps, Known
<1>5. Heads /\ Owed /\ Excused
  BY <1>3, <1>4 DEF Init, Heads, Owed, Excused
<1>6. Numbers
  BY <1>2, <1>3, <1>4 DEF Numbers, OneRecord, FramesNumbered, PendingNumbered, OwedNumbered
<1> QED
  BY <1>1, <1>5, <1>6 DEF TruthInv, Truth

LEMMA TruthSafe == TruthInv => AckEventTruthful
  BY DEF TruthInv, Truth, Excused, Forgotten, AckEventTruthful, MisackImpossible

(* While flows do not overlap, an ack event with acknowledged = true is    *)
(* about the downlink the device acknowledged, in Class-A always and in    *)
(* LoRaWAN 1.1 as long as no tx acknowledgement is missing: for any number *)
(* of items and frames, whatever is lost, rejected, flushed or aborted.    *)
THEOREM AckEventsAreTruthful == Spec => []AckEventTruthful
  BY BasicsInit, BasicsNext, AcceptInit, AcceptNext, OneFlowInit, OneFlowNext,
     CountersInit, CountersNext, TruthInit, TruthNext, TruthSafe, PTL DEF Spec
=============================================================================
