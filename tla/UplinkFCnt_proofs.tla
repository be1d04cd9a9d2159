--------------------------- MODULE UplinkFCnt_proofs ---------------------------
(***************************************************************************)
(* Proofs about UplinkFCnt for any number of handlers, any counter range   *)
(* and any modulus: type correctness, the cause of every double delivery,  *)
(* the recovery of the full counter, and the refinement of InOrderUplink   *)
(* by handlers that do not overlap with those of another frame.            *)
(***************************************************************************)
EXTENDS UplinkFCnt, TLAPS

USE FCntAssumption

-----------------------------------------------------------------------------
(* The local data of a handler stay well-typed when one step changes them. *)
LEMMA NoTaskType == NoTask \in Task
  BY DEF NoTask, Task, Status, Frame

LEMMA NewTaskType ==
  ASSUME NEW r \in Task, NEW c \in Frame, NEW m \in BOOLEAN
  PROVE  [r EXCEPT !.fCnt = c, !.matches = m] \in Task
  BY DEF Task

LEMMA ClassifiedType ==
  ASSUME NEW r \in Task, NEW f \in 0 .. MaxFCnt + 1, NEW s \in Status,
         NEW d \in 0 .. MaxFCnt + 1
  PROVE  [r EXCEPT !.read = f, !.status = s, !.devFCnt = d] \in Task
  BY DEF Task

LEMMA ClaimedType ==
  ASSUME NEW r \in Task, NEW s \in Status, NEW d \in 0 .. MaxFCnt + 1
  PROVE  [r EXCEPT !.status = s, !.devFCnt = d] \in Task
  BY DEF Task

(* Finish ends handler h and disturbs no other one.                        *)
LEMMA FinishEffect ==
  ASSUME TypeOK, NEW h \in Handler, Finish(h)
  PROVE  /\ pc' \in [Handler -> {"idle", "get", "incr", "filter", "event", "update"}]
         /\ task' \in [Handler -> Task]
         /\ pc'[h] = "idle"
         /\ \A g \in Handler \ {h} : pc'[g] = pc[g] /\ task'[g] = task[g]
  BY NoTaskType DEF Finish, TypeOK

(* The data of a handler that a step leaves busy.                          *)
LEMMA ReceiveEffect ==
  ASSUME TypeOK, NEW h \in Handler, NEW c \in Frame, NEW m \in BOOLEAN, Receive(h, c, m)
  PROVE  /\ task' \in [Handler -> Task]
         /\ task'[h].fCnt = c
         /\ \A g \in Handler \ {h} : pc'[g] = pc[g] /\ task'[g] = task[g]
<1>1. [NoTask EXCEPT !.fCnt = c, !.matches = m] \in Task
  BY NoTaskType, NewTaskType
<1>2. task' = [task EXCEPT ![h] = [NoTask EXCEPT !.fCnt = c, !.matches = m]]
  BY DEF Receive
<1>3. [NoTask EXCEPT !.fCnt = c, !.matches = m].fCnt = c
  BY DEF NoTask
<1> QED
  BY <1>1, <1>2, <1>3 DEF Receive, TypeOK

(* What GetDevice can have found: nothing it may use, a new counter, or an *)
(* old one.                                                                *)
LEMMA GetDeviceEffect ==
  ASSUME TypeOK, NEW h \in Handler, GetDevice(h)
  PROVE  /\ \A g \in Handler \ {h} : pc'[g] = pc[g] /\ task'[g] = task[g]
         /\ task' \in [Handler -> Task]
         /\ \/ pc'[h] = "idle"
            \/ pc'[h] = "incr" /\ task'[h].fCnt = task[h].fCnt
            \/ /\ pc'[h] = "filter" /\ task'[h].fCnt = task[h].fCnt
               /\ \/ SkipSession
                  \/ /\ task'[h].status # "ok" /\ task'[h].devFCnt = fCntUp
                     /\ task[h].fCnt < fCntUp
<1> DEFINE New(s, d) == [task[h] EXCEPT !.read = fCntUp, !.status = s, !.devFCnt = d]
           Classified(s, d, next) ==
             /\ task' = [task EXCEPT ![h] = New(s, d)]
             /\ pc' = [pc EXCEPT ![h] = next]
<1>1. task[h] \in Task /\ fCntUp \in 0 .. MaxFCnt + 1
  BY DEF TypeOK
<1>2. \A s \in Status, d \in 0 .. MaxFCnt + 1 :
        /\ New(s, d) \in Task
        /\ New(s, d).fCnt = task[h].fCnt
        /\ New(s, d).status = s
        /\ New(s, d).devFCnt = d
  BY <1>1, ClassifiedType DEF Task
<1>3. \/ Finish(h)
      \/ Classified("none", fCntUp, "incr")
      \/ SkipSession /\ Classified("ok", 0, "filter")
      \/ task[h].fCnt < fCntUp /\ Classified("retransmission", fCntUp, "filter")
      \/ task[h].fCnt < fCntUp /\ Classified("reset", fCntUp, "filter")
  BY <1>1 DEF GetDevice, TypeOK
<1>4. 0 \in 0 .. MaxFCnt + 1
  OBVIOUS
<1> HIDE DEF New
<1>5. CASE Finish(h)
  BY <1>5, FinishEffect
<1>6. CASE Classified("none", fCntUp, "incr")
  BY <1>1, <1>2, <1>6 DEF Status, TypeOK
<1>7. CASE SkipSession /\ Classified("ok", 0, "filter")
  BY <1>2, <1>4, <1>7 DEF Status, TypeOK
<1>8. CASE task[h].fCnt < fCntUp /\ Classified("retransmission", fCntUp, "filter")
  BY <1>1, <1>2, <1>8 DEF Status, TypeOK
<1>9. CASE task[h].fCnt < fCntUp /\ Classified("reset", fCntUp, "filter")
  BY <1>1, <1>2, <1>9 DEF Status, TypeOK
<1> QED
  BY <1>3, <1>5, <1>6, <1>7, <1>8, <1>9

(* IncrFCntUp either wins the counter of its frame or ends the handler.    *)
LEMMA IncrEffect ==
  ASSUME TypeOK, NEW h \in Handler, IncrFCntUp(h)
  PROVE  /\ \A g \in Handler \ {h} : pc'[g] = pc[g] /\ task'[g] = task[g]
         /\ task' \in [Handler -> Task]
         /\ \/ pc'[h] = "idle" /\ fCntUp' = fCntUp
            \/ /\ pc'[h] = "filter"
               /\ fCntUp <= task[h].fCnt /\ fCntUp' = task[h].fCnt + 1
               /\ task'[h].fCnt = task[h].fCnt
               /\ task'[h].status = "ok" /\ task'[h].devFCnt = task[h].fCnt
<1> DEFINE c == task[h].fCnt
           New == [task[h] EXCEPT !.status = "ok", !.devFCnt = c]
<1>1. task[h] \in Task /\ c \in 0 .. MaxFCnt + 1 /\ c \in Frame
  BY DEF TypeOK, Task, Frame
<1>2. New \in Task /\ New.fCnt = c /\ New.status = "ok" /\ New.devFCnt = c
  BY <1>1, ClaimedType DEF Task, Status
<1>3. CASE fCntUp > c /\ UNCHANGED fCntUp /\ Finish(h)
  BY <1>3, FinishEffect
<1>4. CASE /\ fCntUp <= c
           /\ fCntUp' = c + 1
           /\ task' = [task EXCEPT ![h] = New]
           /\ pc' = [pc EXCEPT ![h] = "filter"]
  <2> HIDE DEF New
  <2> QED
    BY <1>2, <1>4 DEF TypeOK
<1> QED
  BY <1>3, <1>4 DEF IncrFCntUp, TypeOK

-----------------------------------------------------------------------------
(* The variables hold values of their types: in particular a handler never *)
(* writes an f_cnt_up outside the counter range back to the device row.    *)
LEMMA TypeInit == Init => TypeOK
  BY NoTaskType DEF Init, TypeOK, Frame

LEMMA TypeNext == TypeOK /\ [Next]_vars => TypeOK'
<1> SUFFICES ASSUME TypeOK, [Next]_vars PROVE TypeOK'
  OBVIOUS
<1>1. ASSUME NEW h \in Handler, NEW c \in Frame, NEW matches \in BOOLEAN,
             Receive(h, c, matches)
      PROVE  TypeOK'
  BY <1>1, ReceiveEffect DEF Receive, TypeOK
<1>2. ASSUME NEW h \in Handler, GetDevice(h)
      PROVE  TypeOK'
  <2>1. pc' \in [Handler -> {"idle", "get", "incr", "filter", "event", "update"}]
    BY <1>2 DEF GetDevice, Finish, TypeOK
  <2> QED
    BY <1>2, <2>1, GetDeviceEffect DEF GetDevice, TypeOK
<1>3. ASSUME NEW h \in Handler, IncrFCntUp(h)
      PROVE  TypeOK'
  <2>1. pc' \in [Handler -> {"idle", "get", "incr", "filter", "event", "update"}]
    BY <1>3 DEF IncrFCntUp, Finish, TypeOK
  <2>2. fCntUp' \in 0 .. MaxFCnt + 1
    BY <1>3 DEF IncrFCntUp, TypeOK, Task, Frame
  <2> QED
    BY <1>3, <2>1, <2>2, IncrEffect DEF IncrFCntUp, TypeOK
<1>4. ASSUME NEW h \in Handler, FilterFails(h)
      PROVE  TypeOK'
  <2>1. fCntUp' \in 0 .. MaxFCnt + 1
    BY <1>4 DEF FilterFails, TypeOK, Task
  <2>2. reopened' \subseteq Frame
    BY <1>4 DEF FilterFails, Reopens, TypeOK
  <2> QED
    BY <1>4, <2>1, <2>2, FinishEffect DEF FilterFails, TypeOK
<1>5. ASSUME NEW h \in Handler, FilterPasses(h)
      PROVE  TypeOK'
  BY <1>5, FinishEffect DEF FilterPasses, TypeOK
<1>6. ASSUME NEW h \in Handler, SendUplinkEvent(h)
      PROVE  TypeOK'
  <2>1. task[h].fCnt \in Frame
    BY DEF TypeOK, Task
  <2> QED
    BY <1>6, <2>1 DEF SendUplinkEvent, TypeOK, Frame
<1>7. ASSUME NEW h \in Handler, UpdateDevice(h)
      PROVE  TypeOK'
  <2>1. task[h].fCnt \in Frame
    BY DEF TypeOK, Task
  <2>2. fCntUp' \in 0 .. MaxFCnt + 1
    BY <1>7, <2>1 DEF UpdateDevice, Frame
  <2>3. reopened' \subseteq Frame
    BY <1>7 DEF UpdateDevice, Reopens, TypeOK
  <2> QED
    BY <1>7, <2>2, <2>3, FinishEffect DEF UpdateDevice, TypeOK
<1>8. ASSUME NEW h \in Handler, Abort(h)
      PROVE  TypeOK'
  BY <1>8, FinishEffect DEF Abort, TypeOK
<1>9. CASE UNCHANGED vars
  BY <1>9 DEF vars, TypeOK
<1> QED
  BY <1>1, <1>2, <1>3, <1>4, <1>5, <1>6, <1>7, <1>8, <1>9 DEF Next, HandlerStep

(* Type correctness of every behaviour.                                    *)
THEOREM TypeCorrect == Spec => []TypeOK
  BY TypeInit, TypeNext, PTL DEF Spec

-----------------------------------------------------------------------------
(* The parts of ClaimInv, for a device whose counter is validated.         *)
ClaimParts ==
  /\ WorkIsValid /\ ClaimedIsPassed /\ DeliveredIsPassed
  /\ ClaimedIsNew /\ ClaimedOnce /\ SentOnce

(* A step that delivers nothing, makes no handler claim a counter and      *)
(* leaves every claimed or delivered counter passed (or reopened) is       *)
(* harmless.                                                               *)
LEMMA NoNewClaim ==
  ASSUME ClaimParts, delivered' = delivered, reopened \subseteq reopened', WorkIsValid',
         \A g \in Handler, d \in Frame : Claims(g, d)' => Claims(g, d),
         \A d \in Frame : Passed(d) =>
           \/ Passed(d)'
           \/ /\ \A g \in Handler : ~Claims(g, d)'
              /\ delivered[d] = 0
  PROVE  ClaimParts'
<1>1. ClaimedIsPassed'
  BY DEF ClaimParts, ClaimedIsPassed
<1>2. DeliveredIsPassed'
  BY DEF ClaimParts, DeliveredIsPassed
<1>3. ClaimedIsNew'
  BY DEF ClaimParts, ClaimedIsNew
<1>4. ClaimedOnce'
  BY DEF ClaimParts, ClaimedOnce
<1>5. SentOnce'
  BY DEF ClaimParts, SentOnce
<1> QED
  BY <1>1, <1>2, <1>3, <1>4, <1>5 DEF ClaimParts

LEMMA ClaimInit == Init => ClaimInv
  BY DEF Init, ClaimInv, WorkIsValid, ClaimedIsPassed, DeliveredIsPassed, ClaimedIsNew,
         ClaimedOnce, SentOnce, Claims

LEMMA ClaimNext ==
  ASSUME TypeOK, TypeOK', StrictFCnt, ClaimParts, [Next]_vars
  PROVE  ClaimParts'
<1>1. ASSUME NEW h \in Handler, NEW c \in Frame, NEW matches \in BOOLEAN,
             Receive(h, c, matches)
      PROVE  ClaimParts'
  <2>1. pc'[h] = "get" /\ UNCHANGED <<fCntUp, delivered, reopened>>
    BY <1>1 DEF Receive, TypeOK
  <2>2. WorkIsValid'
    BY <1>1, <2>1, ReceiveEffect DEF WorkIsValid, ClaimParts
  <2>3. \A g \in Handler, d \in Frame : Claims(g, d)' => Claims(g, d)
    BY <1>1, <2>1, ReceiveEffect DEF Claims
  <2> QED
    BY <2>1, <2>2, <2>3, NoNewClaim DEF Passed
<1>2. ASSUME NEW h \in Handler, GetDevice(h)
      PROVE  ClaimParts'
  <2>1. UNCHANGED <<fCntUp, delivered, reopened>>
    BY <1>2 DEF GetDevice
  <2>2. \/ pc'[h] \in {"idle", "incr"}
        \/ /\ pc'[h] = "filter"
           /\ task'[h].status # "ok" /\ task'[h].devFCnt > task'[h].fCnt
    <3>1. task[h].fCnt \in Int /\ fCntUp \in Int
      BY DEF TypeOK, Task, Frame
    <3> QED
      BY <1>2, <3>1, GetDeviceEffect DEF StrictFCnt
  <2>3. WorkIsValid'
    BY <1>2, <2>2, GetDeviceEffect DEF WorkIsValid, ClaimParts
  <2>4. \A g \in Handler, d \in Frame : Claims(g, d)' => Claims(g, d)
    BY <1>2, <2>2, GetDeviceEffect DEF Claims
  <2> QED
    BY <2>1, <2>3, <2>4, NoNewClaim DEF Passed
<1>3. ASSUME NEW h \in Handler, IncrFCntUp(h)
      PROVE  ClaimParts'
  <2>1. UNCHANGED <<delivered, reopened>>
    BY <1>3 DEF IncrFCntUp
  <2>2. WorkIsValid'
    BY <1>3, IncrEffect DEF WorkIsValid, ClaimParts
  <2>3. CASE pc'[h] = "idle" /\ fCntUp' = fCntUp
    <3>1. \A g \in Handler, d \in Frame : Claims(g, d)' => Claims(g, d)
      BY <1>3, <2>3, IncrEffect DEF Claims
    <3> QED
      BY <2>1, <2>2, <2>3, <3>1, NoNewClaim DEF Passed
  <2>4. CASE /\ pc'[h] = "filter"
             /\ fCntUp <= task[h].fCnt /\ fCntUp' = task[h].fCnt + 1
             /\ task'[h].fCnt = task[h].fCnt
    <3> PICK c \in Frame : c = task[h].fCnt
      BY DEF TypeOK, Task
    <3>1. c \in Int /\ fCntUp \in Int
      BY DEF TypeOK, Frame
    <3>2. \A g \in Handler, d \in Frame :
            Claims(g, d)' => Claims(g, d) \/ (g = h /\ d = c)
      BY <1>3, <2>4, IncrEffect DEF Claims
    <3>3. \A d \in Frame : Passed(d) => Passed(d)'
      BY <2>1, <2>4, <3>1 DEF Passed, Frame
    <3>4. Passed(c)' /\ (Passed(c) => c \in reopened)
      BY <2>4, <3>1 DEF Passed
    <3>5. ClaimedIsPassed'
      BY <3>2, <3>3, <3>4 DEF ClaimParts, ClaimedIsPassed
    <3>6. DeliveredIsPassed'
      BY <2>1, <3>3 DEF ClaimParts, DeliveredIsPassed
    <3>7. ClaimedIsNew'
      BY <2>1, <3>2, <3>4 DEF ClaimParts, ClaimedIsNew, DeliveredIsPassed
    <3>8. ClaimedOnce'
      BY <2>1, <3>2, <3>4 DEF ClaimParts, ClaimedOnce, ClaimedIsPassed
    <3>9. SentOnce'
      BY <2>1 DEF ClaimParts, SentOnce
    <3> QED
      BY <2>2, <3>5, <3>6, <3>7, <3>8, <3>9 DEF ClaimParts
  <2> QED
    BY <1>3, <2>3, <2>4, IncrEffect
<1>4. ASSUME NEW h \in Handler, FilterFails(h)
      PROVE  ClaimParts'
  <2> PICK c \in Frame, back \in 0 .. MaxFCnt + 1 : c = task[h].fCnt /\ back = task[h].devFCnt
    BY DEF TypeOK, Task
  <2>1. fCntUp \in Int /\ c \in Int
    BY DEF TypeOK, Frame
  <2>2. /\ fCntUp' = back /\ delivered' = delivered /\ reopened \subseteq reopened'
        /\ \A d \in Frame : back <= d /\ d < fCntUp /\ d # c => d \in reopened'
    BY <1>4 DEF FilterFails, Reopens
  <2>3. pc[h] = "filter" /\ pc'[h] = "idle"
    BY <1>4, FinishEffect DEF FilterFails
  <2>4. WorkIsValid'
    BY <1>4, <2>3, FinishEffect DEF FilterFails, WorkIsValid, ClaimParts
  <2>5. \A g \in Handler, d \in Frame : Claims(g, d)' => Claims(g, d) /\ g # h
    BY <1>4, <2>3, FinishEffect DEF FilterFails, Claims
  <2>6. \A d \in Frame \ {c} : Passed(d) => Passed(d)'
    BY <2>1, <2>2 DEF Passed, Frame
  <2>7. CASE task[h].status = "ok"
    <3>1. Claims(h, c)
      BY <2>3, <2>7 DEF Claims
    <3>2. \/ c \in reopened
          \/ delivered[c] = 0 /\ \A g \in Handler : ~Claims(g, c)'
      <4>1. delivered[c] > 0 => c \in reopened
        BY <2>1, <3>1 DEF ClaimParts, ClaimedIsNew
      <4>2. delivered[c] \in 0 .. 2
        BY <2>1 DEF TypeOK
      <4>3. ASSUME NEW g \in Handler, Claims(g, c)'
            PROVE  c \in reopened
        BY <2>1, <2>5, <3>1, <4>3 DEF ClaimParts, ClaimedOnce
      <4> QED
        BY <4>1, <4>2, <4>3
    <3>3. \/ Passed(c)'
          \/ delivered[c] = 0 /\ \A g \in Handler : ~Claims(g, c)'
      BY <2>2, <3>2 DEF Passed
    <3> QED
      BY <2>2, <2>4, <2>5, <2>6, <3>3, NoNewClaim
  <2>8. CASE task[h].status # "ok"
    <3>1. Passed(c)'
      BY <2>1, <2>2, <2>3, <2>8 DEF ClaimParts, WorkIsValid, Passed
    <3> QED
      BY <2>2, <2>4, <2>5, <2>6, <3>1, NoNewClaim
  <2> QED
    BY <2>7, <2>8
<1>5. ASSUME NEW h \in Handler, FilterPasses(h)
      PROVE  ClaimParts'
  <2>1. UNCHANGED <<fCntUp, delivered, reopened>> /\ pc[h] = "filter"
    BY <1>5 DEF FilterPasses
  <2>2. CASE task[h].status = "ok" /\ pc' = [pc EXCEPT ![h] = "event"] /\ UNCHANGED task
    <3>1. WorkIsValid'
      BY <2>2 DEF WorkIsValid, ClaimParts, TypeOK
    <3>2. \A g \in Handler, d \in Frame : Claims(g, d)' => Claims(g, d)
      BY <2>1, <2>2 DEF Claims, TypeOK
    <3> QED
      BY <2>1, <3>1, <3>2, NoNewClaim DEF Passed
  <2>3. CASE Finish(h)
    <3>1. WorkIsValid'
      BY <2>3, FinishEffect DEF WorkIsValid, ClaimParts
    <3>2. \A g \in Handler, d \in Frame : Claims(g, d)' => Claims(g, d)
      BY <2>3, FinishEffect DEF Claims
    <3> QED
      BY <2>1, <3>1, <3>2, NoNewClaim DEF Passed
  <2> QED
    BY <1>5, <2>2, <2>3 DEF FilterPasses, StrictFCnt
<1>6. ASSUME NEW h \in Handler, SendUplinkEvent(h)
      PROVE  ClaimParts'
  <2> PICK c \in Frame : c = task[h].fCnt
    BY DEF TypeOK, Task
  <2>2. /\ UNCHANGED <<fCntUp, task, reopened>>
        /\ pc[h] = "event" /\ pc' = [pc EXCEPT ![h] = "update"]
    BY <1>6 DEF SendUplinkEvent
  <2>3. /\ \A d \in Frame \ {c} : delivered'[d] = delivered[d]
        /\ delivered'[c] > 1 => delivered[c] > 0
    BY <1>6 DEF SendUplinkEvent, TypeOK
  <2>4. Claims(h, c)
    BY <2>2 DEF ClaimParts, WorkIsValid, Claims
  <2>5. \A g \in Handler, d \in Frame : Claims(g, d)' => Claims(g, d) /\ g # h
    BY <2>2 DEF Claims, TypeOK
  <2>6. \A d \in Frame : Passed(d)' = Passed(d)
    BY <2>2 DEF Passed
  <2>7. WorkIsValid'
    BY <2>2 DEF WorkIsValid, ClaimParts, TypeOK
  <2>8. ClaimedIsPassed'
    BY <2>5, <2>6 DEF ClaimParts, ClaimedIsPassed
  <2>9. DeliveredIsPassed'
    BY <2>3, <2>4, <2>6 DEF ClaimParts, ClaimedIsPassed, DeliveredIsPassed
  <2>10. ClaimedIsNew'
    BY <2>2, <2>3, <2>4, <2>5 DEF ClaimParts, ClaimedIsNew, ClaimedOnce
  <2>11. ClaimedOnce'
    BY <2>2, <2>5 DEF ClaimParts, ClaimedOnce
  <2>12. SentOnce'
    BY <2>2, <2>3, <2>4 DEF ClaimParts, SentOnce, ClaimedIsNew
  <2> QED
    BY <2>7, <2>8, <2>9, <2>10, <2>11, <2>12 DEF ClaimParts
<1>7. ASSUME NEW h \in Handler, UpdateDevice(h)
      PROVE  ClaimParts'
  <2> PICK c \in Frame : c = task[h].fCnt
    BY DEF TypeOK, Task
  <2>1. c \in Int /\ fCntUp \in Int
    BY DEF TypeOK, Frame
  <2>2. /\ fCntUp' = c + 1 /\ delivered' = delivered /\ reopened \subseteq reopened'
        /\ \A d \in Frame : c + 1 <= d /\ d < fCntUp /\ d # c => d \in reopened'
    BY <1>7 DEF UpdateDevice, Reopens
  <2>3. WorkIsValid'
    BY <1>7, FinishEffect DEF UpdateDevice, WorkIsValid, ClaimParts
  <2>4. \A g \in Handler, d \in Frame : Claims(g, d)' => Claims(g, d)
    BY <1>7, FinishEffect DEF UpdateDevice, Claims
  <2>5. \A d \in Frame : Passed(d) => Passed(d)'
    BY <2>1, <2>2 DEF Passed, Frame
  <2> QED
    BY <2>2, <2>3, <2>4, <2>5, NoNewClaim
<1>8. ASSUME NEW h \in Handler, Abort(h)
      PROVE  ClaimParts'
  <2>1. UNCHANGED <<fCntUp, delivered, reopened>>
    BY <1>8 DEF Abort
  <2>2. WorkIsValid'
    BY <1>8, FinishEffect DEF Abort, WorkIsValid, ClaimParts
  <2>3. \A g \in Handler, d \in Frame : Claims(g, d)' => Claims(g, d)
    BY <1>8, FinishEffect DEF Abort, Claims
  <2> QED
    BY <2>1, <2>2, <2>3, NoNewClaim DEF Passed
<1>9. CASE UNCHANGED vars
  BY <1>9 DEF vars, ClaimParts, WorkIsValid, ClaimedIsPassed, DeliveredIsPassed, ClaimedIsNew,
              ClaimedOnce, SentOnce, Claims, Passed
<1> QED
  BY <1>1, <1>2, <1>3, <1>4, <1>5, <1>6, <1>7, <1>8, <1>9 DEF Next, HandlerStep

(* The strengthened invariant holds in every behaviour.                    *)
THEOREM ClaimsAreSound == Spec => []ClaimInv
<1>1. Init => ClaimInv
  BY ClaimInit
<1>2. TypeOK /\ TypeOK' /\ ClaimInv /\ [Next]_vars => ClaimInv'
  BY ClaimNext DEF ClaimInv, ClaimParts, StrictFCnt
<1> QED
  BY <1>1, <1>2, TypeCorrect, PTL DEF Spec

(* A frame is reported twice only if the handler of another frame moved    *)
(* f_cnt_up back with an unconditional write.                              *)
THEOREM OneEventUnlessReopened == Spec => []RedeliveryNeedsReopen
<1>1. ClaimInv => RedeliveryNeedsReopen
  BY DEF ClaimInv, SentOnce, RedeliveryNeedsReopen
<1> QED
  BY <1>1, ClaimsAreSound, PTL

-----------------------------------------------------------------------------
(* With the widths of the code, the full counter is recovered as long as   *)
(* the device is less than 2^16 - 1 counters ahead of the row.             *)
THEOREM FullFCntRecovered ==
  ASSUME FCntModulus = 65536
  PROVE  Spec => []WindowRecovered
<1>1. ASSUME TypeOK
      PROVE  WindowRecovered
  <2> SUFFICES ASSUME NEW c \in Frame,
                      fCntUp - 1 <= c, c <= fCntUp + 65536 - 2
               PROVE  FullFCntUp(fCntUp, c % 65536) = c
    BY DEF WindowRecovered
  <2>1. c \in Nat /\ fCntUp \in Nat /\ c < U32 /\ U32 \in Nat
    BY <1>1 DEF TypeOK, Frame
  <2>2. c % U32 = c
    BY <2>1
  <2>3. CASE c = fCntUp - 1
    <3>1. c % 65536 = ((fCntUp % 65536) - 1) % 65536
      BY <2>1, <2>3
    <3> QED
      BY <2>2, <2>3, <3>1 DEF FullFCntUp
  <2>4. CASE c # fCntUp - 1
    <3>1. c % 65536 # ((fCntUp % 65536) - 1) % 65536
      BY <2>1, <2>4
    <3>2. fCntUp + (((c % 65536) - (fCntUp % 65536)) % 65536) = c
      BY <2>1, <2>4
    <3> QED
      BY <2>2, <3>1, <3>2 DEF FullFCntUp
  <2> QED
    BY <2>3, <2>4
<1> QED
  BY <1>1, TypeCorrect, PTL

-----------------------------------------------------------------------------
(* The parts of OrderInv.                                                  *)
OrderParts ==
  last < fCntUp /\ OneFrame /\ OneHolder /\ HolderIsNext /\ CopyIsHarmless

LEMMA OrderInit == Init => OrderParts
  BY DEF Init, OrderParts, OneFrame, OneHolder, HolderIsNext, CopyIsHarmless, Busy, Holds

LEMMA OrderNext ==
  ASSUME TypeOK, TypeOK', StrictFCnt, ~Pipelined, OrderParts, [Next]_vars
  PROVE  OrderParts'
<1> USE DEF OrderParts, OneFrame, OneHolder, HolderIsNext, CopyIsHarmless, Busy, Holds
<1>1. ASSUME NEW h \in Handler, NEW c \in Frame, NEW matches \in BOOLEAN,
             Receive(h, c, matches)
      PROVE  OrderParts'
  <2>1. /\ pc[h] = "idle" /\ pc'[h] = "get" /\ UNCHANGED <<fCntUp, last>>
        /\ \A g \in Handler : Busy(g) => task[g].fCnt = c
    BY <1>1 DEF Receive, TypeOK
  <2> QED
    BY <1>1, <2>1, ReceiveEffect
<1>2. ASSUME NEW h \in Handler, GetDevice(h)
      PROVE  OrderParts'
  <2>1. UNCHANGED <<fCntUp, last>> /\ pc[h] = "get"
    BY <1>2 DEF GetDevice
  <2>2. \/ pc'[h] \in {"idle", "incr"}
        \/ /\ pc'[h] = "filter"
           /\ task'[h].status # "ok" /\ task'[h].devFCnt = fCntUp
           /\ \/ fCntUp = task[h].fCnt + 1
              \/ fCntUp > task[h].fCnt + 1
    <3>1. task[h].fCnt \in Int /\ fCntUp \in Int
      BY DEF TypeOK, Task, Frame
    <3> QED
      BY <1>2, <3>1, GetDeviceEffect DEF StrictFCnt
  <2>3. pc'[h] # "idle" => task'[h].fCnt = task[h].fCnt
    BY <1>2, GetDeviceEffect
  <2>4. \A g \in Handler \ {h} : pc'[g] = pc[g] /\ task'[g] = task[g]
    BY <1>2, GetDeviceEffect
  <2> QED
    BY <2>1, <2>2, <2>3, <2>4
<1>3. ASSUME NEW h \in Handler, IncrFCntUp(h)
      PROVE  OrderParts'
  <2>1. UNCHANGED last /\ pc[h] = "incr" /\ last \in Int /\ fCntUp \in Int /\ task[h].fCnt \in Int
    BY <1>3 DEF IncrFCntUp, TypeOK, Task, Frame
  <2>2. CASE pc'[h] = "idle" /\ fCntUp' = fCntUp
    BY <1>3, <2>1, <2>2, IncrEffect
  <2>3. CASE /\ pc'[h] = "filter"
             /\ fCntUp <= task[h].fCnt /\ fCntUp' = task[h].fCnt + 1
             /\ task'[h].fCnt = task[h].fCnt
             /\ task'[h].status = "ok" /\ task'[h].devFCnt = task[h].fCnt
    <3>1. \A g \in Handler \ {h} : pc'[g] = pc[g] /\ task'[g] = task[g]
      BY <1>3, IncrEffect
    <3>2. \A g \in Handler : ~Holds(g)
      BY <2>1, <2>3
    <3> QED
      BY <2>1, <2>3, <3>1, <3>2
  <2> QED
    BY <1>3, <2>2, <2>3, IncrEffect
<1>4. ASSUME NEW h \in Handler, FilterFails(h)
      PROVE  OrderParts'
  <2>1. /\ pc[h] = "filter" /\ pc'[h] = "idle" /\ UNCHANGED last /\ fCntUp' = task[h].devFCnt
        /\ last \in Int /\ fCntUp \in Int /\ task[h].fCnt \in Int
    BY <1>4, FinishEffect DEF FilterFails, TypeOK, Task, Frame
  <2>2. \A g \in Handler \ {h} : pc'[g] = pc[g] /\ task'[g] = task[g]
    BY <1>4, FinishEffect DEF FilterFails
  <2>3. last' < fCntUp'
    BY <2>1
  <2>4. OneFrame' /\ OneHolder'
    BY <2>1, <2>2
  <2>5. HolderIsNext' /\ CopyIsHarmless'
    BY <2>1, <2>2
  <2> QED
    BY <2>3, <2>4, <2>5
<1>5. ASSUME NEW h \in Handler, FilterPasses(h)
      PROVE  OrderParts'
  <2>1. UNCHANGED <<fCntUp, last>> /\ pc[h] = "filter"
    BY <1>5 DEF FilterPasses
  <2>2. CASE Finish(h)
    BY <2>1, <2>2, FinishEffect
  <2>3. CASE task[h].status = "ok" /\ pc' = [pc EXCEPT ![h] = "event"] /\ UNCHANGED task
    BY <2>1, <2>3 DEF TypeOK
  <2> QED
    BY <1>5, <2>2, <2>3 DEF FilterPasses, StrictFCnt
<1>6. ASSUME NEW h \in Handler, SendUplinkEvent(h)
      PROVE  OrderParts'
  <2>1. /\ UNCHANGED <<fCntUp, task>> /\ last' = task[h].fCnt
        /\ pc[h] = "event" /\ pc' = [pc EXCEPT ![h] = "update"]
        /\ fCntUp \in Int /\ task[h].fCnt \in Int
    BY <1>6 DEF SendUplinkEvent, TypeOK, Task, Frame
  <2> QED
    BY <2>1 DEF TypeOK
<1>7. ASSUME NEW h \in Handler, UpdateDevice(h)
      PROVE  OrderParts'
  <2>1. /\ pc[h] = "update" /\ pc'[h] = "idle" /\ UNCHANGED last
        /\ fCntUp' = task[h].fCnt + 1
    BY <1>7, FinishEffect DEF UpdateDevice
  <2>2. \A g \in Handler \ {h} : pc'[g] = pc[g] /\ task'[g] = task[g]
    BY <1>7, FinishEffect DEF UpdateDevice
  <2>3. fCntUp' = fCntUp
    BY <2>1
  <2> QED
    BY <2>1, <2>2, <2>3
<1>8. ASSUME NEW h \in Handler, Abort(h)
      PROVE  OrderParts'
  <2>1. pc'[h] = "idle" /\ UNCHANGED <<fCntUp, last>>
    BY <1>8, FinishEffect DEF Abort
  <2>2. \A g \in Handler \ {h} : pc'[g] = pc[g] /\ task'[g] = task[g]
    BY <1>8, FinishEffect DEF Abort
  <2> QED
    BY <2>1, <2>2
<1>9. CASE UNCHANGED vars
  BY <1>9 DEF vars
<1> QED
  BY <1>1, <1>2, <1>3, <1>4, <1>5, <1>6, <1>7, <1>8, <1>9 DEF Next, HandlerStep

(* Only an uplink event delivers, and it moves last up to its frame.       *)
LEMMA NoneAheadNext ==
  ASSUME TypeOK, OrderParts, NoneAhead, [Next]_vars
  PROVE  NoneAhead'
<1>1. ASSUME NEW h \in Handler, SendUplinkEvent(h)
      PROVE  NoneAhead'
  <2>1. /\ pc[h] = "event" /\ last' = task[h].fCnt
        /\ last \in Int /\ task[h].fCnt \in Int
        /\ \A c \in Frame \ {task[h].fCnt} : delivered'[c] = delivered[c]
    BY <1>1 DEF SendUplinkEvent, TypeOK, Task, Frame
  <2>2. last < task[h].fCnt
    BY <2>1 DEF OrderParts, HolderIsNext, CopyIsHarmless, Holds
  <2>3. Frame \subseteq Int
    BY DEF Frame
  <2> QED
    BY <2>1, <2>2, <2>3 DEF NoneAhead
<1>2. CASE UNCHANGED <<last, delivered>>
  BY <1>2 DEF NoneAhead
<1> QED
  BY <1>1, <1>2 DEF Next, HandlerStep, vars, Receive, GetDevice, IncrFCntUp, FilterFails,
                    FilterPasses, UpdateDevice, Abort

(* While frames are handled one after the other, the handlers at work are   *)
(* about one frame, and one of them at most holds its counter.             *)
THEOREM OneFrameAtATime == Spec => []OrderInv
<1>1. Init => OrderInv
  BY OrderInit DEF OrderInv, OrderParts, NoneAhead, Init
<1>2. TypeOK /\ TypeOK' /\ OrderInv /\ [Next]_vars => OrderInv'
  BY OrderNext, NoneAheadNext DEF OrderInv, OrderParts, StrictFCnt
<1> QED
  BY <1>1, <1>2, TypeCorrect, PTL DEF Spec

(* When the frames of a device are handled one after the other, the uplink *)
(* path implements InOrderUplink.                                          *)
THEOREM SequentialIsInOrder ==
  ASSUME StrictFCnt, ~Pipelined
  PROVE  Spec => RefinesInOrderUplink
<1>1. Init => Abstract!Init
  BY DEF Init, Abstract!Init
<1>2. TypeOK /\ OrderInv /\ [Next]_vars => [Abstract!Next]_(Abstract!vars)
  <2> SUFFICES ASSUME TypeOK, OrderInv, [Next]_vars, ~UNCHANGED <<last, delivered>>
               PROVE  Abstract!Next
    BY DEF Abstract!vars
  <2>1. PICK h \in Handler : SendUplinkEvent(h)
    BY DEF Next, HandlerStep, vars, Receive, GetDevice, IncrFCntUp, FilterFails, FilterPasses,
           UpdateDevice, Abort
  <2>2. /\ pc[h] = "event" /\ last' = task[h].fCnt /\ task[h].fCnt \in Frame
        /\ last \in Int /\ task[h].fCnt \in Int
    BY <2>1 DEF SendUplinkEvent, TypeOK, Task, Frame
  <2>3. last < task[h].fCnt
    BY <2>2 DEF OrderInv, HolderIsNext, CopyIsHarmless, Holds
  <2>4. delivered[task[h].fCnt] = 0
    BY <2>2, <2>3 DEF OrderInv, NoneAhead, TypeOK
  <2>5. delivered' = [delivered EXCEPT ![task[h].fCnt] = 1]
    BY <2>1, <2>4 DEF SendUplinkEvent
  <2> QED
    BY <2>2, <2>3, <2>5 DEF Abstract!Next, Abstract!Deliver
<1> QED
  BY <1>1, <1>2, TypeCorrect, OneFrameAtATime, PTL
     DEF Spec, RefinesInOrderUplink, Abstract!Spec
=============================================================================
