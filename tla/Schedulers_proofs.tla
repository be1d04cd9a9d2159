---------------------------- MODULE Schedulers_proofs ----------------------------
(***************************************************************************)
(* Proofs about the loops of a server, for any number of servers, devices  *)
(* tasks, gateways and frames and any lengths of locks, margins and delays:*)
(* of the inactivity alerts (Alerts), the scheduler lock of a device       *)
(* (DeviceLock) and the queue of a multicast-group (Multicast).            *)
(***************************************************************************)
EXTENDS Schedulers, FiniteSetTheorems, WellFoundedInduction, TLAPS

-----------------------------------------------------------------------------
(* A step of the server is a step of one loop, and none of the others.     *)

LEMMA InitEach == Init => Device!Init /\ Group!Init /\ Alert!Init
  BY DEF Init

LEMMA NextEach ==
  [Next]_vars => /\ [Device!Next]_(Device!vars)
                 /\ [Group!Next]_(Group!vars)
                 /\ [Alert!Next]_(Alert!vars)
<1> SUFFICES ASSUME [Next]_vars
             PROVE  /\ [Device!Next]_(Device!vars)
                    /\ [Group!Next]_(Group!vars)
                    /\ [Alert!Next]_(Alert!vars)
  OBVIOUS
<1> USE DEF deviceVars, groupVars, alertVars, Device!vars, Group!vars, Group!loops, Alert!vars
<1>1. CASE DeviceStep
  BY <1>1 DEF DeviceStep
<1>2. CASE GroupStep
  BY <1>2 DEF GroupStep
<1>3. CASE AlertStep
  BY <1>3 DEF AlertStep
<1>4. CASE UNCHANGED vars
  BY <1>4 DEF vars
<1> QED
  BY <1>1, <1>2, <1>3, <1>4 DEF Next

(* Each loop behaves as if it were alone (scheduler.rs, alert/mod.rs).     *)
THEOREM LoopsAreIndependent == Spec => Device!Spec /\ Group!FairSpec /\ Alert!Spec
<1>1. [][Next]_vars => /\ [][Device!Next]_(Device!vars)
                       /\ [][Group!Next]_(Group!vars)
                       /\ [][Alert!Next]_(Alert!vars)
  BY NextEach, PTL
<1> QED
  BY <1>1, InitEach, PTL DEF Spec, Device!Spec, Group!Spec, Group!FairSpec, Alert!Spec

-----------------------------------------------------------------------------
(* Inactivity alerts: with one server, what the user was told and the      *)
(* stored alert state agree between scans, and the events form a chain.    *)

ScanSteps == {"idle", "record", "tenant", "mail", "insert", "advance"}

LEMMA CandidateTypes == Alert!NoCandidate \in Alert!Candidate /\ Alert!Known \subseteq Alert!State
  BY DEF Alert!NoCandidate, Alert!Candidate, Alert!Known, Alert!State

(* Moving one server to another step, and ending its scan.                 *)
LEMMA GotoStep ==
  ASSUME Alert!TypeOK, NEW r \in Replica, NEW s \in ScanSteps, Alert!Goto(r, s)
  PROVE  /\ pc' \in [Replica -> ScanSteps]
         /\ pc'[r] = s
         /\ \A q \in Replica \ {r} : pc'[q] = pc[q]
  BY DEF Alert!TypeOK, Alert!Goto, ScanSteps

LEMMA FinishStep ==
  ASSUME Alert!TypeOK, NEW r \in Replica, Alert!Finish(r)
  PROVE  /\ pc' \in [Replica -> ScanSteps]
         /\ scan' \in [Replica -> Alert!Candidate]
         /\ pc'[r] = "idle"
         /\ \A q \in Replica \ {r} : pc'[q] = pc[q] /\ scan'[q] = scan[q]
<1>1. Alert!Goto(r, "idle") /\ scan' = [scan EXCEPT ![r] = Alert!NoCandidate]
  BY DEF Alert!Finish
<1> QED
  BY <1>1, GotoStep, CandidateTypes DEF Alert!TypeOK, ScanSteps

(* What the steps of a scan do to pc and scan.                             *)
Moves(r, from, to) ==
  /\ pc[r] \in from /\ pc'[r] \in to
  /\ pc' \in [Replica -> ScanSteps] /\ scan' \in [Replica -> Alert!Candidate]
  /\ \A q \in Replica \ {r} : pc'[q] = pc[q] /\ scan'[q] = scan[q]

LEMMA ScanMoves ==
  ASSUME Alert!TypeOK, NEW r \in Replica, Alert!Scan(r)
  PROVE  /\ Moves(r, {"idle"}, {"record", "tenant"})
         /\ scan'[r] = [previous |-> state, new |-> activity]
         /\ pc'[r] = "record" <=> state = "unknown"
         /\ activity \in Alert!Known /\ state # activity
<1>1. activity \in Alert!Known /\ state \in Alert!State /\ state # activity
  BY DEF Alert!Scan, Alert!TypeOK
<1>2. [previous |-> state, new |-> activity] \in Alert!Candidate
  BY <1>1 DEF Alert!Candidate
<1>3. scan' = [scan EXCEPT ![r] = [previous |-> state, new |-> activity]]
  BY DEF Alert!Scan
<1>4. CASE state = "unknown"
  <2>1. Alert!Goto(r, "record")
    BY <1>4 DEF Alert!Scan
  <2> QED
    BY <1>1, <1>2, <1>3, <1>4, <2>1, GotoStep DEF Alert!Scan, Alert!TypeOK, Moves, ScanSteps
<1>5. CASE state # "unknown"
  <2>1. Alert!Goto(r, "tenant")
    BY <1>5 DEF Alert!Scan
  <2> QED
    BY <1>1, <1>2, <1>3, <1>5, <2>1, GotoStep DEF Alert!Scan, Alert!TypeOK, Moves, ScanSteps
<1> QED
  BY <1>4, <1>5

LEMMA GetTenantMoves ==
  ASSUME Alert!TypeOK, NEW r \in Replica, Alert!GetTenant(r)
  PROVE  /\ Moves(r, {"tenant"}, {"mail", "idle"})
         /\ pc'[r] = "mail" => scan'[r] = scan[r]
<1>1. CASE Alert!Goto(r, "mail") /\ UNCHANGED scan
  BY <1>1, GotoStep DEF Alert!GetTenant, Alert!TypeOK, Moves, ScanSteps
<1>2. CASE Alert!Finish(r)
  BY <1>2, FinishStep DEF Alert!GetTenant, Moves
<1> QED
  BY <1>1, <1>2 DEF Alert!GetTenant

LEMMA SendMoves ==
  ASSUME Alert!TypeOK, NEW r \in Replica, Alert!SendTransitionEmail(r)
  PROVE  Moves(r, {"mail"}, {"insert"}) /\ scan'[r] = scan[r]
  BY GotoStep DEF Alert!SendTransitionEmail, Alert!TypeOK, Moves, ScanSteps

LEMMA InsertMoves ==
  ASSUME Alert!TypeOK, NEW r \in Replica, Alert!InsertEvent(r)
  PROVE  /\ Moves(r, {"insert"}, {"advance", "idle"})
         /\ pc'[r] = "advance" => told' = scan[r].new /\ scan'[r] = scan[r]
         /\ pc'[r] = "idle" => told' = told
<1>1. CASE Alert!Goto(r, "advance") /\ told' = scan[r].new /\ UNCHANGED scan
  BY <1>1, GotoStep DEF Alert!InsertEvent, Alert!TypeOK, Moves, ScanSteps
<1>2. CASE Alert!Finish(r) /\ UNCHANGED told
  BY <1>2, FinishStep DEF Alert!InsertEvent, Moves
<1> QED
  BY <1>1, <1>2 DEF Alert!InsertEvent

LEMMA SetStateMoves ==
  ASSUME Alert!TypeOK, NEW r \in Replica, Alert!SetAlertState(r)
  PROVE  Moves(r, {"record", "advance"}, {"idle"})
  BY FinishStep DEF Alert!SetAlertState, Moves

LEMMA StopMoves ==
  ASSUME Alert!TypeOK, NEW r \in Replica, Alert!Stop(r)
  PROVE  Moves(r, ScanSteps, {"idle"})
  BY FinishStep DEF Alert!Stop, Moves, Alert!TypeOK, ScanSteps

-----------------------------------------------------------------------------
(* The parts of TypeOK.                                                    *)
ScanTypes ==
  \A r \in Replica :
    /\ Alert!Alerting(r) => scan[r].previous \in Alert!Known \ {scan[r].new}
    /\ pc[r] = "record" => scan[r].previous = "unknown"

LEMMA AlertTypeInit == Alert!Init => Alert!TypeOK
  BY CandidateTypes DEF Alert!Init, Alert!TypeOK, Alert!Alerting, Alert!State

LEMMA AlertTypeNext == Alert!TypeOK /\ [Alert!Next]_(Alert!vars) => Alert!TypeOK'
<1> SUFFICES ASSUME Alert!TypeOK, [Alert!Next]_(Alert!vars) PROVE Alert!TypeOK'
  OBVIOUS
<1> USE DEF Alert!Alerting
<1>1. ASSUME NEW a \in Alert!Known \union {"unmonitored"}, Alert!Activity(a) PROVE Alert!TypeOK'
  BY <1>1 DEF Alert!TypeOK, Alert!Activity
<1>2. ASSUME NEW b \in BOOLEAN, Alert!SetAlertEnabled(b) PROVE Alert!TypeOK'
  <2>1. state' \in Alert!State /\ told' \in Alert!State /\ spoiled' \in BOOLEAN /\ enabled' \in BOOLEAN
    BY <1>2 DEF Alert!TypeOK, Alert!SetAlertEnabled, Alert!State
  <2> QED
    BY <1>2, <2>1 DEF Alert!TypeOK, Alert!SetAlertEnabled
<1>3. ASSUME NEW r \in Replica, Alert!Scan(r) PROVE Alert!TypeOK'
  <2>1. ScanTypes'
    BY <1>3, ScanMoves DEF Alert!TypeOK, ScanTypes, Moves, Alert!Known, Alert!State
  <2> QED
    BY <1>3, <2>1, ScanMoves DEF Alert!TypeOK, ScanTypes, Moves, ScanSteps, Alert!Scan
<1>4. ASSUME NEW r \in Replica, Alert!GetTenant(r) PROVE Alert!TypeOK'
  <2>1. ScanTypes'
    BY <1>4, GetTenantMoves DEF Alert!TypeOK, ScanTypes, Moves
  <2> QED
    BY <1>4, <2>1, GetTenantMoves DEF Alert!TypeOK, ScanTypes, Moves, ScanSteps, Alert!GetTenant
<1>5. ASSUME NEW r \in Replica, Alert!SendTransitionEmail(r) PROVE Alert!TypeOK'
  <2>1. ScanTypes'
    BY <1>5, SendMoves DEF Alert!TypeOK, ScanTypes, Moves
  <2> QED
    BY <1>5, <2>1, SendMoves DEF Alert!TypeOK, ScanTypes, Moves, ScanSteps, Alert!SendTransitionEmail
<1>6. ASSUME NEW r \in Replica, Alert!InsertEvent(r) PROVE Alert!TypeOK'
  <2>1. ScanTypes'
    BY <1>6, InsertMoves DEF Alert!TypeOK, ScanTypes, Moves
  <2>2. told' \in Alert!State
    BY <1>6, InsertMoves, CandidateTypes DEF Alert!TypeOK, Moves, Alert!Candidate
  <2> QED
    BY <1>6, <2>1, <2>2, InsertMoves DEF Alert!TypeOK, ScanTypes, Moves, ScanSteps, Alert!InsertEvent
<1>7. ASSUME NEW r \in Replica, Alert!SetAlertState(r) PROVE Alert!TypeOK'
  <2>1. ScanTypes'
    BY <1>7, SetStateMoves DEF Alert!TypeOK, ScanTypes, Moves
  <2>2. scan[r].new \in Alert!State
    BY CandidateTypes DEF Alert!TypeOK, Alert!Candidate
  <2>3. state' \in Alert!State /\ told' \in Alert!State /\ spoiled' \in BOOLEAN
    BY <1>7, <2>2 DEF Alert!TypeOK, Alert!SetAlertState
  <2> QED
    BY <1>7, <2>1, <2>3, SetStateMoves DEF Alert!TypeOK, ScanTypes, Moves, ScanSteps, Alert!SetAlertState
<1>8. ASSUME NEW r \in Replica, Alert!Stop(r) PROVE Alert!TypeOK'
  <2>1. ScanTypes'
    BY <1>8, StopMoves DEF Alert!TypeOK, ScanTypes, Moves
  <2>2. spoiled' \in BOOLEAN
    BY <1>8 DEF Alert!TypeOK, Alert!Stop
  <2> QED
    BY <1>8, <2>1, <2>2, StopMoves DEF Alert!TypeOK, ScanTypes, Moves, ScanSteps, Alert!Stop
<1>9. CASE UNCHANGED Alert!vars
  BY <1>9 DEF Alert!vars, Alert!TypeOK
<1> QED
  BY <1>1, <1>2, <1>3, <1>4, <1>5, <1>6, <1>7, <1>8, <1>9 DEF Alert!Next

(* Type correctness of Alerts.                                             *)
THEOREM AlertsTypeCorrect == Alert!Spec => []Alert!TypeOK
  BY AlertTypeInit, AlertTypeNext, PTL DEF Alert!Spec

-----------------------------------------------------------------------------
LEMMA ScanInvInit == Alert!Init => Alert!ScanInv
  BY DEF Alert!Init, Alert!ScanInv, Alert!OnlyRunningScan, Alert!StoredIsTold, Alert!StartedFromTold

(* A server that is at work is the only one.                               *)
LEMMA Alone ==
  ASSUME Alert!TypeOK, Alert!OnlyRunningScan, Alert!SingleInstance, NEW r \in running
  PROVE  \A q \in Replica \ {r} : pc[q] = "idle"
  BY DEF Alert!TypeOK, Alert!OnlyRunningScan, Alert!SingleInstance

(* ScanInv, taken apart.                                                   *)
LEMMA ScanParts ==
  ASSUME Alert!OnlyRunningScan', Alert!SingleInstance /\ ~spoiled' => (Alert!StoredIsTold /\ Alert!StartedFromTold)',
         running' = running
  PROVE  Alert!ScanInv'
  BY DEF Alert!ScanInv, Alert!SingleInstance

LEMMA ScanInvNext == Alert!TypeOK /\ Alert!TypeOK' /\ Alert!ScanInv /\ [Alert!Next]_(Alert!vars) => Alert!ScanInv'
<1> SUFFICES ASSUME Alert!TypeOK, Alert!TypeOK', Alert!ScanInv, [Alert!Next]_(Alert!vars) PROVE Alert!ScanInv'
  OBVIOUS
<1> USE DEF Alert!OnlyRunningScan, Alert!StoredIsTold, Alert!StartedFromTold
<1>0. Alert!OnlyRunningScan /\ (Alert!SingleInstance /\ ~spoiled => Alert!StoredIsTold /\ Alert!StartedFromTold)
  BY DEF Alert!ScanInv
<1>1. ASSUME NEW a \in Alert!Known \union {"unmonitored"}, Alert!Activity(a) PROVE Alert!ScanInv'
  BY <1>0, <1>1, ScanParts DEF Alert!Activity
<1>2. ASSUME NEW b \in BOOLEAN, Alert!SetAlertEnabled(b) PROVE Alert!ScanInv'
  <2>1. CASE ~enabled /\ b
    BY <1>0, <1>2, <2>1, ScanParts DEF Alert!SetAlertEnabled
  <2>2. CASE ~(~enabled /\ b)
    BY <1>0, <1>2, <2>2, ScanParts DEF Alert!SetAlertEnabled
  <2> QED
    BY <2>1, <2>2
<1>3. ASSUME NEW r \in Replica, Alert!Scan(r) PROVE Alert!ScanInv'
  <2>1. r \in running /\ UNCHANGED <<running, state, told, spoiled>>
    BY <1>3 DEF Alert!Scan
  <2>2. Alert!OnlyRunningScan'
    BY <1>0, <1>3, <2>1, ScanMoves DEF Moves
  <2>3. ASSUME Alert!SingleInstance, ~spoiled' PROVE (Alert!StoredIsTold /\ Alert!StartedFromTold)'
    <3>1. \A q \in Replica : pc[q] = "idle"
      BY <1>0, <1>3, <2>1, <2>3, Alone DEF Alert!Scan
    <3>2. told = state
      BY <1>0, <2>1, <2>3, <3>1
    <3>3. scan'[r].previous = state
      BY <1>3, ScanMoves
    <3> QED
      BY <1>3, <2>1, <3>1, <3>2, <3>3, ScanMoves DEF Moves
  <2> QED
    BY <2>1, <2>2, <2>3, ScanParts
<1>4. ASSUME NEW r \in Replica, Alert!GetTenant(r) PROVE Alert!ScanInv'
  <2>1. UNCHANGED <<running, state, told, spoiled>>
    BY <1>4 DEF Alert!GetTenant
  <2> QED
    BY <1>0, <1>4, <2>1, GetTenantMoves, ScanParts DEF Moves
<1>5. ASSUME NEW r \in Replica, Alert!SendTransitionEmail(r) PROVE Alert!ScanInv'
  <2>1. UNCHANGED <<running, state, told, spoiled>>
    BY <1>5 DEF Alert!SendTransitionEmail
  <2> QED
    BY <1>0, <1>5, <2>1, SendMoves, ScanParts DEF Moves
<1>6. ASSUME NEW r \in Replica, Alert!InsertEvent(r) PROVE Alert!ScanInv'
  <2>1. UNCHANGED <<running, state, spoiled>>
    BY <1>6 DEF Alert!InsertEvent
  <2>2. r \in running
    BY <1>0, <1>6 DEF Alert!InsertEvent
  <2>3. Alert!OnlyRunningScan'
    BY <1>0, <1>6, <2>1, <2>2, InsertMoves DEF Moves
  <2>4. ASSUME Alert!SingleInstance, ~spoiled' PROVE (Alert!StoredIsTold /\ Alert!StartedFromTold)'
    <3>1. \A q \in Replica \ {r} : pc'[q] = "idle"
      BY <1>0, <1>6, <2>2, <2>4, Alone, InsertMoves DEF Moves
    <3>2. told = state
      BY <1>0, <1>6, <2>1, <2>2, <2>4, Alone, InsertMoves DEF Moves
    <3> QED
      BY <1>6, <2>1, <3>1, <3>2, InsertMoves DEF Moves
  <2> QED
    BY <2>1, <2>3, <2>4, ScanParts
<1>7. ASSUME NEW r \in Replica, Alert!SetAlertState(r) PROVE Alert!ScanInv'
  <2>1. UNCHANGED running /\ r \in running
    BY <1>0, <1>7 DEF Alert!SetAlertState
  <2>2. Alert!OnlyRunningScan'
    BY <1>0, <1>7, <2>1, SetStateMoves DEF Moves
  <2>3. ASSUME Alert!SingleInstance, ~spoiled' PROVE (Alert!StoredIsTold /\ Alert!StartedFromTold)'
    <3>1. \A q \in Replica : pc'[q] = "idle"
      BY <1>0, <1>7, <2>1, <2>3, Alone, SetStateMoves DEF Moves
    <3>2. told' = state'
      <4>1. CASE /\ state' = scan[r].new
                 /\ told' = IF pc[r] = "record" THEN scan[r].new ELSE told
                 /\ spoiled' = (spoiled /\ told' # scan[r].new)
        <5>1. CASE spoiled
          BY <2>3, <4>1, <5>1 DEF Alert!TypeOK
        <5>2. CASE ~spoiled
          <6>1. pc[r] = "advance" => told = scan[r].new
            BY <1>0, <2>3, <5>2
          <6> QED
            BY <1>7, <4>1, <6>1 DEF Alert!SetAlertState
        <5> QED
          BY <5>1, <5>2
      <4>2. CASE spoiled' = (spoiled \/ pc[r] = "advance") /\ UNCHANGED <<state, told>>
        <5>1. ~spoiled /\ pc[r] # "advance"
          BY <2>3, <4>2
        <5> QED
          BY <1>0, <2>1, <2>3, <4>2, <5>1, Alone
      <4> QED
        BY <1>7, <4>1, <4>2 DEF Alert!SetAlertState
    <3> QED
      BY <3>1, <3>2
  <2> QED
    BY <2>1, <2>2, <2>3, ScanParts
<1>8. ASSUME NEW r \in Replica, Alert!Stop(r) PROVE Alert!ScanInv'
  <2>1. UNCHANGED <<running, state, told>> /\ r \in running
    BY <1>0, <1>8 DEF Alert!Stop
  <2>2. Alert!OnlyRunningScan'
    BY <1>0, <1>8, <2>1, StopMoves DEF Moves
  <2>3. ASSUME Alert!SingleInstance, ~spoiled' PROVE (Alert!StoredIsTold /\ Alert!StartedFromTold)'
    <3>1. ~spoiled /\ pc[r] # "advance"
      BY <1>8, <2>3 DEF Alert!Stop
    <3>2. \A q \in Replica : pc'[q] = "idle"
      BY <1>0, <1>8, <2>1, <2>3, Alone, StopMoves DEF Moves
    <3>3. told = state
      BY <1>0, <2>1, <2>3, <3>1, Alone
    <3> QED
      BY <2>1, <3>2, <3>3
  <2> QED
    BY <2>1, <2>2, <2>3, ScanParts
<1>9. CASE UNCHANGED Alert!vars
  BY <1>0, <1>9, ScanParts DEF Alert!vars
<1> QED
  BY <1>1, <1>2, <1>3, <1>4, <1>5, <1>6, <1>7, <1>8, <1>9 DEF Alert!Next

(* A server at work was started from what the user knew.                   *)
THEOREM ScansAreSound == Alert!Spec => []Alert!ScanInv
<1>1. Alert!TypeOK /\ Alert!TypeOK' /\ Alert!ScanInv /\ [Alert!Next]_(Alert!vars) => Alert!ScanInv'
  BY ScanInvNext
<1> QED
  BY <1>1, ScanInvInit, AlertsTypeCorrect, PTL DEF Alert!Spec

(* With one server, between scans, the user knows the stored state.        *)
THEOREM UserKnowsState == Alert!Spec => []Alert!ToldAgrees
<1>1. Alert!ScanInv => Alert!ToldAgrees
  BY DEF Alert!ScanInv, Alert!StoredIsTold, Alert!ToldAgrees
<1> QED
  BY <1>1, ScansAreSound, PTL

(* With one server every event continues the last one, or the silent       *)
(* record.                                                                 *)
THEOREM EventsFormChain == Spec => EventsChain
<1>1. Alert!ScanInv /\ [Alert!Next]_(Alert!vars) =>
        [\A r \in Replica : pc[r] = "insert" /\ pc'[r] = "advance" /\ Alert!SingleInstance
           => told = scan[r].previous \/ spoiled]_(Alert!vars)
  BY DEF Alert!ScanInv, Alert!StartedFromTold
<1> QED
  BY <1>1, ScansAreSound, LoopsAreIndependent, PTL DEF Alert!Spec, Alert!EventsChain, EventsChain

-----------------------------------------------------------------------------
(* The scheduler lock of a device.  Constants and times first.             *)

LEMMA DeviceConstants ==
  /\ MaxItems \in Nat /\ MaxUplinks \in Nat /\ DeviceDelay \in Nat
  /\ DevicePeriod \in Nat \ {0} /\ RxEnd \in Nat \ {0}
  /\ ClassALock \in Nat /\ ClassCLock \in Nat /\ SchedulerLock \in Nat /\ Advance \in Nat
  /\ DeviceDelay < SchedulerLock
BY SchedulersAssumption DEF Device!DeviceLockParameters

(* The later, and the earlier, of two times (FiniteSetsExt).               *)
LEMMA LaterOfTwo ==
  ASSUME NEW a \in Int, NEW b \in Int
  PROVE  Device!Max({a, b}) = IF a >= b THEN a ELSE b
<1>1. \E x \in {a, b} : \A y \in {a, b} : x >= y
  OBVIOUS
<1>2. /\ Device!Max({a, b}) \in {a, b} /\ \A y \in {a, b} : Device!Max({a, b}) >= y
  BY <1>1 DEF Device!Max
<1> QED  BY <1>2

LEMMA EarlierOfTwo ==
  ASSUME NEW a \in Int, NEW b \in Int
  PROVE  Device!Min({a, b}) = IF a <= b THEN a ELSE b
<1>1. \E x \in {a, b} : \A y \in {a, b} : x <= y
  OBVIOUS
<1>2. /\ Device!Min({a, b}) \in {a, b} /\ \A y \in {a, b} : Device!Min({a, b}) <= y
  BY <1>1 DEF Device!Min
<1> QED  BY <1>2

LEMMA HorizonIsLatest ==
  /\ Device!Horizon \in Int
  /\ DevicePeriod + 1 <= Device!Horizon /\ ClassALock <= Device!Horizon
  /\ ClassCLock <= Device!Horizon /\ SchedulerLock <= Device!Horizon
<1> DEFINE S == {DevicePeriod + 1, ClassALock, ClassCLock, SchedulerLock}
<1>1. \E x \in S : \A y \in S : x >= y
  BY DeviceConstants
<1>2. Device!Horizon \in S /\ \A y \in S : Device!Horizon >= y
  BY <1>1 DEF Device!Horizon, Device!Max
<1> QED  BY <1>2, DeviceConstants

(* A second later.                                                         *)
LEMMA SecondLater ==
  ASSUME NEW x \in Int, x >= -1
  PROVE  Device!Earlier(x) = IF x >= 0 THEN x - 1 ELSE -1
BY LaterOfTwo DEF Device!Earlier, Device!Past

(* Types without the horizon: what the other invariants need.              *)
DeviceTask == [pc : {"idle", "selected", "send"}, age : 0 .. DeviceDelay, overtaken : BOOLEAN]
DeviceHandler == [pc : {"idle", "loaded"}, own : Int, seen : Int, age : 0 .. DeviceDelay]
DeviceTypes ==
  /\ cls \in {"B", "C"}
  /\ lock \in Int /\ lock >= -1 /\ windows \in Int /\ windows >= -1 /\ slot \in Int /\ slot >= -1
  /\ handler \in DeviceHandler /\ handler.own >= -1 /\ handler.seen >= -1
  /\ dtask \in [Task -> DeviceTask]
  /\ dqueue \in Nat /\ sinceC \in 0 .. ClassCLock + 1 /\ inSlot \in Nat /\ stale \in BOOLEAN

DeviceTypeInv == Device!TypeOK /\ dqueue <= items

LEMMA DeviceTypesOf == DeviceTypeInv => DeviceTypes
BY DeviceConstants, HorizonIsLatest
   DEF DeviceTypeInv, Device!TypeOK, DeviceTypes, DeviceTask, DeviceHandler, Device!Times, Device!Past

LEMMA DeviceTypeInit == Init => DeviceTypeInv
<1> SUFFICES ASSUME Init PROVE DeviceTypeInv
  OBVIOUS
<1>1. Device!Init
  BY DEF Init
<1>2. -1 \in Device!Times
  BY HorizonIsLatest, DeviceConstants DEF Device!Times, Device!Past
<1>3. handler \in [pc : {"idle", "loaded"}, own : Device!Times, seen : Device!Times,
                    age : 0 .. DeviceDelay]
  BY <1>1, <1>2, DeviceConstants DEF Device!Init, Device!NoHandler, Device!Past
<1>4. dtask \in [Task -> [pc : {"idle", "selected", "send"}, age : 0 .. DeviceDelay,
                          overtaken : BOOLEAN]]
  BY <1>1, DeviceConstants DEF Device!Init, Device!NoTask
<1>5. /\ cls \in {"B", "C"} /\ lock \in Device!Times /\ slot \in Device!Times
      /\ ack \in BOOLEAN /\ stale \in BOOLEAN
  BY <1>1, <1>2 DEF Device!Init, Device!Past
<1>6. /\ dqueue = 0 /\ items = 0 /\ uplinks = 0 /\ inSlot = 0
      /\ windows = -1 /\ sinceC = ClassCLock + 1
  BY <1>1 DEF Device!Init, Device!Past
<1> QED
  BY <1>3, <1>4, <1>5, <1>6, DeviceConstants DEF DeviceTypeInv, Device!TypeOK, Device!Past

(* A second later every time is still one.                                 *)
LEMMA TimesLater ==
  ASSUME NEW x \in Device!Times
  PROVE  Device!Earlier(x) \in Device!Times
BY SecondLater, HorizonIsLatest, DeviceConstants DEF Device!Times, Device!Past

LEMMA DeviceTypeNext == DeviceTypeInv /\ [Device!Next]_(Device!vars) => DeviceTypeInv'
<1> SUFFICES ASSUME DeviceTypeInv, [Device!Next]_(Device!vars) PROVE DeviceTypeInv'
  OBVIOUS
<1> USE DeviceConstants DEF DeviceTypeInv, Device!TypeOK
<1>0. /\ {ClassALock, ClassCLock, SchedulerLock, -1} \subseteq Device!Times
      /\ 1 .. DevicePeriod + 1 \subseteq Device!Times
      /\ \A x, y \in Device!Times : Device!Max({x, y}) \in Device!Times
  BY HorizonIsLatest, LaterOfTwo DEF Device!Times, Device!Past
<1>1. CASE Device!Enqueue
  BY <1>1 DEF Device!Enqueue
<1>2. CASE Device!Uplink
  BY <1>2, <1>0 DEF Device!Uplink
<1>3. CASE Device!LockForWindows
  <2>1. lock' \in Device!Times
    BY <1>3, <1>0 DEF Device!LockForWindows
  <2>2. handler' \in [pc : {"idle", "loaded"}, own : Device!Times, seen : Device!Times,
                      age : 0 .. DeviceDelay]
    BY <1>3, <1>0 DEF Device!LockForWindows, Device!NoHandler, Device!Past
  <2>3. dtask' \in [Task -> [pc : {"idle", "selected", "send"}, age : 0 .. DeviceDelay,
                             overtaken : BOOLEAN]]
    <3>1. \A t \in Task : (dtask[t].overtaken \/ Device!Busy(t)) \in BOOLEAN
      BY Zenon DEF Device!Busy
    <3> QED  BY <1>3, <3>1 DEF Device!LockForWindows
  <2> QED  BY <1>3, <2>1, <2>2, <2>3 DEF Device!LockForWindows
<1>4. CASE Device!TxAck
  <2>1. dqueue' \in (IF dqueue - 1 >= 0 THEN dqueue - 1 ELSE 0) .. dqueue
    <3>1. dqueue - 1 \in Int
      OBVIOUS
    <3>2. Device!Max({dqueue - 1, 0}) = IF dqueue - 1 >= 0 THEN dqueue - 1 ELSE 0
      BY <3>1, LaterOfTwo
    <3> QED  BY <1>4, <3>2 DEF Device!TxAck
  <2>2. dqueue' \in 0 .. dqueue
    BY <2>1
  <2>3. /\ ack' \in BOOLEAN
        /\ UNCHANGED <<cls, lock, handler, dtask, items, uplinks, windows, slot, sinceC, inSlot, stale>>
    BY <1>4 DEF Device!TxAck
  <2> QED  BY <2>2, <2>3
<1>5. CASE Device!Tick
  <2>1. lock' \in Device!Times /\ slot' \in Device!Times
    BY <1>5, TimesLater DEF Device!Tick
  <2>2. windows' \in Device!Past .. RxEnd
    BY <1>5, SecondLater DEF Device!Tick, Device!Past
  <2>3. handler' \in [pc : {"idle", "loaded"}, own : Device!Times, seen : Device!Times,
                      age : 0 .. DeviceDelay]
    <3>1. handler.age + 1 \in 0 .. DeviceDelay
      BY <1>5 DEF Device!Tick
    <3>2. Device!Earlier(handler.own) \in Device!Times /\ Device!Earlier(handler.seen) \in Device!Times
      BY TimesLater
    <3> QED  BY <1>5, <3>1, <3>2 DEF Device!Tick
  <2>4. dtask' \in [Task -> [pc : {"idle", "selected", "send"}, age : 0 .. DeviceDelay,
                             overtaken : BOOLEAN]]
    BY <1>5 DEF Device!Tick
  <2> QED  BY <1>5, <2>1, <2>2, <2>3, <2>4 DEF Device!Tick
<1>6. ASSUME NEW t \in Task, Device!Select(t) PROVE DeviceTypeInv'
  BY <1>6, <1>0 DEF Device!Select
<1>7. ASSUME NEW t \in Task, Device!LockClassC(t) PROVE DeviceTypeInv'
  BY <1>7, <1>0 DEF Device!LockClassC
<1>8. ASSUME NEW t \in Task, Device!LockClassB(t) PROVE DeviceTypeInv'
  <2>1. PICK s \in Device!NextPingSlot(1) :
          /\ slot' = s
          /\ inSlot' = IF s = slot THEN inSlot ELSE 0
          /\ lock' = IF s > Advance THEN s - Advance ELSE s
          /\ dtask' = [dtask EXCEPT ![t] = IF s > Advance THEN Device!NoTask
                                           ELSE [@ EXCEPT !.pc = "send"]]
    BY <1>8 DEF Device!LockClassB
  <2>2. s \in Device!Times /\ s > 1
    BY <1>0, HorizonIsLatest DEF Device!NextPingSlot, Device!Times, Device!Past
  <2>3. lock' \in Device!Times
    BY <2>1, <2>2, HorizonIsLatest DEF Device!Times, Device!Past
  <2>4. dtask' \in [Task -> [pc : {"idle", "selected", "send"}, age : 0 .. DeviceDelay,
                             overtaken : BOOLEAN]]
    BY <2>1 DEF Device!NoTask
  <2> QED  BY <1>8, <2>1, <2>2, <2>3, <2>4 DEF Device!LockClassB
<1>9. ASSUME NEW t \in Task, Device!Send(t) PROVE DeviceTypeInv'
  BY <1>9 DEF Device!Send, Device!NoTask
<1>10. ASSUME NEW t \in Task, Device!GiveUp(t) PROVE DeviceTypeInv'
  BY <1>10 DEF Device!GiveUp, Device!NoTask
<1>11. CASE UNCHANGED Device!vars
  BY <1>11 DEF Device!vars
<1> QED
  BY <1>1, <1>2, <1>3, <1>4, <1>5, <1>6, <1>7, <1>8, <1>9, <1>10, <1>11 DEF Device!Next

-----------------------------------------------------------------------------
(* Never a second task: what a task still needs is covered by the lock,    *)
(* and the lock the uplink flow is about to write is late enough.          *)

OwnLockInv == handler.pc = "loaded" => handler.own >= ClassALock - handler.age
LockCoversTask == \A t \in Task : Device!Busy(t) => lock >= DeviceDelay - dtask[t].age
SingleTask == \A t, u \in Task : Device!Busy(t) /\ Device!Busy(u) => t = u
LockInv == OwnLockInv /\ (Device!LocksOutlastFlows => SingleTask /\ LockCoversTask)

LEMMA OwnLockInit == Init => OwnLockInv
BY DEF Init, Device!Init, Device!NoHandler, OwnLockInv

LEMMA OwnLockNext == DeviceTypes /\ OwnLockInv /\ [Device!Next]_(Device!vars) => OwnLockInv'
<1> SUFFICES ASSUME DeviceTypes, OwnLockInv, [Device!Next]_(Device!vars) PROVE OwnLockInv'
  OBVIOUS
<1> USE DeviceConstants DEF OwnLockInv, DeviceTypes
<1>1. CASE Device!Uplink
  BY <1>1 DEF Device!Uplink
<1>2. CASE Device!LockForWindows
  BY <1>2 DEF Device!LockForWindows, Device!NoHandler
<1>3. CASE Device!Tick
  <2>1. CASE handler.pc = "loaded"
    <3>1. /\ handler'.own = Device!Earlier(handler.own) /\ handler'.age = handler.age + 1
      BY <1>3, <2>1 DEF Device!Tick, DeviceHandler
    <3>2. handler.own \in Int /\ handler.own >= -1 /\ handler.age \in Nat
      BY DEF DeviceHandler
    <3>3. handler'.own >= handler.own - 1
      BY <3>1, <3>2, SecondLater
    <3>4. handler.own >= ClassALock - handler.age
      BY <2>1
    <3>5. handler'.own \in Int
      BY <3>1, <3>2, SecondLater
    <3> HIDE DEF OwnLockInv, DeviceTypes
    <3>6. handler'.own >= ClassALock - handler'.age
      BY <3>1, <3>2, <3>3, <3>4, <3>5
    <3> QED  BY <3>6 DEF OwnLockInv
  <2> QED  BY <1>3, <2>1 DEF Device!Tick, DeviceHandler
<1>4. CASE UNCHANGED handler
  BY <1>4
<1>5. \/ Device!Uplink \/ Device!LockForWindows \/ Device!Tick \/ UNCHANGED handler
  BY DEF Device!Next, Device!vars, Device!Enqueue, Device!TxAck, Device!Select, Device!LockClassC,
         Device!LockClassB, Device!Send, Device!GiveUp
<1> QED
  BY <1>1, <1>2, <1>3, <1>4, <1>5

LEMMA LockInit == Init => LockInv
<1> SUFFICES ASSUME Init PROVE LockInv
  OBVIOUS
<1>1. \A t \in Task : ~Device!Busy(t)
  BY DEF Init, Device!Init, Device!NoTask, Device!Busy
<1> QED
  BY <1>1, OwnLockInit DEF LockInv, SingleTask, LockCoversTask

LEMMA SingleTaskNext ==
  ASSUME DeviceTypes, OwnLockInv, Device!LocksOutlastFlows, SingleTask, LockCoversTask,
         [Device!Next]_(Device!vars)
  PROVE  SingleTask' /\ LockCoversTask'
<1> USE DeviceConstants DEF DeviceTypes, SingleTask, LockCoversTask, Device!Busy
<1>0. \A t \in Task : dtask[t] \in DeviceTask
  OBVIOUS
<1>1. CASE UNCHANGED <<lock, dtask>>
  BY <1>1
<1>2. CASE Device!LockForWindows
  <2>1. lock' = Device!Max({handler.own, handler.seen}) /\ handler.pc = "loaded"
    BY <1>2 DEF Device!LockForWindows
  <2>2. lock' >= handler.own /\ handler.own >= ClassALock - handler.age /\ handler.age <= DeviceDelay
    BY <2>1, LaterOfTwo DEF DeviceHandler, OwnLockInv
  <2>3. lock' \in Int /\ handler.own \in Int /\ handler.age \in Int
    BY <2>1, LaterOfTwo DEF DeviceHandler
  <2>4. lock' >= DeviceDelay
    BY <2>2, <2>3 DEF Device!LocksOutlastFlows
  <2>5. \A t \in Task : dtask'[t].pc = dtask[t].pc /\ dtask'[t].age = dtask[t].age
    BY <1>2 DEF Device!LockForWindows, DeviceTask
  <2> QED  BY <2>3, <2>4, <2>5, <1>0 DEF DeviceTask
<1>3. CASE Device!Tick
  <2>1. \A t \in Task : dtask'[t].pc = dtask[t].pc
    BY <1>3, <1>0 DEF Device!Tick, DeviceTask
  <2>2. \A t \in Task : Device!Busy(t) => dtask'[t].age = dtask[t].age + 1
    BY <1>3, <1>0 DEF Device!Tick, DeviceTask
  <2>3. lock' >= lock - 1 /\ lock' \in Int
    BY <1>3, SecondLater DEF Device!Tick
  <2> QED  BY <2>1, <2>2, <2>3, <1>0 DEF DeviceTask
<1>4. ASSUME NEW t \in Task, Device!Select(t) PROVE SingleTask' /\ LockCoversTask'
  <2>1. \A u \in Task : ~Device!Busy(u)
    <3>1. ASSUME NEW u \in Task, Device!Busy(u) PROVE FALSE
      <4>1. lock >= DeviceDelay - dtask[u].age /\ dtask[u].age <= DeviceDelay /\ dtask[u].age \in Int
        BY <3>1, <1>0 DEF DeviceTask
      <4> QED  BY <4>1, <1>4 DEF Device!Select
    <3> QED  BY <3>1
  <2>2. /\ dtask'[t].age = 0 /\ lock' = SchedulerLock
        /\ \A u \in Task \ {t} : dtask'[u] = dtask[u]
    BY <1>4 DEF Device!Select
  <2> QED  BY <2>1, <2>2
<1>5. ASSUME NEW t \in Task, Device!LockClassC(t) PROVE SingleTask' /\ LockCoversTask'
  <2>1. /\ dtask'[t].age = dtask[t].age /\ lock' = ClassCLock /\ cls = "C" /\ dtask[t].pc = "selected"
        /\ \A u \in Task \ {t} : dtask'[u] = dtask[u]
    BY <1>5, <1>0 DEF Device!LockClassC, DeviceTask
  <2>2. DeviceDelay <= ClassCLock
    BY <2>1 DEF Device!LocksOutlastFlows
  <2> QED  BY <2>1, <2>2, <1>0 DEF DeviceTask
<1>6. ASSUME NEW t \in Task, Device!LockClassB(t) PROVE SingleTask' /\ LockCoversTask'
  <2>1. PICK s \in Device!NextPingSlot(1) :
          /\ lock' = IF s > Advance THEN s - Advance ELSE s
          /\ dtask' = [dtask EXCEPT ![t] = IF s > Advance THEN Device!NoTask
                                           ELSE [@ EXCEPT !.pc = "send"]]
    BY <1>6 DEF Device!LockClassB
  <2>2. s \in Int /\ s > 1
    BY DEF Device!NextPingSlot
  <2>3. dtask[t].pc = "selected" /\ DeviceDelay <= 2
    BY <1>6 DEF Device!LockClassB, Device!LocksOutlastFlows
  <2>4. \A u \in Task \ {t} : dtask'[u] = dtask[u] /\ ~Device!Busy(u)
    BY <2>1, <2>3
  <2>5. CASE s > Advance
    BY <2>1, <2>4, <2>5 DEF Device!NoTask
  <2>6. CASE ~(s > Advance)
    <3>1. dtask'[t].age = dtask[t].age /\ lock' = s
      BY <2>1, <2>6, <1>0 DEF DeviceTask
    <3> QED  BY <3>1, <2>2, <2>3, <2>4, <1>0 DEF DeviceTask
  <2> QED  BY <2>5, <2>6
<1>7. ASSUME NEW t \in Task, Device!Send(t) \/ Device!GiveUp(t) PROVE SingleTask' /\ LockCoversTask'
  <2>1. /\ dtask' = [dtask EXCEPT ![t] = Device!NoTask] /\ lock' = lock
    BY <1>7 DEF Device!Send, Device!GiveUp
  <2> QED  BY <2>1 DEF Device!NoTask
<1> QED
  BY <1>1, <1>2, <1>3, <1>4, <1>5, <1>6, <1>7
     DEF Device!Next, Device!vars, Device!Enqueue, Device!Uplink, Device!TxAck

(* Class never changes, so the same constants have to suffice.             *)
LEMMA ClassStays == [Device!Next]_(Device!vars) => cls' = cls
BY DEF Device!Next, Device!vars, Device!Enqueue, Device!Uplink, Device!LockForWindows, Device!TxAck,
       Device!Tick, Device!Select, Device!LockClassC, Device!LockClassB, Device!Send, Device!GiveUp

LEMMA LockNext == DeviceTypes /\ LockInv /\ [Device!Next]_(Device!vars) => LockInv'
<1> SUFFICES ASSUME DeviceTypes, LockInv, [Device!Next]_(Device!vars) PROVE LockInv'
  OBVIOUS
<1>1. OwnLockInv'
  BY OwnLockNext DEF LockInv
<1>2. Device!LocksOutlastFlows' => Device!LocksOutlastFlows
  BY ClassStays DEF Device!LocksOutlastFlows
<1>3. Device!LocksOutlastFlows' => SingleTask' /\ LockCoversTask'
  BY <1>2, SingleTaskNext DEF LockInv
<1> QED
  BY <1>1, <1>3 DEF LockInv

(* Type correctness of the lock of a device.                               *)
THEOREM DeviceTypeCorrect == Spec => []DeviceTypeInv
BY DeviceTypeInit, DeviceTypeNext, LoopsAreIndependent, PTL DEF Spec, Device!Spec

(* The inductive invariant of the lock.                                    *)
THEOREM LocksHold == Spec => []LockInv
<1>1. DeviceTypeInv /\ LockInv /\ [Device!Next]_(Device!vars) => LockInv'
  BY LockNext, DeviceTypesOf
<1> QED
  BY <1>1, LockInit, DeviceTypeCorrect, LoopsAreIndependent, PTL DEF Spec, Device!Spec

(* OneTask: however many servers run the scheduler loop, a device has one  *)
(* task at a time while the locks outlast the flows.                       *)
THEOREM NeverTwoTasks == Spec => []OneTask
<1>1. LockInv => OneTask
  BY DEF LockInv, SingleTask, OneTask, Device!OneTask
<1> QED
  BY <1>1, LocksHold, PTL

-----------------------------------------------------------------------------
(* One frame per ping-slot: after a frame for a slot the lock reaches      *)
(* nearly to the slot, so that the next task is selected too late for it.  *)

SlotReach == Advance <= ClassALock - DeviceDelay + 2
SlotTaken(n) == inSlot = n /\ slot <= Advance /\ lock >= slot - 2
SlotInv ==
  Device!LocksOutlastFlows /\ SlotReach =>
    /\ inSlot <= 1
    /\ inSlot = 1 => cls = "B" /\ SlotTaken(1)
    /\ \A t \in Task : /\ dtask[t].pc = "send" /\ cls = "B" => SlotTaken(0)
                       /\ dtask[t].pc = "selected" /\ inSlot = 1 => slot <= 1

LEMMA SlotInit == Init => SlotInv
<1> SUFFICES ASSUME Init PROVE SlotInv
  OBVIOUS
<1>1. inSlot = 0 /\ \A t \in Task : dtask[t].pc = "idle"
  BY DEF Init, Device!Init, Device!NoTask
<1> QED  BY <1>1 DEF SlotInv

LEMMA SlotNext ==
  DeviceTypes /\ LockInv /\ SlotInv /\ [Device!Next]_(Device!vars) => SlotInv'
<1> SUFFICES ASSUME DeviceTypes, LockInv, SlotInv, [Device!Next]_(Device!vars),
                    Device!LocksOutlastFlows', SlotReach
             PROVE  /\ inSlot' <= 1
                    /\ inSlot' = 1 => cls' = "B" /\ SlotTaken(1)'
                    /\ \A t \in Task : /\ dtask'[t].pc = "send" /\ cls' = "B" => SlotTaken(0)'
                                       /\ dtask'[t].pc = "selected" /\ inSlot' = 1 => slot' <= 1
  BY DEF SlotInv, SlotReach
<1> DEFINE Goal == /\ inSlot' <= 1
                   /\ inSlot' = 1 => cls' = "B" /\ SlotTaken(1)'
                   /\ \A t \in Task : /\ dtask'[t].pc = "send" /\ cls' = "B" => SlotTaken(0)'
                                      /\ dtask'[t].pc = "selected" /\ inSlot' = 1 => slot' <= 1
<1>a. Device!LocksOutlastFlows /\ cls' = cls
  BY ClassStays DEF Device!LocksOutlastFlows
<1>b. SingleTask /\ LockCoversTask /\ OwnLockInv
  BY <1>a DEF LockInv
<1>c. /\ inSlot <= 1
      /\ inSlot = 1 => cls = "B" /\ SlotTaken(1)
      /\ \A t \in Task : /\ dtask[t].pc = "send" /\ cls = "B" => SlotTaken(0)
                         /\ dtask[t].pc = "selected" /\ inSlot = 1 => slot <= 1
  BY <1>a DEF SlotInv
<1>d. \A t \in Task : dtask[t] \in DeviceTask
  BY DEF DeviceTypes
<1> USE DeviceConstants, <1>a DEF DeviceTypes, SlotTaken
<1>1. CASE UNCHANGED <<lock, dtask, slot, inSlot>>
  BY <1>1, <1>c
<1>2. CASE Device!LockForWindows
  <2>1. lock' = Device!Max({handler.own, handler.seen}) /\ handler.pc = "loaded"
    BY <1>2 DEF Device!LockForWindows
  <2>2. lock' >= handler.own /\ handler.own >= ClassALock - handler.age /\ handler.age <= DeviceDelay
    BY <2>1, <1>b, LaterOfTwo DEF DeviceHandler, OwnLockInv
  <2>3. lock' \in Int /\ handler.own \in Int /\ handler.age \in Int
    BY <2>1, LaterOfTwo DEF DeviceHandler
  <2>4. lock' >= Advance - 2
    BY <2>2, <2>3 DEF SlotReach
  <2>5. \A t \in Task : dtask'[t].pc = dtask[t].pc
    BY <1>2, <1>d DEF Device!LockForWindows, DeviceTask
  <2>6. UNCHANGED <<slot, inSlot>>
    BY <1>2 DEF Device!LockForWindows
  <2> QED  BY <2>3, <2>4, <2>5, <2>6, <1>c
<1>3. CASE Device!Tick
  <2>1. \A t \in Task : dtask'[t].pc = dtask[t].pc
    BY <1>3, <1>d DEF Device!Tick, DeviceTask
  <2>2. inSlot' = inSlot
    BY <1>3 DEF Device!Tick
  <2>3. /\ lock' = IF lock >= 0 THEN lock - 1 ELSE -1
        /\ slot' = IF slot >= 0 THEN slot - 1 ELSE -1
    BY <1>3, SecondLater DEF Device!Tick
  <2> QED  BY <2>1, <2>2, <2>3, <1>c
<1>4. ASSUME NEW t \in Task, Device!Select(t) PROVE Goal
  <2>1. /\ dtask'[t].pc = "selected" /\ lock' = SchedulerLock /\ lock < 0
        /\ \A u \in Task \ {t} : dtask'[u] = dtask[u]
        /\ UNCHANGED <<slot, inSlot>>
    BY <1>4 DEF Device!Select
  <2> QED  BY <2>1, <1>c
<1>5. ASSUME NEW t \in Task, Device!LockClassC(t) PROVE Goal
  <2>1. /\ cls = "C" /\ lock' = ClassCLock
        /\ dtask'[t].pc = "send"
        /\ \A u \in Task \ {t} : dtask'[u] = dtask[u]
        /\ UNCHANGED <<slot, inSlot>>
    BY <1>5, <1>d DEF Device!LockClassC, DeviceTask
  <2> QED  BY <2>1, <1>c
<1>6. ASSUME NEW t \in Task, Device!LockClassB(t) PROVE Goal
  <2>1. PICK s \in Device!NextPingSlot(1) :
          /\ slot' = s
          /\ inSlot' = IF s = slot THEN inSlot ELSE 0
          /\ lock' = IF s > Advance THEN s - Advance ELSE s
          /\ dtask' = [dtask EXCEPT ![t] = IF s > Advance THEN Device!NoTask
                                           ELSE [@ EXCEPT !.pc = "send"]]
    BY <1>6 DEF Device!LockClassB
  <2>2. s \in Int /\ s > 1
    BY DEF Device!NextPingSlot
  <2>3. dtask[t].pc = "selected"
    BY <1>6 DEF Device!LockClassB
  <2>4. \A u \in Task \ {t} : dtask'[u] = dtask[u] /\ dtask[u].pc = "idle"
    BY <2>1, <2>3, <1>b DEF SingleTask, Device!Busy
  <2>5. inSlot' = 0
    BY <2>1, <2>2, <2>3, <1>c
  <2>6. CASE s > Advance
    BY <2>1, <2>4, <2>5, <2>6 DEF Device!NoTask
  <2>7. CASE ~(s > Advance)
    BY <2>1, <2>2, <2>4, <2>5, <2>7
  <2> QED  BY <2>6, <2>7
<1>7. ASSUME NEW t \in Task, Device!Send(t) PROVE Goal
  <2>1. /\ dtask[t].pc = "send" /\ dtask'[t].pc = "idle"
        /\ \A u \in Task \ {t} : dtask'[u] = dtask[u]
        /\ inSlot' = IF cls = "B" THEN inSlot + 1 ELSE inSlot
        /\ UNCHANGED <<lock, slot>>
    BY <1>7 DEF Device!Send, Device!NoTask
  <2>2. \A u \in Task \ {t} : dtask'[u].pc = "idle"
    BY <2>1, <1>b DEF SingleTask, Device!Busy
  <2> QED  BY <2>1, <2>2, <1>c
<1>8. ASSUME NEW t \in Task, Device!GiveUp(t) PROVE Goal
  <2>1. /\ dtask'[t].pc = "idle"
        /\ \A u \in Task \ {t} : dtask'[u] = dtask[u]
        /\ UNCHANGED <<lock, slot, inSlot>>
    BY <1>8 DEF Device!GiveUp, Device!NoTask
  <2> QED  BY <2>1, <1>c
<1> QED
  BY <1>1, <1>2, <1>3, <1>4, <1>5, <1>6, <1>7, <1>8
     DEF Device!Next, Device!vars, Device!Enqueue, Device!Uplink, Device!TxAck

(* OneFramePerSlot: no second frame for a ping-slot of a Class-B device,   *)
(* while the locks outlast the flows and an uplink's reaches to the slot.  *)
THEOREM PingSlotsTakenOnce == Spec => []OneFramePerSlot
<1>1. DeviceTypeInv /\ LockInv /\ SlotInv /\ [Device!Next]_(Device!vars) => SlotInv'
  BY SlotNext, DeviceTypesOf
<1>2. SlotInv => OneFramePerSlot
  BY DEF SlotInv, SlotReach, OneFramePerSlot, Device!OneFramePerSlot
<1> QED
  BY <1>1, <1>2, SlotInit, DeviceTypeCorrect, LocksHold, LoopsAreIndependent, PTL
     DEF Spec, Device!Spec

-----------------------------------------------------------------------------
(* Class-C frames keep their distance: what is left of the distance after  *)
(* the last frame is covered by the lock.                                  *)

ShorterLock == Device!Min({ClassCLock, ClassALock - DeviceDelay})
Distance == ShorterLock - DeviceDelay
SpacedInv ==
  cls = "C" /\ Distance >= 0 =>
    /\ sinceC > Distance \/ lock >= Distance - sinceC
    /\ \A t \in Task : /\ Device!Busy(t) => sinceC > Distance
                       /\ dtask[t].pc = "send" => lock >= ShorterLock - dtask[t].age

LEMMA ShorterLockIs ==
  /\ ShorterLock \in Int /\ ShorterLock <= ClassCLock /\ ShorterLock <= ClassALock - DeviceDelay
  /\ Distance \in Int /\ ShorterLock = Distance + DeviceDelay
<1>1. ClassALock - DeviceDelay \in Int /\ ClassCLock \in Int
  BY DeviceConstants
<1>2. ShorterLock = IF ClassCLock <= ClassALock - DeviceDelay THEN ClassCLock
                    ELSE ClassALock - DeviceDelay
  BY <1>1, EarlierOfTwo DEF ShorterLock
<1> QED  BY <1>1, <1>2, DeviceConstants DEF Distance

(* The distance is only a promise where the locks outlast the flows.       *)
LEMMA DistanceNeedsLocks == cls = "C" /\ Distance >= 0 => Device!LocksOutlastFlows
BY ShorterLockIs, DeviceConstants DEF Distance, Device!LocksOutlastFlows

LEMMA SpacedInit == Init => SpacedInv
<1> SUFFICES ASSUME Init PROVE SpacedInv
  OBVIOUS
<1>1. sinceC = ClassCLock + 1 /\ \A t \in Task : dtask[t].pc = "idle"
  BY DEF Init, Device!Init, Device!NoTask
<1>2. sinceC > Distance
  BY <1>1, ShorterLockIs, DeviceConstants
<1> QED  BY <1>1, <1>2 DEF SpacedInv

LEMMA SpacedNext ==
  DeviceTypes /\ LockInv /\ SpacedInv /\ [Device!Next]_(Device!vars) => SpacedInv'
<1> DEFINE Goal == /\ sinceC' > Distance \/ lock' >= Distance - sinceC'
                   /\ \A t \in Task : /\ Device!Busy(t)' => sinceC' > Distance
                                      /\ dtask'[t].pc = "send" => lock' >= ShorterLock - dtask'[t].age
<1> SUFFICES ASSUME DeviceTypes, LockInv, SpacedInv, [Device!Next]_(Device!vars),
                    cls' = "C", Distance >= 0
             PROVE  Goal
  BY DEF SpacedInv, Distance, ShorterLock
<1>a. cls = "C" /\ Device!LocksOutlastFlows
  BY ClassStays, DistanceNeedsLocks
<1>b. SingleTask /\ OwnLockInv
  BY <1>a DEF LockInv
<1>c. /\ sinceC > Distance \/ lock >= Distance - sinceC
      /\ \A t \in Task : /\ Device!Busy(t) => sinceC > Distance
                         /\ dtask[t].pc = "send" => lock >= ShorterLock - dtask[t].age
  BY <1>a DEF SpacedInv
<1>d. \A t \in Task : dtask[t] \in DeviceTask
  BY DEF DeviceTypes
<1>e. lock \in Int /\ lock >= -1 /\ sinceC \in Nat /\ sinceC <= ClassCLock + 1
  BY DeviceConstants DEF DeviceTypes
<1> USE DeviceConstants, ShorterLockIs DEF Device!Busy
<1>1. CASE UNCHANGED <<lock, dtask, sinceC>>
  BY <1>1, <1>c
<1>2. CASE Device!LockForWindows
  <2>1. lock' = Device!Max({handler.own, handler.seen}) /\ handler.pc = "loaded" /\ handler \in DeviceHandler
    BY <1>2 DEF Device!LockForWindows, DeviceTypes
  <2>2. lock' >= handler.own /\ handler.own >= ClassALock - handler.age /\ handler.age <= DeviceDelay
    BY <2>1, <1>b, LaterOfTwo DEF DeviceHandler, OwnLockInv
  <2>3. lock' \in Int /\ handler.own \in Int /\ handler.age \in Int
    BY <2>1, LaterOfTwo DEF DeviceHandler
  <2>4. lock' >= ShorterLock
    BY <2>2, <2>3
  <2>5. \A t \in Task : dtask'[t].pc = dtask[t].pc /\ dtask'[t].age = dtask[t].age
    BY <1>2, <1>d DEF Device!LockForWindows, DeviceTask, DeviceTypes
  <2>6. sinceC' = sinceC
    BY <1>2 DEF Device!LockForWindows
  <2> QED  BY <2>3, <2>4, <2>5, <2>6, <1>c, <1>d, <1>e DEF DeviceTask
<1>3. CASE Device!Tick
  <2>1. \A t \in Task : dtask'[t].pc = dtask[t].pc
    BY <1>3, <1>d DEF Device!Tick, DeviceTask
  <2>2. \A t \in Task : dtask[t].pc = "send" => dtask'[t].age = dtask[t].age + 1
    BY <1>3, <1>d DEF Device!Tick, DeviceTask
  <2>3. /\ lock' = IF lock >= 0 THEN lock - 1 ELSE -1
        /\ sinceC' = IF sinceC > ClassCLock THEN sinceC ELSE sinceC + 1
    BY <1>3, <1>e, SecondLater DEF Device!Tick
  <2> QED  BY <2>1, <2>2, <2>3, <1>c, <1>d, <1>e DEF DeviceTask
<1>4. ASSUME NEW t \in Task, Device!Select(t) PROVE Goal
  <2>1. /\ dtask'[t].pc = "selected" /\ lock' = SchedulerLock /\ lock < 0
        /\ \A u \in Task \ {t} : dtask'[u] = dtask[u]
        /\ sinceC' = sinceC
    BY <1>4 DEF Device!Select, DeviceTypes
  <2>2. sinceC > Distance
    BY <2>1, <1>c, <1>e
  <2>3. \A u \in Task \ {t} : dtask[u].pc = "send" => lock' >= ShorterLock - dtask[u].age
    BY <2>1, <1>c, <1>d, <1>e DEF DeviceTask
  <2> QED  BY <2>1, <2>2, <2>3
<1>5. ASSUME NEW t \in Task, Device!LockClassC(t) PROVE Goal
  <2>1. /\ lock' = ClassCLock /\ dtask[t].pc = "selected"
        /\ dtask'[t].pc = "send" /\ dtask'[t].age = dtask[t].age
        /\ \A u \in Task \ {t} : dtask'[u] = dtask[u]
        /\ sinceC' = sinceC
    BY <1>5, <1>d DEF Device!LockClassC, DeviceTask, DeviceTypes
  <2> QED  BY <2>1, <1>c, <1>d, <1>e DEF DeviceTask
<1>6. ASSUME NEW t \in Task, Device!LockClassB(t) PROVE Goal
  BY <1>6, <1>a DEF Device!LockClassB
<1>7. ASSUME NEW t \in Task, Device!Send(t) PROVE Goal
  <2>1. /\ dtask[t].pc = "send" /\ dtask'[t].pc = "idle"
        /\ \A u \in Task \ {t} : dtask'[u] = dtask[u]
        /\ sinceC' = 0 /\ lock' = lock
    BY <1>7, <1>a DEF Device!Send, Device!NoTask, DeviceTypes
  <2>2. \A u \in Task \ {t} : dtask'[u].pc = "idle"
    BY <2>1, <1>b DEF SingleTask
  <2>3. lock >= Distance
    BY <2>1, <1>c, <1>d, <1>e DEF DeviceTask
  <2> QED  BY <2>1, <2>2, <2>3
<1>8. ASSUME NEW t \in Task, Device!GiveUp(t) PROVE Goal
  <2>1. /\ dtask'[t].pc = "idle"
        /\ \A u \in Task \ {t} : dtask'[u] = dtask[u]
        /\ UNCHANGED <<lock, sinceC>>
    BY <1>8 DEF Device!GiveUp, Device!NoTask, DeviceTypes
  <2> QED  BY <2>1, <1>c
<1> QED
  BY <1>1, <1>2, <1>3, <1>4, <1>5, <1>6, <1>7, <1>8
     DEF Device!Next, Device!vars, Device!Enqueue, Device!Uplink, Device!TxAck

(* ClassCSpaced: Class-C frames of a device are at least as far apart as   *)
(* the locks promise, less the delays of the flows.                        *)
THEOREM ClassCFramesSpaced == Spec => ClassCSpaced
<1>1. DeviceTypeInv /\ LockInv /\ SpacedInv /\ [Device!Next]_(Device!vars) => SpacedInv'
  BY SpacedNext, DeviceTypesOf
<1>2. DeviceTypeInv /\ SpacedInv /\ [Device!Next]_(Device!vars)
        => [\A t \in Task : Device!Send(t) /\ cls = "C"
              => sinceC > Device!Min({ClassCLock, ClassALock - DeviceDelay}) - DeviceDelay]_(Device!vars)
  <2>1. ASSUME DeviceTypes, SpacedInv, NEW t \in Task, Device!Send(t), cls = "C"
        PROVE  sinceC > Distance
    <3>1. sinceC \in Nat
      BY <2>1, DeviceConstants DEF DeviceTypes
    <3>2. Distance >= 0 => sinceC > Distance
      BY <2>1 DEF SpacedInv, Device!Send, Device!Busy
    <3> QED  BY <3>1, <3>2, ShorterLockIs
  <2> QED  BY <2>1, DeviceTypesOf DEF Distance, ShorterLock
<1> QED
  BY <1>1, <1>2, SpacedInit, DeviceTypeCorrect, LocksHold, LoopsAreIndependent, PTL
     DEF Spec, Device!Spec, ClassCSpaced, Device!ClassCSpaced

-----------------------------------------------------------------------------
(* The receive-windows: the lock covers them, unless a task selected       *)
(* before the uplink locked the device has overwritten it.                 *)

WindowInv ==
  /\ handler.pc = "loaded" => handler.own >= windows
  /\ handler.pc = "idle" /\ ~stale => lock >= windows
  /\ \A t \in Task : Device!Busy(t) /\ handler.pc = "idle" /\ ~dtask[t].overtaken => windows < 0

LEMMA WindowInit == Init => WindowInv
<1> SUFFICES ASSUME Init PROVE WindowInv
  OBVIOUS
<1>1. lock = -1 /\ windows = -1 /\ handler.pc = "idle"
  BY DEF Init, Device!Init, Device!NoHandler, Device!Past
<1> QED  BY <1>1 DEF WindowInv

LEMMA WindowNext ==
  Device!LockCoversWindows /\ DeviceTypes /\ WindowInv /\ [Device!Next]_(Device!vars) => WindowInv'
<1> SUFFICES ASSUME Device!LockCoversWindows, DeviceTypes, WindowInv, [Device!Next]_(Device!vars) PROVE WindowInv'
  OBVIOUS
<1>a. /\ handler.pc = "loaded" => handler.own >= windows
      /\ handler.pc = "idle" /\ ~stale => lock >= windows
      /\ \A t \in Task : Device!Busy(t) /\ handler.pc = "idle" /\ ~dtask[t].overtaken => windows < 0
  BY DEF WindowInv
<1>b. /\ \A t \in Task : dtask[t] \in DeviceTask
      /\ handler \in DeviceHandler /\ handler.pc \in {"idle", "loaded"}
      /\ handler.own \in Int /\ handler.seen \in Int /\ handler.own >= -1
      /\ lock \in Int /\ lock >= -1 /\ windows \in Int /\ windows >= -1
  BY DEF DeviceTypes, DeviceHandler
<1> USE DeviceConstants DEF WindowInv, Device!Busy
<1>1. CASE UNCHANGED <<lock, dtask, windows, handler, stale>>
  BY <1>1
<1>2. CASE Device!Uplink
  BY <1>2, <1>b DEF Device!Uplink, Device!LockCoversWindows
<1>3. CASE Device!LockForWindows
  <2>1. /\ lock' = Device!Max({handler.own, handler.seen}) /\ handler.pc = "loaded"
        /\ handler'.pc = "idle" /\ windows' = windows
    BY <1>3 DEF Device!LockForWindows, Device!NoHandler
  <2>2. lock' >= windows'
    <3>1. /\ Device!Max({handler.own, handler.seen}) \in Int
          /\ Device!Max({handler.own, handler.seen}) >= handler.own
      <4>1. handler.own \in Int /\ handler.seen \in Int
        BY <1>b
      <4> HIDE <1>b
      <4> QED  BY <4>1, LaterOfTwo
    <3>2. handler.own >= windows
      BY <2>1, <1>a
    <3> QED  BY <2>1, <3>1, <3>2, <1>b
  <2>3. \A t \in Task : dtask'[t].pc = dtask[t].pc /\ (dtask[t].pc # "idle" => dtask'[t].overtaken)
    BY <1>3, <1>b DEF Device!LockForWindows, DeviceTask, DeviceTypes
  <2> QED  BY <2>1, <2>2, <2>3
<1>4. CASE Device!Tick
  <2>1. \A t \in Task : dtask'[t].pc = dtask[t].pc /\ dtask'[t].overtaken = dtask[t].overtaken
    BY <1>4, <1>b DEF Device!Tick, DeviceTask
  <2>2. /\ lock' = (IF lock >= 0 THEN lock - 1 ELSE -1)
        /\ windows' = (IF windows >= 0 THEN windows - 1 ELSE -1)
        /\ stale' = stale /\ handler'.pc = handler.pc
    BY <1>4, <1>b, SecondLater DEF Device!Tick, DeviceHandler
  <2>3. CASE handler.pc = "loaded"
    <3>1. handler'.own = (IF handler.own >= 0 THEN handler.own - 1 ELSE -1)
      BY <1>4, <1>b, <2>3, SecondLater DEF Device!Tick, DeviceHandler
    <3> QED  BY <2>2, <2>3, <3>1, <1>a, <1>b
  <2>4. CASE handler.pc = "idle"
    BY <2>1, <2>2, <2>4, <1>a, <1>b
  <2> QED  BY <2>3, <2>4, <1>b
<1>5. ASSUME NEW t \in Task, Device!Select(t) PROVE WindowInv'
  <2>1. /\ dtask'[t].overtaken = stale /\ lock' = SchedulerLock /\ lock < 0
        /\ \A u \in Task \ {t} : dtask'[u] = dtask[u]
        /\ UNCHANGED <<windows, handler, stale>>
    BY <1>5 DEF Device!Select, DeviceTypes
  <2>2. handler.pc = "idle" /\ ~stale => windows < 0
    BY <2>1, <1>a, <1>b
  <2> QED  BY <2>1, <2>2, <1>a, <1>b
<1>6. ASSUME NEW t \in Task, Device!LockClassC(t) \/ Device!LockClassB(t) PROVE WindowInv'
  <2>1. /\ dtask[t].pc = "selected" /\ stale' = dtask[t].overtaken
        /\ UNCHANGED <<windows, handler>>
    BY <1>6 DEF Device!LockClassC, Device!LockClassB
  <2>2. /\ lock' \in Int /\ lock' >= 0
        /\ dtask'[t].pc = "idle" \/ dtask'[t].overtaken = dtask[t].overtaken
        /\ \A u \in Task \ {t} : dtask'[u] = dtask[u]
    <3>1. CASE Device!LockClassC(t)
      BY <3>1, <1>b DEF Device!LockClassC, DeviceTask, DeviceTypes
    <3>2. CASE Device!LockClassB(t)
      <4>1. PICK s \in Device!NextPingSlot(1) :
              /\ lock' = IF s > Advance THEN s - Advance ELSE s
              /\ dtask' = [dtask EXCEPT ![t] = IF s > Advance THEN Device!NoTask
                                               ELSE [@ EXCEPT !.pc = "send"]]
        BY <3>2 DEF Device!LockClassB
      <4>2. s \in Int /\ s > 1
        BY DEF Device!NextPingSlot, DeviceTypes
      <4>3. lock' \in Int /\ lock' >= 0
        BY <4>1, <4>2
      <4>4. dtask'[t].pc = "idle" \/ dtask'[t].overtaken = dtask[t].overtaken
        <5>1. CASE s > Advance
          BY <4>1, <5>1 DEF Device!NoTask, DeviceTypes
        <5>2. CASE ~(s > Advance)
          BY <4>1, <5>2, <1>b DEF DeviceTask, DeviceTypes
        <5> QED  BY <5>1, <5>2
      <4>5. \A u \in Task \ {t} : dtask'[u] = dtask[u]
        BY <4>1 DEF DeviceTypes
      <4> QED  BY <4>3, <4>4, <4>5
    <3> QED  BY <1>6, <3>1, <3>2
  <2>3. handler.pc = "idle" /\ ~dtask[t].overtaken => windows < 0
    BY <2>1, <1>a
  <2> QED  BY <2>1, <2>2, <2>3, <1>a, <1>b
<1>7. ASSUME NEW t \in Task, Device!Send(t) \/ Device!GiveUp(t) PROVE WindowInv'
  <2>1. /\ dtask' = [dtask EXCEPT ![t] = Device!NoTask]
        /\ UNCHANGED <<lock, windows, handler, stale>>
    BY <1>7 DEF Device!Send, Device!GiveUp
  <2>2. dtask'[t].pc = "idle" /\ \A u \in Task \ {t} : dtask'[u] = dtask[u]
    BY <2>1 DEF Device!NoTask, DeviceTypes
  <2> QED  BY <2>1, <2>2, <1>a
<1> QED
  BY <1>1, <1>2, <1>3, <1>4, <1>5, <1>6, <1>7
     DEF Device!Next, Device!vars, Device!Enqueue, Device!TxAck

(* WindowsKept: the scheduler hands over no frame before the receive-      *)
(* windows of an uplink have closed, when the lock of the uplink reaches   *)
(* to their end; the other locks and the delays do not matter.             *)
THEOREM WindowsAreKept == Spec => WindowsKept
<1> DEFINE Covered == Device!LockCoversWindows => WindowInv
<1>1. DeviceTypeInv /\ Covered /\ [Device!Next]_(Device!vars) => Covered'
  BY WindowNext, DeviceTypesOf DEF Device!LockCoversWindows
<1>2. Covered /\ [Device!Next]_(Device!vars)
        => [\A t \in Task :
              Device!LockCoversWindows /\ Device!Send(t) /\ handler.pc = "idle"
                /\ ~dtask[t].overtaken => windows < 0]_(Device!vars)
  BY DEF WindowInv, Device!Send, Device!Busy
<1>3. Init => Covered
  BY WindowInit
<1> HIDE DEF Covered
<1> QED
  BY <1>1, <1>2, <1>3, DeviceTypeCorrect, LoopsAreIndependent, PTL
     DEF Spec, Device!Spec, WindowsKept, Device!WindowsKept

-----------------------------------------------------------------------------
(* The queue of a multicast-group.  Finite sets of times have a last one,  *)
(* sets of later times a first one.                                        *)

HasLast(S) == \E x \in S : \A y \in S : x >= y

LEMMA SmallestNumber ==
  ASSUME NEW T, T \subseteq Nat, T # {}
  PROVE  \E i \in T : \A j \in T : i <= j
<1> DEFINE R == {ss \in Nat \X Nat : ss[1] < ss[2]}
<1>1. IsWellFoundedOn(R, Nat)
  BY NatLessThanWellFounded DEF OpToRel
<1>2. PICK i \in T : \A j \in T : ~(<<j, i>> \in R)
  BY <1>1, WFMin
<1>3. \A j \in T : ~(j < i)
  BY <1>2
<1> QED
  BY <1>3

LEMMA LastTime ==
  ASSUME NEW S, IsFiniteSet(S), S \subseteq Int, S # {}
  PROVE  HasLast(S)
<1> DEFINE Bad == {n \in Nat : \E T \in SUBSET S : T # {} /\ Cardinality(T) = n /\ ~HasLast(T)}
<1>1. SUFFICES ASSUME ~HasLast(S) PROVE FALSE
  OBVIOUS
<1>2. Cardinality(S) \in Bad
  BY <1>1, FS_CardinalityType
<1>3. PICK n \in Bad : \A m \in Bad : n <= m
  BY <1>2, SmallestNumber
<1>4. PICK T \in SUBSET S : T # {} /\ Cardinality(T) = n /\ ~HasLast(T)
  OBVIOUS
<1>5. PICK x \in T : TRUE
  BY <1>4
<1> DEFINE rest == T \ {x}
<1>6. IsFiniteSet(T)
  BY FS_Subset
<1>7. IsFiniteSet(rest) /\ Cardinality(rest) = n - 1 /\ Cardinality(rest) \in Nat
  BY <1>4, <1>6, FS_RemoveElement, FS_CardinalityType
<1>8. rest # {}
  BY <1>4 DEF HasLast
<1>9. n - 1 \notin Bad
  BY <1>3
<1>10. HasLast(rest)
  BY <1>7, <1>8, <1>9
<1>11. PICK m \in rest : \A y \in rest : m >= y
  BY <1>10 DEF HasLast
<1>12. HasLast(T)
  <2>1. CASE m >= x
    BY <1>11, <2>1 DEF HasLast
  <2>2. CASE x >= m
    BY <1>11, <2>2 DEF HasLast
  <2> QED  BY <2>1, <2>2
<1> QED
  BY <1>4, <1>12

LEMMA FirstTime ==
  ASSUME NEW S, S \subseteq Int, S # {}, NEW after \in Int, \A s \in S : s > after
  PROVE  Group!Min(S) \in S
<1> DEFINE T == {s - after : s \in S}
<1>1. T \subseteq Nat /\ T # {}
  <2>1. \A s \in S : s \in Int /\ s > after
    OBVIOUS
  <2>2. \A s \in S : s - after \in Nat
    BY <2>1
  <2> QED  BY <2>2
<1>2. PICK n \in T : \A m \in T : n <= m
  BY <1>1, SmallestNumber
<1>3. PICK s \in S : n = s - after
  OBVIOUS
<1>4. \A r \in S : s <= r
  <2> SUFFICES ASSUME NEW r \in S PROVE s <= r
    OBVIOUS
  <2>1. s - after <= r - after
    BY <1>2, <1>3
  <2> QED  BY <2>1
<1> QED
  BY <1>3, <1>4 DEF Group!Min

LEMMA GroupLaterOfTwo ==
  ASSUME NEW a \in Int, NEW b \in Int
  PROVE  Group!Max({a, b}) = IF a >= b THEN a ELSE b
<1>1. \E x \in {a, b} : \A y \in {a, b} : x >= y
  OBVIOUS
<1>2. /\ Group!Max({a, b}) \in {a, b} /\ \A y \in {a, b} : Group!Max({a, b}) >= y
  BY <1>1 DEF Group!Max
<1> QED  BY <1>2

LEMMA GroupConstants ==
  /\ MaxFrames \in Nat /\ MaxPast \in Nat /\ GroupPeriod \in Nat /\ GroupDelay \in Nat
  /\ Interval \in Nat /\ MarginB \in Nat /\ SchedulerLock \in Nat
BY SchedulersAssumption DEF Group!MulticastParameters

(* A server that works on a batch has worked for GroupDelay at most, the   *)
(* others have slept for the interval at most.                             *)
LoopTypes ==
  /\ mtask \in [DOMAIN mtask -> working] /\ working \subseteq Server
  /\ elapsed \in [Server -> Nat]
  /\ \A s \in Server : elapsed[s] <= IF s \in working THEN GroupDelay ELSE Interval

(* Times of the queue, by item and by frame; a Class-B group has an        *)
(* emission time for every frame.                                          *)
Framed(S) == S \subseteq (1 .. frames) \X Gateway
ClassBTypes ==
  /\ frames \in Nat
  /\ Framed(DOMAIN mqueue) /\ mqueue \in [DOMAIN mqueue -> Int]
  /\ emit \in [1 .. frames -> Int] /\ \A f \in 1 .. frames : emit[f] >= -MaxPast
  /\ Framed(DOMAIN mtask) /\ LoopTypes
  /\ sent \subseteq DOMAIN mqueue /\ onAir \subseteq 1 .. frames /\ Framed(prompt)

(* The queue between the loop's turns: what a step of the loop or of the   *)
(* gateways does to the times of the queue.                                *)
MulticastStep == [Group!Next]_(Group!vars)

LEMMA ClassBTypesInit ==
  Group!Init => ClassBTypes
<1> SUFFICES ASSUME Group!Init PROVE ClassBTypes
  OBVIOUS
<1>1. frames = 0 /\ mqueue = <<>> /\ emit = <<>> /\ mtask = <<>> /\ sent = {} /\ onAir = {}
      /\ prompt = {} /\ working = {} /\ elapsed \in [Server -> 0 .. Interval]
  BY DEF Group!Init
<1>2. DOMAIN mqueue = {} /\ DOMAIN mtask = {} /\ DOMAIN emit = {} /\ 1 .. frames = {}
  BY <1>1
<1>3. mqueue \in [{} -> Int] /\ emit \in [{} -> Int] /\ mtask \in [{} -> {}]
  BY <1>1, <1>2
<1>4. LoopTypes
  BY <1>1, <1>2, <1>3, GroupConstants DEF LoopTypes
<1> QED
  BY <1>1, <1>2, <1>3, <1>4 DEF ClassBTypes, Framed

(* The ping-slot of a new frame lies after every slot of a queued frame,   *)
(* and further ahead than the margin when the queue is empty.              *)
NextSlot(s) ==
  /\ s \in Int /\ s > -MaxPast
  /\ DOMAIN mqueue = {} => s > MarginB
  /\ \A i \in DOMAIN mqueue : s > emit[i[1]]

LEMMA LastEmission ==
  ASSUME ClassBTypes, DOMAIN mqueue # {}
  PROVE  /\ Group!SlotBase \in Int /\ Group!SlotBase >= -MaxPast
         /\ \A i \in DOMAIN mqueue : Group!SlotBase >= emit[i[1]]
<1> DEFINE All == {emit[f] : f \in 1 .. frames}
           Now == {emit[i[1]] : i \in DOMAIN mqueue}
           F == [f \in 1 .. frames |-> emit[f]]
<1>1. IsFiniteSet(1 .. frames)
  BY FS_Interval DEF ClassBTypes
<1>2. IsFiniteSet(All)
  <2>1. F \in Surjection(1 .. frames, All)
    BY DEF Surjection
  <2> QED  BY <1>1, <2>1, FS_Surjection
<1>3. \A i \in DOMAIN mqueue : i[1] \in 1 .. frames
  BY DEF ClassBTypes, Framed
<1>4. Now \subseteq All /\ Now # {}
  BY <1>3
<1>5. Now \subseteq Int /\ \A x \in Now : x >= -MaxPast
  BY <1>3 DEF ClassBTypes
<1>6. IsFiniteSet(Now)
  BY <1>2, <1>4, FS_Subset
<1>7. HasLast(Now)
  BY <1>4, <1>5, <1>6, LastTime
<1>8. Group!SlotBase = Group!Max(Now)
  BY DEF Group!SlotBase, Group!Queued
<1>9. Group!Max(Now) \in Now /\ \A y \in Now : Group!Max(Now) >= y
  BY <1>7 DEF Group!Max, HasLast
<1> QED
  BY <1>5, <1>8, <1>9

LEMMA SlotAfterBase ==
  ASSUME ClassBTypes, NEW s \in Group!NextPingSlot(Group!SlotBase)
  PROVE  NextSlot(s)
<1>1. Group!SlotBase \in Int /\ Group!SlotBase >= -MaxPast
      /\ (DOMAIN mqueue = {} => Group!SlotBase = MarginB)
  <2>1. CASE DOMAIN mqueue = {}
    BY <2>1, GroupConstants DEF Group!SlotBase, Group!Queued
  <2>2. CASE DOMAIN mqueue # {}
    BY <2>2, LastEmission
  <2> QED  BY <2>1, <2>2
<1>2. s \in Int /\ s > Group!SlotBase
  <2> DEFINE ahead == {x \in Group!Range(emit) : x > Group!SlotBase}
  <2>1. CASE ahead = {}
    <3>1. s \in Group!SlotBase + 1 .. Group!SlotBase + GroupPeriod
      BY <2>1 DEF Group!NextPingSlot
    <3> QED  BY <3>1, <1>1, GroupConstants
  <2>2. CASE ahead # {}
    <3>1. s = Group!Min(ahead)
      BY <2>2 DEF Group!NextPingSlot
    <3>2. Group!Range(emit) \subseteq Int
      BY DEF Group!Range, ClassBTypes
    <3>3. ahead \subseteq Int /\ \A x \in ahead : x > Group!SlotBase
      BY <3>2
    <3>4. Group!Min(ahead) \in ahead
      BY <2>2, <3>3, <1>1, FirstTime
    <3> QED  BY <3>1, <3>3, <3>4
  <2> QED  BY <2>1, <2>2
<1>3. \A i \in DOMAIN mqueue : s > emit[i[1]]
  <2> SUFFICES ASSUME NEW i \in DOMAIN mqueue PROVE s > emit[i[1]]
    OBVIOUS
  <2>1. emit[i[1]] \in Int
    BY DEF ClassBTypes, Framed
  <2>2. Group!SlotBase >= emit[i[1]]
    BY LastEmission
  <2> QED  BY <1>1, <1>2, <2>1, <2>2
<1> QED
  BY <1>1, <1>2, <1>3, GroupConstants DEF NextSlot

(* What Enqueue does with a Class-B frame.                                 *)
Enqueued(s) ==
  LET f == frames + 1
      added == {f} \X Gateway
  IN /\ frames' = f
     /\ DOMAIN mqueue' = DOMAIN mqueue \union added
     /\ mqueue' \in [DOMAIN mqueue' -> Int]
     /\ \A i \in DOMAIN mqueue : mqueue'[i] = mqueue[i]
     /\ \A i \in added : mqueue'[i] >= s - 2 * Interval
                         /\ (s >= 2 * Interval => mqueue'[i] = s - 2 * Interval)
     /\ emit' \in [1 .. f -> Int] /\ emit'[f] = s
     /\ \A g \in 1 .. frames : emit'[g] = emit[g]
     /\ prompt' = IF DOMAIN mqueue = {} THEN {i \in added : i[2] \in online} ELSE prompt
     /\ UNCHANGED <<mtask, working, elapsed, sent, online, onAir, early>>

LEMMA EnqueueB ==
  ASSUME ClassBTypes, kind = "B", Group!Enqueue
  PROVE  \E s \in Int : NextSlot(s) /\ Enqueued(s)
<1> DEFINE f == frames + 1
           added == {f} \X Gateway
<1>1. PICK r \in Group!Schedules :
        /\ mqueue' = [i \in DOMAIN mqueue \union added |->
                       IF i \in added THEN Group!Max({r.run[i[2]], -MaxPast}) ELSE mqueue[i]]
        /\ emit' = [g \in DOMAIN emit \union (IF r.emit = {} THEN {} ELSE {f}) |->
                       IF g = f THEN Group!Max(r.emit) ELSE emit[g]]
  BY DEF Group!Enqueue, Group!Queued
<1>2. PICK s \in Group!NextPingSlot(Group!SlotBase) :
        r = [run |-> [g \in Gateway |-> Group!RunAt(s)], emit |-> {s}]
  BY <1>1 DEF Group!Schedules
<1>3. NextSlot(s)
  BY SlotAfterBase
<1>4. s \in Int /\ s > -MaxPast
  BY <1>3 DEF NextSlot
<1>5. /\ r.emit = {s} /\ \A g \in Gateway : r.run[g] = s - 2 * Interval
  BY <1>2 DEF Group!RunAt
<1>6. Group!Max(r.emit) = s
  <2>1. Group!Max({s, s}) = s
    BY <1>4, GroupLaterOfTwo
  <2> QED  BY <2>1, <1>5
<1>7. f \notin 1 .. frames /\ (1 .. frames) \union {f} = 1 .. f /\ f \in Nat
  BY DEF ClassBTypes
<1>8. emit' = [g \in 1 .. f |-> IF g = f THEN s ELSE emit[g]]
  BY <1>1, <1>5, <1>6, <1>7 DEF ClassBTypes
<1>9. emit' \in [1 .. f -> Int] /\ emit'[f] = s /\ \A g \in 1 .. frames : emit'[g] = emit[g]
  BY <1>4, <1>7, <1>8 DEF ClassBTypes
<1>10. \A i \in DOMAIN mqueue : i \notin added
  BY <1>7 DEF ClassBTypes, Framed
<1>11. \A i \in added : /\ mqueue'[i] \in Int /\ mqueue'[i] >= s - 2 * Interval
                        /\ (s >= 2 * Interval => mqueue'[i] = s - 2 * Interval)
  <2> SUFFICES ASSUME NEW i \in added
               PROVE  /\ mqueue'[i] \in Int /\ mqueue'[i] >= s - 2 * Interval
                      /\ (s >= 2 * Interval => mqueue'[i] = s - 2 * Interval)
    OBVIOUS
  <2>1. mqueue'[i] = Group!Max({s - 2 * Interval, -MaxPast})
    BY <1>1, <1>5
  <2>2. s - 2 * Interval \in Int /\ -MaxPast \in Int
    BY <1>4, GroupConstants
  <2>3. mqueue'[i] = IF s - 2 * Interval >= -MaxPast THEN s - 2 * Interval ELSE -MaxPast
    BY <2>1, <2>2, GroupLaterOfTwo
  <2> QED  BY <1>4, <2>2, <2>3, GroupConstants
<1>12. /\ DOMAIN mqueue' = DOMAIN mqueue \union added
       /\ \A i \in DOMAIN mqueue : mqueue'[i] = mqueue[i]
  BY <1>1, <1>10
<1>13. mqueue' \in [DOMAIN mqueue' -> Int]
  BY <1>1, <1>11, <1>12 DEF ClassBTypes
<1>14. /\ frames' = f
       /\ prompt' = IF DOMAIN mqueue = {} THEN {i \in added : i[2] \in online} ELSE prompt
       /\ UNCHANGED <<mtask, working, elapsed, sent, online, onAir, early>>
  BY DEF Group!Enqueue, Group!Queued, Group!loops
<1> QED
  BY <1>3, <1>4, <1>9, <1>11, <1>12, <1>13, <1>14 DEF Enqueued

(* What the passing of time does with a time.                              *)
Passed(t) == IF t - 1 >= -MaxPast THEN t - 1 ELSE -MaxPast

LEMMA EarlierTimes ==
  ASSUME NEW D, NEW times \in [D -> Int]
  PROVE  Group!Earlier(times) = [x \in D |-> Passed(times[x])]
<1>1. \A x \in D : Group!Max({times[x] - 1, -MaxPast}) = Passed(times[x])
  <2> SUFFICES ASSUME NEW x \in D PROVE Group!Max({times[x] - 1, -MaxPast}) = Passed(times[x])
    OBVIOUS
  <2>1. times[x] - 1 \in Int /\ -MaxPast \in Int
    BY GroupConstants
  <2> QED  BY <2>1, GroupLaterOfTwo DEF Passed
<1> QED
  BY <1>1 DEF Group!Earlier

LEMMA PassedTime ==
  ASSUME NEW t \in Int
  PROVE  /\ Passed(t) \in Int /\ Passed(t) >= -MaxPast /\ Passed(t) >= t - 1
         /\ (t >= -MaxPast => Passed(t) <= t)
BY GroupConstants DEF Passed

(* What Tick does.                                                         *)
Ticked ==
  /\ mqueue' = [i \in DOMAIN mqueue |-> Passed(mqueue[i])]
  /\ emit' = [f \in 1 .. frames |-> Passed(emit[f])]
  /\ elapsed' = [s \in Server |-> elapsed[s] + 1]
  /\ \A s \in Server : elapsed[s] < IF s \in working THEN GroupDelay ELSE Interval
  /\ UNCHANGED <<frames, mtask, working, sent, online, onAir, prompt, early>>

LEMMA TickB ==
  ASSUME ClassBTypes, Group!Tick
  PROVE  Ticked
<1>1. /\ Group!Earlier(mqueue) = [i \in DOMAIN mqueue |-> Passed(mqueue[i])]
      /\ Group!Earlier(emit) = [f \in 1 .. frames |-> Passed(emit[f])]
  BY EarlierTimes DEF ClassBTypes
<1> QED
  BY <1>1 DEF Ticked, Group!Tick

(* What a turn of a loop does.                                             *)
Turned(s, batch) ==
  /\ s \notin working /\ elapsed[s] = Interval
  /\ batch \subseteq DOMAIN mqueue \ DOMAIN mtask /\ \A i \in batch : mqueue[i] <= 0
  /\ mqueue' = [i \in DOMAIN mqueue |-> IF i \in batch THEN SchedulerLock ELSE mqueue[i]]
  /\ mtask' = [i \in DOMAIN mtask \union batch |-> IF i \in batch THEN s ELSE mtask[i]]
  /\ prompt' \subseteq prompt
  /\ \A i \in prompt' : i \in DOMAIN mqueue /\ i \notin DOMAIN mtask \union batch => ~Group!Due(i)
  /\ working' = working \union {s} /\ elapsed' = [elapsed EXCEPT ![s] = 0]
  /\ UNCHANGED <<frames, emit, sent, online, onAir, early>>

LEMMA TurnB ==
  ASSUME NEW s \in Server, Group!Turn(s)
  PROVE  \E batch \in SUBSET DOMAIN mqueue : Turned(s, batch)
<1> DEFINE due == {i \in DOMAIN mqueue \ DOMAIN mtask : Group!Due(i)}
<1>1. PICK batch \in SUBSET due :
        /\ mqueue' = [i \in DOMAIN mqueue |-> IF i \in batch THEN SchedulerLock ELSE mqueue[i]]
        /\ mtask' = [i \in DOMAIN mtask \union batch |-> IF i \in batch THEN s ELSE mtask[i]]
        /\ prompt' = prompt \ (due \ batch)
  BY DEF Group!Turn, Group!Queued, Group!Busy
<1>2. \A i \in batch : mqueue[i] <= 0
  BY DEF Group!Due
<1>3. \A i \in prompt' : i \in DOMAIN mqueue /\ i \notin DOMAIN mtask \union batch => ~Group!Due(i)
  BY <1>1
<1>4. /\ s \notin working /\ elapsed[s] = Interval
      /\ working' = working \union {s} /\ elapsed' = [elapsed EXCEPT ![s] = 0]
      /\ UNCHANGED <<frames, emit, sent, online, onAir, early>>
  BY DEF Group!Turn
<1>5. batch \subseteq DOMAIN mqueue \ DOMAIN mtask /\ prompt' \subseteq prompt
  BY <1>1
<1> QED
  BY <1>1, <1>2, <1>3, <1>4, <1>5 DEF Turned

(* What a task, an acknowledgement or a fault does with an item.           *)
Shrunk(f, i) == [j \in DOMAIN f \ {i} |-> f[j]]

LEMMA WithoutItem ==
  ASSUME NEW f, NEW i
  PROVE  Group!Without(f, i) = Shrunk(f, i)
BY DEF Group!Without, Group!Restrict, Shrunk

LEMMA ClassBTypesNext ==
  ASSUME kind = "B", ClassBTypes, MulticastStep
  PROVE  ClassBTypes'
<1> USE GroupConstants
<1>1. CASE Group!Enqueue
  <2>1. PICK s \in Int : NextSlot(s) /\ Enqueued(s)
    BY <1>1, EnqueueB
  <2> DEFINE f == frames + 1
  <2>2. frames' = f /\ f \in Nat /\ 1 .. frames \subseteq 1 .. f /\ f \in 1 .. f
        /\ \A g \in 1 .. f : g \in 1 .. frames \/ g = f
    BY <2>1 DEF Enqueued, ClassBTypes
  <2>3. Framed(DOMAIN mqueue)' /\ Framed(DOMAIN mtask)' /\ Framed(prompt)' /\ onAir' \subseteq 1 .. frames'
    BY <2>1, <2>2 DEF Enqueued, ClassBTypes, Framed
  <2>4. /\ emit' \in [1 .. frames' -> Int]
        /\ \A g \in 1 .. frames' : emit'[g] >= -MaxPast
    <3>1. emit' \in [1 .. f -> Int]
      BY <2>1 DEF Enqueued
    <3>2. emit'[f] = s /\ s > -MaxPast
      BY <2>1 DEF Enqueued, NextSlot
    <3>3. \A g \in 1 .. frames : emit'[g] = emit[g] /\ emit[g] >= -MaxPast
      BY <2>1 DEF Enqueued, ClassBTypes
    <3>4. ASSUME NEW g \in 1 .. f PROVE emit'[g] >= -MaxPast
      <4>1. CASE g \in 1 .. frames
        BY <3>3, <4>1
      <4>2. CASE g = f
        BY <3>2, <4>2
      <4> QED  BY <2>2, <4>1, <4>2
    <3> QED  BY <2>2, <3>1, <3>4
  <2>5. /\ mqueue' \in [DOMAIN mqueue' -> Int] /\ sent' \subseteq DOMAIN mqueue'
        /\ LoopTypes'
    BY <2>1 DEF Enqueued, ClassBTypes, LoopTypes
  <2> QED  BY <2>2, <2>3, <2>4, <2>5 DEF ClassBTypes
<1>2. CASE Group!Flush
  <2>1. mqueue' = <<>> /\ sent' = {}
        /\ UNCHANGED <<frames, emit, mtask, working, elapsed, onAir, prompt>>
    BY <1>2 DEF Group!Flush, Group!loops
  <2>2. DOMAIN mqueue' = {} /\ mqueue' \in [{} -> Int]
    BY <2>1
  <2> QED  BY <2>1, <2>2 DEF ClassBTypes, Framed, LoopTypes
<1>3. CASE Group!Tick
  <2>1. Ticked
    BY <1>3, TickB
  <2>2. /\ DOMAIN mqueue' = DOMAIN mqueue /\ DOMAIN mtask' = DOMAIN mtask
        /\ UNCHANGED <<frames, sent, onAir, prompt>>
    BY <2>1 DEF Ticked
  <2>3. /\ mqueue' \in [DOMAIN mqueue -> Int] /\ emit' \in [1 .. frames -> Int]
        /\ \A f \in 1 .. frames : emit'[f] >= -MaxPast
    BY <2>1, PassedTime DEF Ticked, ClassBTypes
  <2>4. LoopTypes'
    BY <2>1 DEF Ticked, ClassBTypes, LoopTypes
  <2> QED  BY <2>2, <2>3, <2>4 DEF ClassBTypes, Framed
<1>4. ASSUME NEW s \in Server, Group!Turn(s) PROVE ClassBTypes'
  <2>1. PICK batch \in SUBSET DOMAIN mqueue : Turned(s, batch)
    BY <1>4, TurnB
  <2>2. DOMAIN mqueue' = DOMAIN mqueue /\ mqueue' \in [DOMAIN mqueue -> Int]
    BY <2>1 DEF Turned, ClassBTypes
  <2>3. DOMAIN mtask' = DOMAIN mtask \union batch
    BY <2>1 DEF Turned
  <2>4. LoopTypes'
    BY <2>1 DEF Turned, ClassBTypes, LoopTypes
  <2> QED  BY <2>1, <2>2, <2>3, <2>4 DEF Turned, ClassBTypes, Framed
<1>9. ASSUME NEW s \in Server, Group!EndBatch(s) PROVE ClassBTypes'
  <2>1. LoopTypes'
    BY <1>9 DEF Group!EndBatch, Group!Busy, ClassBTypes, LoopTypes
  <2> QED  BY <1>9, <2>1 DEF Group!EndBatch, ClassBTypes, Framed
<1>5. ASSUME NEW i \in Group!Item,
             Group!Discard(i) \/ Group!Send(i) \/ Group!Fail(i) \/ Group!TxAck(i) \/ Group!LoseAck(i)
      PROVE  ClassBTypes'
  <2>1. \/ mqueue' = mqueue /\ sent' \subseteq DOMAIN mqueue
        \/ mqueue' = Shrunk(mqueue, i) /\ sent' = sent \ {i}
    <3>1. CASE Group!Discard(i) \/ Group!TxAck(i)
      <4>1. mqueue' = Group!Without(mqueue, i) /\ sent' = sent \ {i}
        BY <3>1 DEF Group!Discard, Group!TxAck
      <4> QED  BY <4>1, WithoutItem
    <3>2. CASE Group!Send(i) \/ Group!Fail(i) \/ Group!LoseAck(i)
      BY <3>2 DEF Group!Send, Group!Fail, Group!LoseAck, ClassBTypes, Group!Queued
    <3> QED  BY <1>5, <3>1, <3>2
  <2>2. mtask' = mtask \/ mtask' = Shrunk(mtask, i)
    BY <1>5, WithoutItem DEF Group!Discard, Group!Send, Group!Fail, Group!TxAck, Group!LoseAck
  <2>3. /\ prompt' \subseteq prompt /\ onAir' \subseteq 1 .. frames
        /\ UNCHANGED <<frames, emit, working, elapsed>>
    <3>1. i \in DOMAIN mtask => i[1] \in 1 .. frames
      BY DEF ClassBTypes, Framed
    <3> QED
      BY <1>5, <3>1 DEF Group!Discard, Group!Send, Group!Fail, Group!TxAck, Group!LoseAck, Group!Busy,
                   Group!loops, ClassBTypes
  <2>4. /\ Framed(DOMAIN mqueue') /\ mqueue' \in [DOMAIN mqueue' -> Int]
        /\ sent' \subseteq DOMAIN mqueue'
    BY <2>1 DEF ClassBTypes, Framed, Shrunk
  <2>5. Framed(DOMAIN mtask') /\ LoopTypes'
    BY <2>2, <2>3 DEF ClassBTypes, Framed, Shrunk, LoopTypes
  <2> QED  BY <2>3, <2>4, <2>5 DEF ClassBTypes, Framed
<1>6. ASSUME NEW g \in Gateway, Group!GoOffline(g) \/ Group!GoOnline(g) PROVE ClassBTypes'
  BY <1>6 DEF Group!GoOffline, Group!GoOnline, Group!loops, ClassBTypes, Framed, LoopTypes
<1>7. CASE UNCHANGED Group!vars
  BY <1>7 DEF Group!vars, Group!loops, ClassBTypes, Framed, LoopTypes
<1> QED
  BY <1>1, <1>2, <1>3, <1>4, <1>5, <1>6, <1>7, <1>9 DEF MulticastStep, Group!Next

(* An item is not due earlier than two intervals before its slot, so that  *)
(* what a task works on, or a gateway was handed, has its slot soon.       *)
SlotsNear ==
  /\ \A i \in DOMAIN mqueue : mqueue[i] >= emit[i[1]] - 2 * Interval
  /\ \A i \in DOMAIN mtask : emit[i[1]] <= 2 * Interval
  /\ \A f \in onAir : emit[f] <= 2 * Interval

LEMMA SlotsNearNext ==
  ASSUME kind = "B", ClassBTypes, SlotsNear, MulticastStep
  PROVE  SlotsNear'
<1> USE GroupConstants
<1>1. \A i \in DOMAIN mqueue \union DOMAIN mtask : i[1] \in 1 .. frames
  BY DEF ClassBTypes, Framed
<1>2. CASE Group!Enqueue
  <2>1. PICK s \in Int : Enqueued(s)
    BY <1>2, EnqueueB
  <2>2. \A i \in DOMAIN mqueue' : mqueue'[i] >= emit'[i[1]] - 2 * Interval
    <3> SUFFICES ASSUME NEW i \in DOMAIN mqueue' PROVE mqueue'[i] >= emit'[i[1]] - 2 * Interval
      OBVIOUS
    <3>1. CASE i \in DOMAIN mqueue
      BY <3>1, <2>1, <1>1 DEF Enqueued, SlotsNear
    <3>2. CASE i \in {frames + 1} \X Gateway
      BY <3>2, <2>1 DEF Enqueued
    <3> QED  BY <2>1, <3>1, <3>2 DEF Enqueued
  <2> QED
    BY <2>1, <2>2, <1>1 DEF Enqueued, SlotsNear, ClassBTypes
<1>3. CASE Group!Tick
  <2>1. Ticked
    BY <1>3, TickB
  <2>2. \A f \in 1 .. frames : /\ emit[f] \in Int /\ emit[f] >= -MaxPast
                               /\ emit'[f] = Passed(emit[f])
    BY <2>1 DEF Ticked, ClassBTypes
  <2>3. \A f \in 1 .. frames : emit[f] <= 2 * Interval => emit'[f] <= 2 * Interval
    <3> SUFFICES ASSUME NEW f \in 1 .. frames, emit[f] <= 2 * Interval
                 PROVE  emit'[f] <= 2 * Interval
      OBVIOUS
    <3>1. Passed(emit[f]) \in Int /\ Passed(emit[f]) <= emit[f]
      BY <2>2, PassedTime
    <3> QED  BY <2>2, <3>1
  <2>4. \A i \in DOMAIN mqueue : mqueue'[i] >= emit'[i[1]] - 2 * Interval
    <3> SUFFICES ASSUME NEW i \in DOMAIN mqueue PROVE mqueue'[i] >= emit'[i[1]] - 2 * Interval
      OBVIOUS
    <3>1. mqueue[i] \in Int /\ mqueue[i] >= emit[i[1]] - 2 * Interval
      BY DEF ClassBTypes, SlotsNear
    <3>2. mqueue'[i] = Passed(mqueue[i]) /\ emit'[i[1]] = Passed(emit[i[1]]) /\ emit[i[1]] \in Int
      BY <1>1, <2>1, <2>2 DEF Ticked
    <3> QED  BY <3>1, <3>2 DEF Passed
  <2>5. DOMAIN mqueue' = DOMAIN mqueue /\ DOMAIN mtask' = DOMAIN mtask /\ onAir' = onAir
    BY <2>1 DEF Ticked
  <2> QED
    BY <1>1, <2>3, <2>4, <2>5 DEF SlotsNear, ClassBTypes
<1>4. ASSUME NEW s \in Server, Group!Turn(s) PROVE SlotsNear'
  <2>1. PICK batch \in SUBSET DOMAIN mqueue : Turned(s, batch)
    BY <1>4, TurnB
  <2>2. \A i \in batch : /\ i \in DOMAIN mqueue /\ mqueue[i] \in Int /\ mqueue[i] <= 0
                         /\ emit[i[1]] \in Int
    BY <1>1, <2>1 DEF Turned, ClassBTypes
  <2>3. \A i \in batch : emit[i[1]] <= 2 * Interval
    BY <2>2 DEF SlotsNear
  <2>4. /\ DOMAIN mqueue' = DOMAIN mqueue
        /\ \A i \in DOMAIN mqueue : mqueue'[i] = IF i \in batch THEN SchedulerLock ELSE mqueue[i]
        /\ DOMAIN mtask' = DOMAIN mtask \union batch
        /\ UNCHANGED <<emit, onAir>>
    BY <2>1 DEF Turned
  <2>5. \A i \in DOMAIN mqueue : mqueue'[i] >= emit[i[1]] - 2 * Interval
    BY <2>2, <2>3, <2>4 DEF SlotsNear
  <2> QED
    BY <2>3, <2>4, <2>5 DEF SlotsNear
<1>9. ASSUME NEW s \in Server, Group!EndBatch(s) PROVE SlotsNear'
  BY <1>9 DEF Group!EndBatch, SlotsNear
<1>5. ASSUME NEW i \in Group!Item,
             Group!Discard(i) \/ Group!Send(i) \/ Group!Fail(i) \/ Group!TxAck(i) \/ Group!LoseAck(i)
      PROVE  SlotsNear'
  <2>1. mqueue' = mqueue \/ mqueue' = Shrunk(mqueue, i)
    BY <1>5, WithoutItem DEF Group!Discard, Group!Send, Group!Fail, Group!TxAck, Group!LoseAck
  <2>2. mtask' = mtask \/ mtask' = Shrunk(mtask, i)
    BY <1>5, WithoutItem DEF Group!Discard, Group!Send, Group!Fail, Group!TxAck, Group!LoseAck
  <2>3. emit' = emit /\ (onAir' = onAir \/ (i \in DOMAIN mtask /\ onAir' = onAir \union {i[1]}))
    BY <1>5 DEF Group!Discard, Group!Send, Group!Fail, Group!TxAck, Group!LoseAck, Group!Busy
  <2>4. \A j \in DOMAIN mqueue' : j \in DOMAIN mqueue /\ mqueue'[j] = mqueue[j]
    BY <2>1 DEF Shrunk
  <2>5. DOMAIN mtask' \subseteq DOMAIN mtask
    BY <2>2 DEF Shrunk
  <2> QED
    BY <2>3, <2>4, <2>5 DEF SlotsNear
<1>6. ASSUME NEW g \in Gateway, Group!GoOffline(g) \/ Group!GoOnline(g) PROVE SlotsNear'
  BY <1>6 DEF Group!GoOffline, Group!GoOnline, SlotsNear
<1>7. CASE Group!Flush
  BY <1>7 DEF Group!Flush, SlotsNear
<1>8. CASE UNCHANGED Group!vars
  BY <1>8 DEF Group!vars, SlotsNear
<1> QED
  BY <1>2, <1>3, <1>4, <1>5, <1>6, <1>7, <1>8, <1>9 DEF MulticastStep, Group!Next

(* The frames that are queued, worked on or handed over.                   *)
Committed(f) ==
  f \in onAir \/ \E i \in DOMAIN mqueue \union DOMAIN mtask : i[1] = f
InQueue(f) == \E i \in DOMAIN mqueue : i[1] = f

(* The slots of the frames ascend: a frame that left the queue has a slot  *)
(* no later than those of the frames in the queue, or is in early.         *)
SlotsAscend ==
  /\ \A f \in 1 .. frames : Committed(f) /\ ~InQueue(f) /\ f \notin early
       => \A j \in DOMAIN mqueue : emit[j[1]] >= emit[f]
  /\ \A f, g \in 1 .. frames : f < g /\ Committed(f) /\ f \notin early
       => emit[f] < emit[g] \/ emit[g] = -MaxPast

(* A step that enqueues no frame and lets no time pass keeps the order when *)
(* it commits no frame, and a frame that leaves the queue is the first.    *)
LEMMA AscendingStays ==
  ASSUME SlotsAscend, UNCHANGED <<frames, emit>>, early \subseteq early',
         DOMAIN mqueue' \subseteq DOMAIN mqueue,
         \A f \in 1 .. frames : Committed(f)' => Committed(f),
         \A f \in 1 .. frames : InQueue(f) /\ ~InQueue(f)' /\ f \notin early'
            => \A j \in DOMAIN mqueue' : emit[j[1]] >= emit[f]
  PROVE  SlotsAscend'
<1>1. ASSUME NEW f \in 1 .. frames, Committed(f)', ~InQueue(f)', f \notin early'
      PROVE  \A j \in DOMAIN mqueue' : emit[j[1]] >= emit[f]
  <2>1. CASE InQueue(f)
    BY <1>1, <2>1
  <2>2. CASE ~InQueue(f)
    BY <1>1, <2>2 DEF SlotsAscend
  <2> QED  BY <2>1, <2>2
<1>2. ASSUME NEW f \in 1 .. frames, NEW g \in 1 .. frames, f < g, Committed(f)', f \notin early'
      PROVE  emit[f] < emit[g] \/ emit[g] = -MaxPast
  BY <1>2 DEF SlotsAscend
<1> QED
  BY <1>1, <1>2 DEF SlotsAscend

LEMMA LeaveInOrder ==
  ASSUME kind = "B", ClassBTypes, NEW i \in Group!Item, Group!Leave(i),
         mqueue' = Shrunk(mqueue, i)
  PROVE  /\ early \subseteq early'
         /\ \A f \in 1 .. frames : InQueue(f) /\ ~InQueue(f)' /\ f \notin early'
              => \A j \in DOMAIN mqueue' : emit[j[1]] >= emit[f]
<1>1. DOMAIN mqueue' = DOMAIN mqueue \ {i}
  BY DEF Shrunk
<1>2. early \subseteq early'
  BY DEF Group!Leave
<1>3. ASSUME NEW f \in 1 .. frames, InQueue(f), ~InQueue(f)', f \notin early',
             NEW j \in DOMAIN mqueue'
      PROVE  emit[j[1]] >= emit[f]
  <2>1. i[1] = f /\ i \in DOMAIN mqueue
    BY <1>1, <1>3 DEF InQueue
  <2>2. \A k \in DOMAIN mqueue \ {i} : k[1] # f
    BY <1>1, <1>3 DEF InQueue
  <2>3. ~\E k \in DOMAIN mqueue \ {i} : emit[k[1]] < emit[i[1]]
    <3>1. early' = early \union {i[1]} \/ ~\E k \in DOMAIN mqueue \ {i} : emit[k[1]] < emit[i[1]]
      BY <2>1, <2>2 DEF Group!Leave, Group!Queued
    <3> QED  BY <1>3, <2>1, <3>1
  <2>4. emit[j[1]] \in Int /\ emit[f] \in Int
    BY <1>1, <1>3 DEF ClassBTypes, Framed
  <2> QED  BY <1>1, <1>3, <2>1, <2>3, <2>4
<1> QED
  BY <1>2, <1>3

LEMMA SlotsAscendNext ==
  ASSUME kind = "B", Group!MarginCovers, ClassBTypes, SlotsNear, SlotsAscend, MulticastStep
  PROVE  SlotsAscend'
<1> USE GroupConstants
<1>1. \A i \in DOMAIN mqueue \union DOMAIN mtask : i[1] \in 1 .. frames
  BY DEF ClassBTypes, Framed
<1>2. CASE Group!Enqueue
  <2>1. PICK s \in Int : NextSlot(s) /\ Enqueued(s)
    BY <1>2, EnqueueB
  <2> DEFINE n == frames + 1
  <2>2. /\ frames' = n /\ n \in Nat /\ n \notin 1 .. frames
        /\ \A f \in 1 .. n : f \in 1 .. frames \/ f = n
        /\ \A f \in 1 .. frames : f < n
    BY <2>1 DEF Enqueued, ClassBTypes
  <2>3. /\ emit'[n] = s /\ \A f \in 1 .. frames : emit'[f] = emit[f] /\ emit[f] \in Int
        /\ onAir' = onAir /\ early' = early /\ DOMAIN mtask' = DOMAIN mtask
        /\ DOMAIN mqueue' = DOMAIN mqueue \union ({n} \X Gateway)
    BY <2>1 DEF Enqueued, ClassBTypes
  <2>4. \A f \in 1 .. frames : (Committed(f)' <=> Committed(f)) /\ (InQueue(f)' <=> InQueue(f))
    <3> SUFFICES ASSUME NEW f \in 1 .. frames
                 PROVE  (Committed(f)' <=> Committed(f)) /\ (InQueue(f)' <=> InQueue(f))
      OBVIOUS
    <3>1. \A i \in {n} \X Gateway : i[1] # f
      BY <2>2
    <3> QED  BY <2>3, <3>1 DEF Committed, InQueue
  <2>5. \A f \in 1 .. frames : Committed(f) /\ f \notin early => emit[f] < s
    <3> SUFFICES ASSUME NEW f \in 1 .. frames, Committed(f), f \notin early
                 PROVE  emit[f] < s
      OBVIOUS
    <3>1. CASE InQueue(f)
      BY <3>1, <2>1 DEF InQueue, NextSlot
    <3>2. CASE ~InQueue(f)
      <4>1. CASE DOMAIN mqueue = {}
        <5>1. emit[f] <= 2 * Interval
          BY <3>2 DEF Committed, InQueue, SlotsNear
        <5> QED  BY <2>1, <2>3, <4>1, <5>1 DEF NextSlot, Group!MarginCovers
      <4>2. CASE DOMAIN mqueue # {}
        <5>1. PICK j \in DOMAIN mqueue : TRUE
          BY <4>2
        <5>2. emit[j[1]] >= emit[f] /\ s > emit[j[1]]
          BY <3>2, <2>1 DEF SlotsAscend, NextSlot
        <5>3. emit[j[1]] \in Int
          BY <1>1, <2>3
        <5> QED  BY <2>3, <5>2, <5>3
      <4> QED  BY <4>1, <4>2
    <3> QED  BY <3>1, <3>2
  <2>6. ASSUME NEW f \in 1 .. n, Committed(f)', ~InQueue(f)', f \notin early,
               NEW j \in DOMAIN mqueue'
        PROVE  emit'[j[1]] >= emit'[f]
    <3>1. CASE f = n
      <4>1. \A i \in DOMAIN mtask : i[1] # n
        BY <1>1, <2>2
      <4>2. n \notin onAir
        BY <2>2 DEF ClassBTypes
      <4> QED  BY <2>3, <2>6, <3>1, <4>1, <4>2 DEF Committed, InQueue
    <3>2. CASE f \in 1 .. frames
      <4>1. Committed(f) /\ ~InQueue(f) /\ emit[f] < s
        BY <2>4, <2>5, <2>6, <3>2
      <4>2. CASE j \in DOMAIN mqueue
        BY <1>1, <2>3, <2>6, <3>2, <4>1, <4>2 DEF SlotsAscend
      <4>3. CASE j \in {n} \X Gateway
        BY <2>3, <3>2, <4>1, <4>3
      <4> QED  BY <2>3, <4>2, <4>3
    <3> QED  BY <2>2, <3>1, <3>2
  <2>7. ASSUME NEW f \in 1 .. n, NEW g \in 1 .. n, f < g, Committed(f)', f \notin early
        PROVE  emit'[f] < emit'[g] \/ emit'[g] = -MaxPast
    <3>1. f \in 1 .. frames
      BY <2>2, <2>7
    <3>2. CASE g = n
      BY <2>3, <2>4, <2>5, <2>7, <3>1, <3>2
    <3>3. CASE g \in 1 .. frames
      BY <2>3, <2>4, <2>7, <3>1, <3>3 DEF SlotsAscend
    <3> QED  BY <2>2, <3>2, <3>3
  <2> QED  BY <2>2, <2>3, <2>6, <2>7 DEF SlotsAscend
<1>3. CASE Group!Tick
  <2>1. Ticked
    BY <1>3, TickB
  <2>2. /\ DOMAIN mqueue' = DOMAIN mqueue /\ DOMAIN mtask' = DOMAIN mtask
        /\ UNCHANGED <<frames, onAir, early>>
        /\ \A f \in 1 .. frames : emit[f] \in Int /\ emit[f] >= -MaxPast
                                  /\ emit'[f] = Passed(emit[f])
    BY <2>1 DEF Ticked, ClassBTypes
  <2>3. \A f \in 1 .. frames : (Committed(f)' <=> Committed(f)) /\ (InQueue(f)' <=> InQueue(f))
    BY <2>2 DEF Committed, InQueue
  <2>4. \A a, b \in Int : /\ a >= b => Passed(a) >= Passed(b)
                          /\ a < b => Passed(a) < Passed(b) \/ Passed(b) = -MaxPast
                          /\ a = -MaxPast => Passed(a) = -MaxPast
    BY DEF Passed
  <2>5. ASSUME NEW f \in 1 .. frames, Committed(f), ~InQueue(f), f \notin early,
               NEW j \in DOMAIN mqueue
        PROVE  emit'[j[1]] >= emit'[f]
    <3>1. emit[j[1]] >= emit[f]
      BY <2>5 DEF SlotsAscend
    <3> QED  BY <1>1, <2>2, <2>4, <3>1
  <2>6. ASSUME NEW f \in 1 .. frames, NEW g \in 1 .. frames, f < g, Committed(f), f \notin early
        PROVE  emit'[f] < emit'[g] \/ emit'[g] = -MaxPast
    <3>1. emit[f] < emit[g] \/ emit[g] = -MaxPast
      BY <2>6 DEF SlotsAscend
    <3> QED  BY <2>2, <2>4, <3>1
  <2> QED  BY <2>2, <2>3, <2>5, <2>6 DEF SlotsAscend
<1>4. ASSUME NEW s \in Server, Group!Turn(s) PROVE SlotsAscend'
  <2>1. PICK batch \in SUBSET DOMAIN mqueue : Turned(s, batch)
    BY <1>4, TurnB
  <2>2. /\ DOMAIN mqueue' = DOMAIN mqueue /\ DOMAIN mtask' = DOMAIN mtask \union batch
        /\ batch \subseteq DOMAIN mqueue
        /\ UNCHANGED <<frames, emit, onAir, early>>
    BY <2>1 DEF Turned
  <2>3. \A f \in 1 .. frames : (Committed(f)' => Committed(f)) /\ (InQueue(f)' <=> InQueue(f))
    BY <2>2 DEF Committed, InQueue
  <2> QED  BY <2>2, <2>3, AscendingStays
<1>5. ASSUME NEW i \in Group!Item, Group!Discard(i) \/ Group!TxAck(i) PROVE SlotsAscend'
  <2>1. /\ mqueue' = Shrunk(mqueue, i) /\ Group!Leave(i)
        /\ mtask' = mtask \/ mtask' = Shrunk(mtask, i)
        /\ UNCHANGED <<frames, emit, onAir>>
    BY <1>5, WithoutItem DEF Group!Discard, Group!TxAck
  <2>2. DOMAIN mqueue' \subseteq DOMAIN mqueue /\ DOMAIN mtask' \subseteq DOMAIN mtask
    BY <2>1 DEF Shrunk
  <2>3. \A f \in 1 .. frames : Committed(f)' => Committed(f)
    BY <2>1, <2>2 DEF Committed
  <2>4. /\ early \subseteq early'
        /\ \A f \in 1 .. frames : InQueue(f) /\ ~InQueue(f)' /\ f \notin early'
             => \A j \in DOMAIN mqueue' : emit[j[1]] >= emit[f]
    BY <2>1, LeaveInOrder
  <2> QED  BY <2>1, <2>2, <2>3, <2>4, AscendingStays
<1>6. ASSUME NEW i \in Group!Item, Group!Send(i) \/ Group!Fail(i) \/ Group!LoseAck(i)
      PROVE  SlotsAscend'
  <2>1. /\ mqueue' = mqueue
        /\ mtask' = mtask \/ mtask' = Shrunk(mtask, i)
        /\ onAir' = onAir \/ (i \in DOMAIN mtask /\ onAir' = onAir \union {i[1]})
        /\ UNCHANGED <<frames, emit, early>>
    BY <1>6, WithoutItem DEF Group!Send, Group!Fail, Group!LoseAck, Group!Busy
  <2>2. DOMAIN mtask' \subseteq DOMAIN mtask
    BY <2>1 DEF Shrunk
  <2>3. \A f \in 1 .. frames : (Committed(f)' => Committed(f)) /\ (InQueue(f)' <=> InQueue(f))
    BY <2>1, <2>2 DEF Committed, InQueue
  <2> QED  BY <2>1, <2>3, AscendingStays
<1>7. CASE Group!Flush
  <2>1. DOMAIN mqueue' = {} /\ UNCHANGED <<frames, emit, mtask, onAir, early>>
    BY <1>7 DEF Group!Flush
  <2>2. \A f \in 1 .. frames : Committed(f)' => Committed(f)
    BY <2>1 DEF Committed
  <2> QED  BY <2>1, <2>2, AscendingStays
<1>8. CASE UNCHANGED <<frames, mqueue, emit, mtask, onAir, early>>
  BY <1>8 DEF SlotsAscend, Committed, InQueue
<1> QED
  BY <1>2, <1>3, <1>4, <1>5, <1>6, <1>7, <1>8
     DEF MulticastStep, Group!Next, Group!GoOffline, Group!GoOnline, Group!EndBatch,
         Group!vars

(* The inductive invariant of SlotsDistinct.  A group of Class C has       *)
(* nothing on the air that the property looks at.                          *)
MulticastInv ==
  /\ kind = "B" => ClassBTypes /\ SlotsNear /\ (Group!MarginCovers => SlotsAscend)
  /\ kind # "B" => onAir = {}

LEMMA MulticastInvInit ==
  Group!Init => MulticastInv
<1> SUFFICES ASSUME Group!Init PROVE MulticastInv
  OBVIOUS
<1>1. frames = 0 /\ mqueue = <<>> /\ mtask = <<>> /\ onAir = {}
  BY DEF Group!Init
<1>2. DOMAIN mqueue = {} /\ DOMAIN mtask = {} /\ 1 .. frames = {}
  BY <1>1
<1> QED
  BY <1>1, <1>2, ClassBTypesInit DEF MulticastInv, SlotsNear, SlotsAscend

LEMMA MulticastInvNext ==
  ASSUME MulticastInv, MulticastStep
  PROVE  MulticastInv'
<1>1. kind' = kind /\ (kind # "B" => onAir' = onAir)
  BY DEF MulticastStep, Group!vars, Group!Next, Group!Enqueue, Group!Flush, Group!Turn, Group!EndBatch,
         Group!Discard, Group!Send, Group!Fail, Group!TxAck, Group!LoseAck, Group!GoOffline,
         Group!GoOnline, Group!Tick
<1>2. Group!MarginCovers' <=> Group!MarginCovers
  BY DEF Group!MarginCovers
<1>3. CASE kind = "B"
  BY <1>1, <1>2, <1>3, ClassBTypesNext, SlotsNearNext, SlotsAscendNext DEF MulticastInv
<1>4. CASE kind # "B"
  BY <1>1, <1>4 DEF MulticastInv
<1> QED
  BY <1>3, <1>4

LEMMA MulticastInvImpliesSlotsDistinct ==
  MulticastInv => Group!SlotsDistinct
<1> SUFFICES ASSUME MulticastInv, Group!MarginCovers,
                    NEW f \in onAir, NEW g \in onAir, f < g, f \notin early, emit[f] > -MaxPast
             PROVE  emit[f] # emit[g]
  BY DEF Group!SlotsDistinct
<1>1. ClassBTypes /\ SlotsAscend
  BY DEF MulticastInv
<1>2. f \in 1 .. frames /\ g \in 1 .. frames /\ Committed(f)
  BY <1>1 DEF ClassBTypes, Committed
<1>3. emit[f] < emit[g] \/ emit[g] = -MaxPast
  BY <1>1, <1>2 DEF SlotsAscend
<1>4. emit[f] \in Int /\ emit[g] \in Int
  BY <1>1, <1>2 DEF ClassBTypes
<1> QED
  BY <1>3, <1>4, GroupConstants

(* SlotsDistinct: when the margin covers the scheduler's two intervals, no *)
(* two frames of a Class-B group are handed over for one ping-slot unless  *)
(* the first left the queue before a frame of an earlier slot, however     *)
(* many frames, gateways and tasks there are.                              *)
THEOREM GroupSlotsTakenOnce == Spec => []SlotsDistinct
<1>1. MulticastInv /\ [Group!Next]_(Group!vars) => MulticastInv'
  BY MulticastInvNext DEF MulticastStep
<1> QED
  BY <1>1, MulticastInvInit, MulticastInvImpliesSlotsDistinct, LoopsAreIndependent, PTL
     DEF SlotsDistinct, Group!FairSpec, Group!Spec

(* An item whose frame met an empty queue comes due two intervals before   *)
(* its slot.  Left is how long it may take until the next turn of a loop:  *)
(* the rest of a batch and the interval, after which there is enough time  *)
(* for the task.                                                           *)
Left(s) ==
  IF s \in working THEN (GroupDelay - elapsed[s]) + Interval ELSE Interval - elapsed[s]

PromptInv ==
  /\ \A i \in prompt : i \in DOMAIN mqueue /\ i \notin DOMAIN mtask =>
       /\ i[2] \in online
       /\ mqueue[i] > 0 => emit[i[1]] >= mqueue[i] + 2 * Interval
       /\ \A s \in Server : emit[i[1]] > Left(s) + (Interval - GroupDelay)
  /\ \A i \in prompt : i \in DOMAIN mtask => emit[i[1]] + elapsed[mtask[i]] > GroupDelay

LEMMA LeftBounds ==
  ASSUME LoopTypes, NEW s \in Server
  PROVE  Left(s) \in 0 .. GroupDelay + Interval
BY GroupConstants DEF LoopTypes, Left

LEMMA PromptNext ==
  ASSUME kind = "B", Group!MarginCovers, Group!BatchesAreShort, ClassBTypes, PromptInv,
         MulticastStep
  PROVE  PromptInv'
<1> USE GroupConstants
<1>1. \A i \in DOMAIN mqueue \union DOMAIN mtask \union prompt : i[1] \in 1 .. frames /\ i[2] \in Gateway
  BY DEF ClassBTypes, Framed
<1>2. CASE Group!Enqueue
  <2>1. PICK s \in Int : NextSlot(s) /\ Enqueued(s)
    BY <1>2, EnqueueB
  <2> DEFINE n == frames + 1
  <2>2. /\ n \notin 1 .. frames /\ emit'[n] = s /\ \A f \in 1 .. frames : emit'[f] = emit[f]
        /\ DOMAIN mqueue' = DOMAIN mqueue \union ({n} \X Gateway)
        /\ \A i \in DOMAIN mqueue : mqueue'[i] = mqueue[i]
        /\ UNCHANGED <<mtask, working, elapsed, online>>
    BY <2>1 DEF Enqueued, ClassBTypes
  <2>3. CASE DOMAIN mqueue = {}
    <3>1. s \in Int /\ s > 2 * Interval
      BY <2>1, <2>3 DEF NextSlot, Group!MarginCovers
    <3>2. \A i \in prompt' : /\ i \in {n} \X Gateway /\ i[2] \in online
                             /\ mqueue'[i] = s - 2 * Interval
      BY <2>1, <2>3, <3>1 DEF Enqueued
    <3>3. \A i \in prompt' : i[1] = n /\ i \notin DOMAIN mtask'
      BY <1>1, <2>2, <3>2
    <3>4. \A i \in prompt' : emit'[i[1]] >= mqueue'[i] + 2 * Interval
      BY <2>2, <3>1, <3>2, <3>3
    <3>5. ASSUME NEW i \in prompt', NEW q \in Server
          PROVE  emit'[i[1]] > Left(q)' + (Interval - GroupDelay)
      <4>1. Left(q) <= GroupDelay + Interval /\ Left(q) \in Int
        BY LeftBounds DEF ClassBTypes
      <4>2. Left(q)' = Left(q)
        BY <2>2 DEF Left
      <4>3. emit'[i[1]] = s
        BY <2>2, <3>3
      <4> QED  BY <3>1, <4>1, <4>2, <4>3
    <3> QED  BY <2>2, <3>2, <3>3, <3>4, <3>5 DEF PromptInv
  <2>4. CASE DOMAIN mqueue # {}
    <3>1. prompt' = prompt
      BY <2>1, <2>4 DEF Enqueued
    <3>2. \A i \in prompt : i \in DOMAIN mqueue' => i \in DOMAIN mqueue
      BY <1>1, <2>2
    <3> QED  BY <1>1, <2>2, <3>1, <3>2 DEF PromptInv, Left
  <2> QED  BY <2>3, <2>4
<1>3. CASE Group!Tick
  <2>1. Ticked
    BY <1>3, TickB
  <2>2. /\ DOMAIN mqueue' = DOMAIN mqueue
        /\ UNCHANGED <<frames, mtask, working, online, prompt>>
        /\ \A f \in 1 .. frames : emit[f] \in Int /\ emit'[f] \in Int /\ emit'[f] >= emit[f] - 1
        /\ \A q \in Server : elapsed[q] \in Nat /\ elapsed'[q] = elapsed[q] + 1
    BY <2>1, PassedTime DEF Ticked, ClassBTypes, LoopTypes
  <2>3. ASSUME NEW i \in prompt, i \in DOMAIN mqueue, i \notin DOMAIN mtask
        PROVE  /\ i[2] \in online
               /\ mqueue'[i] > 0 => emit'[i[1]] >= mqueue'[i] + 2 * Interval
               /\ \A q \in Server : emit'[i[1]] > Left(q)' + (Interval - GroupDelay)
    <3>1. /\ i[2] \in online /\ mqueue[i] \in Int
          /\ mqueue[i] > 0 => emit[i[1]] >= mqueue[i] + 2 * Interval
          /\ \A q \in Server : emit[i[1]] > Left(q) + (Interval - GroupDelay)
      BY <2>3 DEF PromptInv, ClassBTypes
    <3>2. emit[i[1]] \in Int /\ emit'[i[1]] \in Int /\ emit'[i[1]] >= emit[i[1]] - 1
      BY <1>1, <2>2
    <3>3. mqueue'[i] > 0 => mqueue'[i] = mqueue[i] - 1
      BY <2>1, <2>3, <3>1 DEF Ticked, Passed
    <3>4. ASSUME NEW q \in Server PROVE emit'[i[1]] > Left(q)' + (Interval - GroupDelay)
      <4>1. Left(q)' = Left(q) - 1 /\ Left(q) \in Int
        BY <2>2 DEF Left
      <4> QED  BY <3>1, <3>2, <4>1
    <3> QED  BY <3>1, <3>2, <3>3, <3>4
  <2>4. ASSUME NEW i \in prompt, i \in DOMAIN mtask
        PROVE  emit'[i[1]] + elapsed'[mtask'[i]] > GroupDelay
    <3>1. emit[i[1]] + elapsed[mtask[i]] > GroupDelay /\ mtask[i] \in Server
      BY <2>4 DEF PromptInv, ClassBTypes, LoopTypes
    <3>2. emit[i[1]] \in Int /\ emit'[i[1]] \in Int /\ emit'[i[1]] >= emit[i[1]] - 1
      BY <1>1, <2>2
    <3> QED  BY <2>2, <3>1, <3>2
  <2> QED  BY <2>2, <2>3, <2>4 DEF PromptInv
<1>4. ASSUME NEW s \in Server, Group!Turn(s) PROVE PromptInv'
  <2>1. PICK batch \in SUBSET DOMAIN mqueue : Turned(s, batch)
    BY <1>4, TurnB
  <2>2. /\ batch \subseteq DOMAIN mqueue \ DOMAIN mtask /\ UNCHANGED <<emit, online>>
        /\ prompt' \subseteq prompt
        /\ DOMAIN mqueue' = DOMAIN mqueue /\ DOMAIN mtask' = DOMAIN mtask \union batch
        /\ \A i \in DOMAIN mqueue \ batch : mqueue'[i] = mqueue[i]
        /\ \A i \in batch : mtask'[i] = s
        /\ \A i \in DOMAIN mtask : mtask'[i] = mtask[i]
    BY <2>1 DEF Turned
  <2>3. /\ s \notin working /\ elapsed[s] = Interval
        /\ elapsed'[s] = 0 /\ \A q \in Server \ {s} : elapsed'[q] = elapsed[q]
        /\ working' = working \union {s}
    BY <2>1 DEF Turned, ClassBTypes, LoopTypes
  <2>4. Left(s) = 0 /\ Left(s)' = GroupDelay + Interval /\ \A q \in Server \ {s} : Left(q)' = Left(q)
    BY <2>3 DEF Left
  <2>5. ASSUME NEW i \in prompt', i \in DOMAIN mqueue', i \notin DOMAIN mtask'
        PROVE  /\ i[2] \in online'
               /\ mqueue'[i] > 0 => emit'[i[1]] >= mqueue'[i] + 2 * Interval
               /\ \A q \in Server : emit'[i[1]] > Left(q)' + (Interval - GroupDelay)
    <3>1. i \in prompt /\ i \in DOMAIN mqueue /\ i \notin DOMAIN mtask /\ i \notin batch
      BY <2>2, <2>5
    <3>2. /\ i[2] \in online /\ mqueue[i] \in Int /\ emit[i[1]] \in Int
          /\ mqueue[i] > 0 => emit[i[1]] >= mqueue[i] + 2 * Interval
          /\ \A q \in Server : emit[i[1]] > Left(q) + (Interval - GroupDelay)
      BY <1>1, <3>1 DEF PromptInv, ClassBTypes
    <3>3. mqueue[i] > 0
      <4>1. ~Group!Due(i)
        BY <2>1, <2>5, <3>1 DEF Turned
      <4> QED  BY <3>2, <4>1 DEF Group!Due
    <3>4. emit[i[1]] > Left(s)' + (Interval - GroupDelay)
      BY <2>4, <3>2, <3>3
    <3> QED  BY <2>2, <2>4, <3>1, <3>2, <3>4
  <2>6. ASSUME NEW i \in prompt', i \in DOMAIN mtask'
        PROVE  emit'[i[1]] + elapsed'[mtask'[i]] > GroupDelay
    <3>1. CASE i \in batch
      <4>1. emit[i[1]] \in Int /\ emit[i[1]] > Left(s) + (Interval - GroupDelay)
        BY <1>1, <2>2, <2>6, <3>1 DEF PromptInv, ClassBTypes
      <4>2. elapsed'[mtask'[i]] = 0
        BY <2>2, <2>3, <3>1
      <4> QED  BY <2>2, <2>4, <4>1, <4>2 DEF Group!BatchesAreShort
    <3>2. CASE i \in DOMAIN mtask
      <4>1. mtask[i] \in Server \ {s}
        BY <2>3, <3>2 DEF ClassBTypes, LoopTypes
      <4>2. emit[i[1]] + elapsed[mtask[i]] > GroupDelay
        BY <2>2, <2>6, <3>2 DEF PromptInv
      <4> QED  BY <2>2, <2>3, <3>2, <4>1, <4>2
    <3> QED  BY <2>2, <2>6, <3>1, <3>2
  <2> QED  BY <2>5, <2>6 DEF PromptInv
<1>9. ASSUME NEW s \in Server, Group!EndBatch(s) PROVE PromptInv'
  <2>1. /\ s \in working /\ \A i \in DOMAIN mtask : mtask[i] # s
        /\ working' = working \ {s} /\ elapsed' = [elapsed EXCEPT ![s] = 0]
        /\ UNCHANGED <<mqueue, mtask, emit, online, prompt>>
    BY <1>9 DEF Group!EndBatch, Group!Busy
  <2>2. /\ elapsed'[s] = 0 /\ \A q \in Server \ {s} : elapsed'[q] = elapsed[q]
        /\ elapsed[s] \in 0 .. GroupDelay
    BY <2>1 DEF ClassBTypes, LoopTypes
  <2>3. Left(s)' <= Left(s) /\ Left(s) \in Int /\ Left(s)' \in Int
        /\ \A q \in Server \ {s} : Left(q)' = Left(q)
    BY <2>1, <2>2 DEF Left
  <2>4. ASSUME NEW i \in prompt, i \in DOMAIN mqueue, i \notin DOMAIN mtask, NEW q \in Server
        PROVE  emit[i[1]] > Left(q)' + (Interval - GroupDelay)
    <3>1. emit[i[1]] \in Int /\ emit[i[1]] > Left(q) + (Interval - GroupDelay)
      BY <1>1, <2>4 DEF PromptInv, ClassBTypes
    <3> QED  BY <2>3, <3>1
  <2>5. \A i \in DOMAIN mtask : mtask[i] \in Server \ {s}
    BY <2>1 DEF ClassBTypes, LoopTypes
  <2> QED  BY <2>1, <2>2, <2>4, <2>5 DEF PromptInv
<1>5. ASSUME NEW i \in Group!Item,
             Group!Discard(i) \/ Group!Send(i) \/ Group!Fail(i) \/ Group!TxAck(i) \/ Group!LoseAck(i)
      PROVE  PromptInv'
  <2>1. mqueue' = mqueue \/ mqueue' = Shrunk(mqueue, i)
    BY <1>5, WithoutItem DEF Group!Discard, Group!Send, Group!Fail, Group!TxAck, Group!LoseAck
  <2>2. mtask' = mtask \/ mtask' = Shrunk(mtask, i)
    BY <1>5, WithoutItem DEF Group!Discard, Group!Send, Group!Fail, Group!TxAck, Group!LoseAck
  <2>3. /\ emit' = emit /\ online' = online /\ prompt' \subseteq prompt
        /\ mtask' = mtask \/ i \notin prompt' \/ mqueue' = Shrunk(mqueue, i)
        /\ UNCHANGED <<working, elapsed>>
    BY <1>5, WithoutItem DEF Group!Discard, Group!Send, Group!Fail, Group!TxAck, Group!LoseAck, Group!loops
  <2>4. \A j \in DOMAIN mqueue' : j \in DOMAIN mqueue /\ mqueue'[j] = mqueue[j]
    BY <2>1 DEF Shrunk
  <2>5. \A j \in DOMAIN mtask' : j \in DOMAIN mtask /\ mtask'[j] = mtask[j]
    BY <2>2 DEF Shrunk
  <2>6. \A j \in prompt' : j \in DOMAIN mqueue' /\ j \notin DOMAIN mtask' => j \notin DOMAIN mtask
    BY <2>2, <2>3 DEF Shrunk
  <2> QED  BY <2>3, <2>4, <2>5, <2>6 DEF PromptInv, Left
<1>6. ASSUME NEW g \in Gateway, Group!GoOffline(g) \/ Group!GoOnline(g) PROVE PromptInv'
  <2>1. /\ UNCHANGED <<mqueue, mtask, working, elapsed, emit>> /\ prompt' \subseteq prompt
        /\ \A i \in prompt' : i[2] \in online => i[2] \in online'
    BY <1>6 DEF Group!GoOffline, Group!GoOnline, Group!loops
  <2> QED  BY <2>1 DEF PromptInv, Left
<1>7. CASE Group!Flush
  <2>1. DOMAIN mqueue' = {} /\ UNCHANGED <<emit, mtask, elapsed, prompt>>
    BY <1>7 DEF Group!Flush, Group!loops
  <2> QED  BY <2>1 DEF PromptInv
<1>8. CASE UNCHANGED Group!vars
  BY <1>8 DEF Group!vars, Group!loops, PromptInv, Left
<1> QED
  BY <1>2, <1>3, <1>4, <1>5, <1>6, <1>7, <1>8, <1>9 DEF MulticastStep, Group!Next

(* The inductive invariant of SlotInTime.                                  *)
InTimeInv ==
  kind = "B" /\ Group!MarginCovers /\ Group!BatchesAreShort => ClassBTypes /\ PromptInv

LEMMA InTimeInvNext ==
  ASSUME InTimeInv, MulticastStep
  PROVE  InTimeInv'
<1>1. kind' = kind
  BY DEF MulticastStep, Group!vars, Group!Next, Group!Enqueue, Group!Flush, Group!Turn, Group!EndBatch,
         Group!Discard, Group!Send, Group!Fail, Group!TxAck, Group!LoseAck, Group!GoOffline,
         Group!GoOnline, Group!Tick
<1>2. /\ Group!MarginCovers' <=> Group!MarginCovers
      /\ Group!BatchesAreShort' <=> Group!BatchesAreShort
  BY DEF Group!MarginCovers, Group!BatchesAreShort
<1> QED
  BY <1>1, <1>2, ClassBTypesNext, PromptNext DEF InTimeInv

LEMMA SentInTime ==
  ASSUME InTimeInv, NEW i \in Group!Item, kind = "B", i \in prompt, Group!Send(i),
         Group!MarginCovers, Group!BatchesAreShort
  PROVE  emit[i[1]] > 0
<1>1. i \in DOMAIN mtask
  BY DEF Group!Send, Group!Busy
<1>2. emit[i[1]] + elapsed[mtask[i]] > GroupDelay
  BY <1>1 DEF InTimeInv, PromptInv
<1>3. emit[i[1]] \in Int /\ elapsed[mtask[i]] \in 0 .. GroupDelay
  BY <1>1 DEF InTimeInv, ClassBTypes, LoopTypes, Framed
<1> QED
  BY <1>2, <1>3, GroupConstants

(* SlotInTime: an item of a Class-B group whose frame met an empty queue   *)
(* whose gateway stays online and for which the batches have room is       *)
(* handed over before its ping-slot, when the margin covers two intervals  *)
(* of the loop and two batches fit into one.                               *)
THEOREM SlotsReachedInTime == Spec => SlotInTime
<1>1. Group!Init => InTimeInv
  <2>1. Group!Init => prompt = {}
    BY DEF Group!Init
  <2> QED  BY <2>1, ClassBTypesInit DEF InTimeInv, PromptInv
<1>2. InTimeInv /\ [Group!Next]_(Group!vars) => InTimeInv'
  BY InTimeInvNext DEF MulticastStep
<1>3. InTimeInv /\ [Group!Next]_(Group!vars)
        => [\A i \in Group!Item : kind = "B" /\ i \in prompt /\ Group!Send(i) /\ Group!MarginCovers
              /\ Group!BatchesAreShort => emit[i[1]] > 0]_(Group!vars)
  BY SentInTime
<1> QED
  BY <1>1, <1>2, <1>3, LoopsAreIndependent, PTL
     DEF SlotInTime, Group!SlotInTime, Group!FairSpec, Group!Spec
=============================================================================
