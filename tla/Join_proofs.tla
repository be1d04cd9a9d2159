------------------------------- MODULE Join_proofs -------------------------------
(***************************************************************************)
(* Proofs about Join for any number of handlers, dev-nonces and API calls: *)
(* type correctness, that neither copies of a join-request nor flushed     *)
(* dev-nonces make the server accept a nonce or issue a session twice, and *)
(* that a device which joined finds its session on the server.             *)
(***************************************************************************)
EXTENDS Join, TLAPS

(* The remainder grows with the number until it starts over.               *)
LEMMA RemainderNext ==
  ASSUME NEW n \in Int, NEW M \in Int, M > 0, n % M # M - 1
  PROVE  (n + 1) % M = (n % M) + 1
<1>1. n = M * (n \div M) + (n % M)
  OBVIOUS
<1>2. n % M \in 0 .. M - 1 /\ n \div M \in Int
  OBVIOUS
<1>3. ASSUME NEW m \in Int, NEW k \in Int, NEW r \in 0 .. M - 1, m = k * M + r
      PROVE  m % M = r
  BY <1>3, Z3T(30)
<1>4. PICK k \in Int, r \in 0 .. M - 1 : k = n \div M /\ r = n % M
  BY <1>2
<1>5. n + 1 = k * M + (r + 1) /\ r + 1 \in 0 .. M - 1 /\ n + 1 \in Int
  BY <1>1, <1>4
<1>6. (n + 1) % M = r + 1
  BY <1>3, <1>4, <1>5
<1> QED
  BY <1>4, <1>6

USE JoinAssumption

-----------------------------------------------------------------------------
(* The local data of a handler.                                            *)
Work == [dn : DevNonce \cup {-1}, session : Session \cup {NoSession}]
WorkOK(h) ==
  /\ pc[h] \in {"keys", "nonce", "session", "accept"} => task[h].dn \in DevNonce
  /\ pc[h] \in {"session", "accept"} => task[h].session \in Session
Steps == {"idle", "keys", "nonce", "session", "accept", "write"}

LEMMA NoTaskType == NoTask \in Work
  BY DEF NoTask, Work, NoSession

LEMMA SessionType ==
  ASSUME NEW dn \in DevNonce, NEW jn \in JoinNonce
  PROVE  [dn |-> dn, jn |-> jn] \in Session
  BY DEF Session

(* The three bytes of a join-nonce grow with it until they start over.     *)
LEMMA WireType ==
  ASSUME NEW n \in Nat
  PROVE  Wire(n) \in JoinNonce
  BY DEF Wire, JoinNonce

LEMMA WireNext ==
  ASSUME NEW n \in Nat, Wire(n) # JoinNonceModulus - 1
  PROVE  Wire(n + 1) = Wire(n) + 1
  BY RemainderNext, JoinAssumption DEF Wire

(* A step that gives one handler well-typed data keeps all data well-typed.*)
LEMMA WorkStep ==
  ASSUME TypeOK, NEW h \in Handler, NEW step \in Steps, NEW w \in Work,
         pc' = [pc EXCEPT ![h] = step], task' = [task EXCEPT ![h] = w],
         step \in {"keys", "nonce", "session", "accept"} => w.dn \in DevNonce,
         step \in {"session", "accept"} => w.session \in Session
  PROVE  /\ pc' \in [Handler -> Steps]
         /\ task' \in [Handler -> Work]
         /\ \A g \in Handler : WorkOK(g)'
  BY DEF TypeOK, Work, WorkOK, Steps

LEMMA FinishStep ==
  ASSUME TypeOK, NEW h \in Handler, Finish(h)
  PROVE  /\ pc' \in [Handler -> Steps]
         /\ task' \in [Handler -> Work]
         /\ \A g \in Handler : WorkOK(g)'
  BY NoTaskType, WorkStep DEF Finish, Goto, Steps

(* A handler goes on to another step with the data it has.                 *)
LEMMA GotoStep ==
  ASSUME TypeOK, NEW h \in Handler, NEW step \in Steps, Goto(h, step), UNCHANGED task,
         step \in {"keys", "nonce", "session", "accept"} => task[h].dn \in DevNonce,
         step \in {"session", "accept"} => task[h].session \in Session
  PROVE  /\ pc' \in [Handler -> Steps]
         /\ task' \in [Handler -> Work]
         /\ \A g \in Handler : WorkOK(g)'
  BY DEF TypeOK, Work, WorkOK, Steps, Goto

(* TypeOK in terms of these definitions.                                   *)
RestOK ==
  /\ serial \in BOOLEAN
  /\ keys \in Keys \cup {NoKeys}
  /\ edit \in Keys \cup {NoKeys}
  /\ edits \in 0 .. MaxEdits
  /\ row \in [addr : Session \cup {NoSession}, session : Session \cup {NoSession}]
  /\ air \subseteq Session
  /\ device \in [dn : DevNonce \cup {-1}, joined : BOOLEAN,
                 session : Session \cup {NoSession}, jn : JoinNonce \cup {-1}]
  /\ issued \subseteq Session /\ reissued \subseteq Session
  /\ lost \subseteq Session /\ rolled \subseteq Session
  /\ accepted \subseteq DevNonce /\ reaccepted \subseteq DevNonce /\ freed \subseteq DevNonce

LEMMA TypeParts ==
  TypeOK <=> /\ RestOK
             /\ pc \in [Handler -> Steps]
             /\ task \in [Handler -> Work]
             /\ \A g \in Handler : WorkOK(g)
  BY DEF TypeOK, RestOK, Work, WorkOK, Steps

LEMMA TypeInit == Init => TypeOK
<1> SUFFICES ASSUME Init PROVE TypeOK
  OBVIOUS
<1>1. RestOK
  BY DEF Init, RestOK, Keys, NoKeys, FreshKeys, NoSession, Session, DevNonce
<1>2. /\ pc \in [Handler -> Steps]
      /\ task \in [Handler -> Work]
      /\ \A g \in Handler : WorkOK(g)
  BY NoTaskType DEF Init, Steps, WorkOK
<1> QED
  BY <1>1, <1>2, TypeParts

LEMMA TypeNext == TypeOK /\ [Next]_vars => TypeOK'
<1> SUFFICES ASSUME TypeOK, [Next]_vars PROVE TypeOK'
  OBVIOUS
<1> DEFINE Tasks == /\ pc' \in [Handler -> Steps]
                    /\ task' \in [Handler -> Work]
                    /\ \A g \in Handler : WorkOK(g)'
<1>0. RestOK /\ pc \in [Handler -> Steps] /\ task \in [Handler -> Work]
      /\ \A g \in Handler : WorkOK(g)
  BY TypeParts
<1>1. ASSUME UNCHANGED <<pc, task>>, RestOK'
      PROVE  TypeOK'
  BY <1>0, <1>1 DEF TypeOK, RestOK, Work, WorkOK, Steps
<1>2. ASSUME RestOK', Tasks
      PROVE  TypeOK'
  BY <1>2 DEF TypeOK, RestOK, Work, WorkOK, Steps
<1>3. ASSUME NEW dn \in DevNonce, SendJoinRequest(dn)
      PROVE  TypeOK'
  BY <1>0, <1>1, <1>3 DEF SendJoinRequest, RestOK, keyVars, history
<1>4. ASSUME NEW s \in air, ReceiveAccept(s)
      PROVE  TypeOK'
  <2>1. s \in Session /\ s.jn \in JoinNonce
    BY <1>0 DEF RestOK, Session
  <2> QED
    BY <1>0, <1>1, <1>4, <2>1 DEF ReceiveAccept, RestOK, keyVars, history
<1>5. ASSUME CreateKeys \/ DeleteKeys
      PROVE  TypeOK'
  BY <1>0, <1>1, <1>5 DEF CreateKeys, DeleteKeys, RestOK, history, Keys, NoKeys, FreshKeys
<1>6. CASE FlushDevNonces
  BY <1>0, <1>1, <1>6 DEF FlushDevNonces, RestOK, history, Keys, NoKeys
<1>7. ASSUME UpdateKeysGet \/ UpdateKeysPut
      PROVE  TypeOK'
  BY <1>0, <1>1, <1>7 DEF UpdateKeysGet, UpdateKeysPut, RestOK, history, Keys, NoKeys
<1>8. ASSUME NEW h \in Handler, NEW dn \in DevNonce, JoinRequest(h, dn)
      PROVE  TypeOK'
  <2> DEFINE w == [NoTask EXCEPT !.dn = dn]
  <2>1. w \in Work /\ w.dn = dn
    BY DEF NoTask, Work, NoSession
  <2>2. Tasks
    BY <1>8, <2>1, WorkStep DEF JoinRequest, Goto, Steps
  <2> QED
    BY <1>0, <1>2, <1>8, <2>2 DEF JoinRequest, RestOK, keyVars, history
<1>9. ASSUME NEW h \in Handler, GetDeviceKeys(h)
      PROVE  TypeOK'
  <2>1. Tasks
    BY <1>0, <1>9, FinishStep, GotoStep DEF GetDeviceKeys, WorkOK, Steps
  <2> QED
    BY <1>0, <1>2, <1>9, <2>1 DEF GetDeviceKeys, RestOK, keyVars, history
<1>10. ASSUME NEW h \in Handler, ValidateDevNonce(h)
       PROVE  TypeOK'
  <2>1. task[h].dn \in DevNonce /\ task[h] \in Work
    BY <1>0, <1>10 DEF ValidateDevNonce, StoreDevNonce, WorkOK
  <2>2. CASE Finish(h) /\ UNCHANGED <<keys, history>>
    BY <1>0, <1>2, <1>10, <2>2, FinishStep DEF ValidateDevNonce, StoreDevNonce, RestOK, history
  <2>3. CASE keys # NoKeys /\ ~(Finish(h) /\ UNCHANGED <<keys, history>>)
    <3> DEFINE s == [dn |-> task[h].dn, jn |-> Wire(keys.joinNonce)]
               w == [task[h] EXCEPT !.session = s]
    <3>1. keys \in Keys /\ keys.joinNonce \in Nat
      BY <1>0, <2>3 DEF RestOK, Keys
    <3>2. s \in Session
      BY <2>1, <3>1, WireType, SessionType
    <3>3. w \in Work /\ w.dn = task[h].dn /\ w.session = s
      BY <2>1, <3>2 DEF Work
    <3>4. keys' = [nonces |-> keys.nonces \cup {task[h].dn}, joinNonce |-> keys.joinNonce + 1]
          /\ accepted' = accepted \cup {task[h].dn}
          /\ reaccepted' = reaccepted \cup (accepted \cap {task[h].dn})
          /\ \/ Finish(h) /\ UNCHANGED <<issued, reissued>>
             \/ /\ issued' = issued \cup {s} /\ reissued' = reissued \cup (issued \cap {s})
                /\ task' = [task EXCEPT ![h] = w]
                /\ Goto(h, "session")
          /\ rolled' \in {rolled, rolled \cup issued'}
      BY <1>10, <1>0, <2>3 DEF ValidateDevNonce, StoreDevNonce
    <3>5. keys' \in Keys
      BY <2>1, <3>1, <3>4 DEF Keys
    <3>6. Tasks
      <4>1. CASE Finish(h)
        BY <4>1, FinishStep
      <4>2. CASE task' = [task EXCEPT ![h] = w] /\ Goto(h, "session")
        <5> HIDE DEF w, s
        <5> QED
          BY <2>1, <3>2, <3>3, <4>2, WorkStep DEF Goto, Steps
      <4> QED
        BY <3>4, <4>1, <4>2
    <3>7. RestOK'
      <4> HIDE DEF s
      <4> QED
        BY <1>0, <1>10, <2>1, <3>2, <3>4, <3>5 DEF ValidateDevNonce, StoreDevNonce, RestOK
    <3> QED
      BY <1>2, <3>6, <3>7
  <2> QED
    BY <1>10, <2>2, <2>3 DEF ValidateDevNonce, StoreDevNonce
<1>11. ASSUME NEW h \in Handler, UpdateDevice(h)
       PROVE  TypeOK'
  <2>1. task[h].dn \in DevNonce /\ task[h].session \in Session
    BY <1>0, <1>11 DEF UpdateDevice, WorkOK
  <2>2. Tasks
    BY <1>11, <2>1, GotoStep DEF UpdateDevice, Steps
  <2> QED
    BY <1>0, <1>2, <1>11, <2>1, <2>2 DEF UpdateDevice, RestOK, keyVars, history
<1>12. ASSUME NEW h \in Handler, SendJoinAccept(h)
       PROVE  TypeOK'
  <2>1. task[h].session \in Session
    BY <1>0, <1>12 DEF SendJoinAccept, WorkOK
  <2> QED
    BY <1>0, <1>2, <1>12, <2>1, FinishStep DEF SendJoinAccept, RestOK, keyVars, history
<1>13. ASSUME NEW h \in Handler, Uplink(h)
       PROVE  TypeOK'
  <2> DEFINE w == [dn |-> -1, session |-> row.session]
  <2>1. w \in Work
    BY <1>0 DEF RestOK, Work
  <2>2. Tasks
    BY <1>13, <2>1, WorkStep DEF Uplink, Goto, Steps
  <2> QED
    BY <1>0, <1>2, <1>13, <2>2 DEF Uplink, RestOK, keyVars, history
<1>14. ASSUME NEW h \in Handler, UplinkUpdateDevice(h)
       PROVE  TypeOK'
  <2>1. task[h].session \in Session \cup {NoSession}
    BY <1>0 DEF Work
  <2> QED
    BY <1>0, <1>2, <1>14, <2>1, FinishStep DEF UplinkUpdateDevice, RestOK, keyVars, history
<1>15. ASSUME NEW h \in Handler, Abort(h)
       PROVE  TypeOK'
  BY <1>0, <1>2, <1>15, FinishStep DEF Abort, RestOK, keyVars, history
<1>16. CASE UNCHANGED vars
  BY <1>0, <1>1, <1>16 DEF vars, RestOK, keyVars, history
<1> QED
  BY <1>3, <1>4, <1>5, <1>6, <1>7, <1>8, <1>9, <1>10, <1>11, <1>12, <1>13, <1>14, <1>15, <1>16
     DEF Next, HandlerStep

(* Type correctness of every behaviour.                                    *)
THEOREM TypeCorrect == Spec => []TypeOK
  BY TypeInit, TypeNext, PTL DEF Spec

-----------------------------------------------------------------------------
(* The row of the keys covers every accepted nonce and issued join-nonce,  *)
(* unless the API removed them from it or the three bytes started over.    *)
LEMMA KeysInit == Init => KeysInv
  BY DEF Init, KeysInv, NonceAcceptedOnce, KeysUsedOnce, NoncesRemembered, JoinNoncesPassed

LEMMA KeysNext == TypeOK /\ KeysInv /\ [Next]_vars => KeysInv'
<1> SUFFICES ASSUME TypeOK, KeysInv, [Next]_vars PROVE KeysInv'
  OBVIOUS
<1> USE DEF KeysInv, NonceAcceptedOnce, KeysUsedOnce, NoncesRemembered, JoinNoncesPassed
<1>0. /\ keys \in Keys \cup {NoKeys} /\ edit \in Keys \cup {NoKeys}
      /\ \A s \in issued : s.jn \in JoinNonce
  BY DEF TypeOK, Session
<1>1. ASSUME UNCHANGED <<keys, issued, reissued, accepted, reaccepted, lost, freed, rolled>>
      PROVE  KeysInv'
  BY <1>1
<1>2. CASE CreateKeys
  <2>1. keys = NoKeys /\ keys' = FreshKeys /\ UNCHANGED <<lost, freed, history>>
    BY <1>2 DEF CreateKeys
  <2> QED
    BY <1>0, <2>1 DEF FreshKeys, NoKeys, history
<1>3. CASE DeleteKeys
  BY <1>0, <1>3 DEF DeleteKeys, history
<1>4. CASE FlushDevNonces
  BY <1>0, <1>4 DEF FlushDevNonces, NoKeys, Keys, history
<1>5. CASE UpdateKeysPut
  <2>1. CASE keys = NoKeys
    BY <1>5, <2>1 DEF UpdateKeysPut, history
  <2>2. CASE keys # NoKeys
    <3>1. Wire(edit.joinNonce) \in JoinNonce /\ edit # NoKeys
      BY <1>0, <1>5, WireType DEF UpdateKeysPut, Keys
    <3>2. /\ keys' = edit /\ UNCHANGED <<issued, reissued, accepted, reaccepted, rolled>>
          /\ lost' = lost \cup {s \in issued : s.jn >= Wire(edit.joinNonce)}
          /\ freed' = freed \cup (keys.nonces \ edit.nonces)
      BY <1>5, <2>2 DEF UpdateKeysPut, history
    <3>3. JoinNoncesPassed'
      BY <1>0, <3>1, <3>2 DEF JoinNonce
    <3>4. NoncesRemembered' /\ NonceAcceptedOnce' /\ KeysUsedOnce'
      BY <3>2
    <3> QED
      BY <3>3, <3>4
  <2> QED
    BY <2>1, <2>2
<1>6. ASSUME NEW h \in Handler, ValidateDevNonce(h)
      PROVE  KeysInv'
  <2> DEFINE dn == task[h].dn
             s == [dn |-> dn, jn |-> Wire(keys.joinNonce)]
  <2>1. CASE UNCHANGED <<keys, history>>
    BY <1>1, <1>6, <2>1 DEF ValidateDevNonce, StoreDevNonce, history
  <2>2. CASE /\ keys # NoKeys /\ dn \notin keys.nonces
             /\ ~(UNCHANGED <<keys, history>>)
    <3>1. keys.joinNonce \in Nat /\ Wire(keys.joinNonce) \in JoinNonce
      BY <1>0, <2>2, WireType DEF Keys
    <3>2. /\ keys' # NoKeys
          /\ keys'.nonces = keys.nonces \cup {dn} /\ keys'.joinNonce = keys.joinNonce + 1
          /\ accepted' = accepted \cup {dn}
          /\ reaccepted' = reaccepted \cup (accepted \cap {dn})
          /\ UNCHANGED <<lost, freed>>
          /\ \/ UNCHANGED <<issued, reissued>>
             \/ issued' = issued \cup {s} /\ reissued' = reissued \cup (issued \cap {s})
          /\ rolled' = IF s.jn = JoinNonceModulus - 1 THEN rolled \cup issued' ELSE rolled
      BY <1>6, <2>2, <3>1 DEF ValidateDevNonce, StoreDevNonce, NoKeys
    <3>3. s.dn = dn /\ s.jn = Wire(keys.joinNonce)
      OBVIOUS
    <3> HIDE DEF s, dn
    <3>4. NoncesRemembered' /\ NonceAcceptedOnce'
      BY <2>2, <3>2, <3>3
    <3>5. s \in issued => s \in lost \cup rolled /\ dn \in freed
      BY <2>2, <3>1, <3>3 DEF JoinNonce
    <3>6. KeysUsedOnce'
      BY <3>2, <3>3, <3>5
    <3>7. JoinNoncesPassed'
      <4>1. CASE Wire(keys.joinNonce) = JoinNonceModulus - 1
        BY <3>2, <3>3, <4>1
      <4>2. CASE Wire(keys.joinNonce) # JoinNonceModulus - 1
        <5>1. Wire(keys'.joinNonce) = Wire(keys.joinNonce) + 1
          BY <3>1, <3>2, <4>2, WireNext
        <5> QED
          BY <1>0, <3>1, <3>2, <3>3, <4>2, <5>1 DEF JoinNonce
      <4> QED
        BY <4>1, <4>2
    <3> QED
      BY <3>4, <3>6, <3>7
  <2> QED
    BY <1>6, <2>1, <2>2 DEF ValidateDevNonce, StoreDevNonce
<1>7. CASE UNCHANGED vars
  BY <1>1, <1>7 DEF vars, keyVars, history
<1> QED
  BY <1>1, <1>2, <1>3, <1>4, <1>5, <1>6, <1>7
     DEF Next, HandlerStep, SendJoinRequest, ReceiveAccept, UpdateKeysGet, JoinRequest,
         GetDeviceKeys, UpdateDevice, SendJoinAccept, Uplink, UplinkUpdateDevice, Abort,
         keyVars, history

(* What was accepted or issued is covered by the keys row, or the API       *)
(* removed it, or the three bytes of the join-nonce have started over      *)
(* (validate_incr_join_and_store_dev_nonce).                               *)
THEOREM KeysCovered == Spec => []KeysInv
  BY KeysInit, KeysNext, TypeCorrect, PTL DEF Spec

(* A copy of a join-request never replaces the session of the first, as    *)
(* long as the API does not forget the dev-nonce.                          *)
THEOREM OneSessionPerDevNonce == Spec => []NonceAcceptedOnce
  BY KeysCovered, PTL DEF KeysInv

(* The three bytes of a join-nonce are used again with the same dev-nonce  *)
(* only after the API forgot the dev-nonce, and set the join-nonce back or *)
(* the three bytes started over.                                           *)
THEOREM OneSessionPerKeys == Spec => []KeysUsedOnce
  BY KeysCovered, PTL DEF KeysInv

-----------------------------------------------------------------------------
(* While only copies of one frame are handled at a time and no dev-nonce   *)
(* is forgotten: only the last request of the device opens a session, its  *)
(* accept is sent when the row has that session, and an uplink writes back *)
(* the session that is there.                                              *)
Both(s) == [addr |-> s, session |-> s]
Opening(h) == pc[h] \in {"session", "accept"}
HandlerFits(h) ==
  /\ pc[h] \in {"keys", "nonce"} => task[h].dn = device.dn \/ task[h].dn \in accepted
  /\ Opening(h) => /\ task[h].session.dn = device.dn /\ device.dn \in accepted
                   /\ air = {} /\ ~device.joined
                   /\ \A g \in Handler \ {h} : ~Opening(g)
  /\ pc[h] = "accept" => row = Both(task[h].session)
  /\ pc[h] = "write" => /\ task[h].dn = -1 /\ row.session = task[h].session
                        /\ \A g \in Handler \ {h} : pc[g] = "idle"
RowFits ==
  /\ \A s \in air : s.dn = device.dn /\ device.dn \in accepted /\ row = Both(s)
  /\ device.joined => device.dn \in accepted /\ row = Both(device.session)
SessionInv == serial /\ freed = {} => RowFits /\ \A h \in Handler : HandlerFits(h)

LEMMA Finishes ==
  ASSUME TypeOK, NEW h \in Handler
  PROVE  /\ Finish(h) => /\ pc'[h] = "idle" /\ task'[h] = NoTask
                         /\ \A g \in Handler \ {h} : pc'[g] = pc[g] /\ task'[g] = task[g]
         /\ \A step : Goto(h, step) =>
              pc'[h] = step /\ \A g \in Handler \ {h} : pc'[g] = pc[g]
  BY DEF TypeOK, Finish, Goto

LEMMA SessionNext ==
  TypeOK /\ KeysInv /\ SessionInv /\ [Next]_vars => SessionInv'
<1> SUFFICES ASSUME TypeOK, KeysInv, SessionInv, [Next]_vars, serial', freed' = {}
             PROVE  RowFits' /\ \A g \in Handler : HandlerFits(g)'
  BY DEF SessionInv
<1>1. serial /\ freed = {}
  <2>1. serial' = serial /\ freed \subseteq freed'
    BY DEF Next, vars, keyVars, HandlerStep, SendJoinRequest, ReceiveAccept, CreateKeys, DeleteKeys,
       FlushDevNonces, UpdateKeysGet, UpdateKeysPut, JoinRequest, GetDeviceKeys, ValidateDevNonce, StoreDevNonce,
       UpdateDevice, SendJoinAccept, Uplink, UplinkUpdateDevice, Abort
  <2> QED
    BY <2>1
<1>2. RowFits /\ \A g \in Handler : HandlerFits(g)
  BY <1>1 DEF SessionInv
<1> DEFINE Goal == RowFits' /\ \A g \in Handler : HandlerFits(g)'
<1>3. ASSUME UNCHANGED <<row, pc, task, air, device, accepted>> PROVE Goal
  BY <1>2, <1>3 DEF RowFits, HandlerFits, Opening
<1>4. ASSUME NEW h \in Handler, Finish(h), UNCHANGED <<row, air, device>>, accepted \subseteq accepted'
      PROVE  Goal
  <2>1. RowFits'
    BY <1>2, <1>4 DEF RowFits
  <2>2. ASSUME NEW g \in Handler PROVE HandlerFits(g)'
    BY <1>2, <1>4, Finishes DEF HandlerFits, Opening
  <2> QED
    BY <2>1, <2>2
<1>5. ASSUME NEW dn \in DevNonce, SendJoinRequest(dn) PROVE Goal
  <2>1. UNCHANGED pc /\ \A g \in Handler : pc[g] = "idle"
    BY <1>1, <1>5 DEF SendJoinRequest, Busy
  <2>2. air' = {} /\ ~device'.joined
    BY <1>5 DEF SendJoinRequest, TypeOK
  <2> QED
    BY <2>1, <2>2 DEF RowFits, HandlerFits, Opening
<1>6. ASSUME NEW s \in air, ReceiveAccept(s) PROVE Goal
  <2>1. /\ device'.dn = device.dn /\ device'.joined /\ device'.session = s
        /\ UNCHANGED <<row, pc, task, air, accepted>>
    BY <1>6 DEF ReceiveAccept, TypeOK, history
  <2>2. RowFits'
    BY <1>2, <2>1 DEF RowFits
  <2>3. ASSUME NEW g \in Handler PROVE HandlerFits(g)'
    BY <1>2, <2>1 DEF HandlerFits, Opening
  <2> QED
    BY <2>2, <2>3
<1>7. ASSUME NEW h \in Handler, NEW dn \in DevNonce, JoinRequest(h, dn) PROVE Goal
  <2>1. /\ ~Busy(h) /\ (dn = device.dn \/ dn \in accepted)
        /\ \A g \in Handler : Busy(g) => task[g].dn = dn
        /\ pc'[h] = "keys" /\ task'[h].dn = dn
        /\ \A g \in Handler \ {h} : pc'[g] = pc[g] /\ task'[g] = task[g]
        /\ UNCHANGED <<row, air, device, accepted>>
    BY <1>1, <1>7, Finishes DEF JoinRequest, TypeOK, NoTask, history
  <2>2. \A g \in Handler : pc[g] # "write"
    BY <1>2, <2>1 DEF HandlerFits, Busy, DevNonce
  <2>3. RowFits'
    BY <1>2, <2>1 DEF RowFits
  <2>4. ASSUME NEW g \in Handler PROVE HandlerFits(g)'
    BY <1>2, <2>1, <2>2 DEF HandlerFits, Opening, Busy
  <2> QED
    BY <2>3, <2>4
<1>8. ASSUME NEW h \in Handler, GetDeviceKeys(h) PROVE Goal
  <2>1. CASE Finish(h)
    BY <1>4, <1>8, <2>1 DEF GetDeviceKeys, history
  <2>2. CASE ~Finish(h)
    <3>1. /\ pc[h] = "keys" /\ pc'[h] = "nonce"
          /\ \A g \in Handler \ {h} : pc'[g] = pc[g]
          /\ UNCHANGED <<row, air, device, accepted, task>>
      BY <1>8, <2>2, Finishes DEF GetDeviceKeys, history
    <3>2. ASSUME NEW g \in Handler PROVE HandlerFits(g)'
      BY <1>2, <3>1 DEF HandlerFits, Opening
    <3> QED
      BY <1>2, <3>1, <3>2 DEF RowFits
  <2> QED
    BY <2>1, <2>2
<1>9. ASSUME NEW h \in Handler, ValidateDevNonce(h) PROVE Goal
  <2> DEFINE dn == task[h].dn
             s == [dn |-> dn, jn |-> Wire(keys.joinNonce)]
  <2>1. /\ pc[h] = "nonce" /\ UNCHANGED <<row, air, device>>
        /\ accepted \subseteq accepted'
    BY <1>9 DEF ValidateDevNonce, StoreDevNonce, history
  <2>2. CASE Finish(h)
    BY <1>4, <2>1, <2>2
  <2>3. CASE ~Finish(h)
    <3>1. /\ dn \notin keys.nonces /\ accepted' = accepted \cup {dn}
          /\ task' = [task EXCEPT ![h].session = s] /\ Goto(h, "session")
      BY <1>9, <2>3 DEF ValidateDevNonce, StoreDevNonce
    <3>2. /\ pc'[h] = "session" /\ task'[h].session.dn = dn /\ task'[h].dn = dn
          /\ \A g \in Handler \ {h} : pc'[g] = pc[g] /\ task'[g] = task[g]
      BY <3>1, Finishes DEF TypeOK
    <3>3. dn \notin accepted
      BY <1>1, <3>1 DEF KeysInv, NoncesRemembered
    <3>4. dn = device.dn /\ device.dn \notin accepted
      BY <1>2, <2>1, <3>3 DEF HandlerFits
    <3>5. air = {} /\ ~device.joined
      BY <1>2, <3>4 DEF RowFits
    <3>6. \A g \in Handler : ~Opening(g) /\ pc[g] # "write"
      BY <1>2, <2>1, <3>4 DEF HandlerFits
    <3>7. RowFits'
      BY <2>1, <3>5 DEF RowFits
    <3>8. ASSUME NEW g \in Handler PROVE HandlerFits(g)'
      <4>1. CASE g = h
        BY <2>1, <3>1, <3>2, <3>4, <3>5, <3>6, <4>1 DEF HandlerFits, Opening
      <4>2. CASE g # h
        BY <1>2, <2>1, <3>1, <3>2, <3>6, <4>2 DEF HandlerFits, Opening
      <4> QED
        BY <4>1, <4>2
    <3> QED
      BY <3>7, <3>8
  <2> QED
    BY <2>2, <2>3
<1>10. ASSUME NEW h \in Handler, UpdateDevice(h) PROVE Goal
  <2>1. /\ pc[h] = "session" /\ pc'[h] = "accept" /\ row' = Both(task[h].session)
        /\ \A g \in Handler \ {h} : pc'[g] = pc[g]
        /\ UNCHANGED <<air, device, accepted, task>>
    BY <1>10, Finishes DEF UpdateDevice, Both, history
  <2>2. air = {} /\ ~device.joined /\ \A g \in Handler \ {h} : ~Opening(g) /\ pc[g] # "write"
    BY <1>2, <2>1 DEF HandlerFits, Opening
  <2>3. RowFits'
    BY <2>1, <2>2 DEF RowFits
  <2>4. ASSUME NEW g \in Handler PROVE HandlerFits(g)'
    BY <1>2, <2>1, <2>2 DEF HandlerFits, Opening
  <2> QED
    BY <2>3, <2>4
<1>11. ASSUME NEW h \in Handler, SendJoinAccept(h) PROVE Goal
  <2>1. /\ pc[h] = "accept" /\ Finish(h) /\ UNCHANGED <<row, device, accepted>>
        /\ air' \subseteq air \cup {task[h].session}
    BY <1>11 DEF SendJoinAccept, history
  <2>2. /\ task[h].session.dn = device.dn /\ device.dn \in accepted /\ row = Both(task[h].session)
        /\ air = {} /\ ~device.joined /\ \A g \in Handler \ {h} : ~Opening(g)
    BY <1>2, <2>1 DEF HandlerFits, Opening
  <2>3. RowFits'
    BY <2>1, <2>2 DEF RowFits
  <2>4. ASSUME NEW g \in Handler PROVE HandlerFits(g)'
    BY <1>2, <2>1, <2>2, Finishes DEF HandlerFits, Opening
  <2> QED
    BY <2>3, <2>4
<1>12. ASSUME NEW h \in Handler, Uplink(h) PROVE Goal
  <2>1. /\ pc'[h] = "write" /\ task'[h].dn = -1 /\ task'[h].session = row.session
        /\ \A g \in Handler \ {h} : pc'[g] = "idle"
        /\ UNCHANGED <<row, air, device, accepted>>
    BY <1>1, <1>12, Finishes DEF Uplink, TypeOK, Busy, history
  <2>2. RowFits'
    BY <1>2, <2>1 DEF RowFits
  <2>3. ASSUME NEW g \in Handler PROVE HandlerFits(g)'
    BY <2>1 DEF HandlerFits, Opening
  <2> QED
    BY <2>2, <2>3
<1>13. ASSUME NEW h \in Handler, UplinkUpdateDevice(h) PROVE Goal
  <2>1. row.session = task[h].session
    BY <1>2, <1>13 DEF UplinkUpdateDevice, HandlerFits
  <2>2. row' = row /\ Finish(h) /\ UNCHANGED <<air, device, accepted>>
    BY <1>13, <2>1 DEF UplinkUpdateDevice, TypeOK, history
  <2> QED
    BY <1>4, <2>2
<1>14. ASSUME NEW h \in Handler, Abort(h) PROVE Goal
  BY <1>4, <1>14 DEF Abort, history
<1>15. CASE CreateKeys \/ DeleteKeys \/ FlushDevNonces \/ UpdateKeysGet \/ UpdateKeysPut
            \/ UNCHANGED vars
  BY <1>3, <1>15 DEF CreateKeys, DeleteKeys, FlushDevNonces, UpdateKeysGet, UpdateKeysPut, vars, history
<1> QED
  BY <1>5, <1>6, <1>7, <1>8, <1>9, <1>10, <1>11, <1>12, <1>13, <1>14, <1>15 DEF Next, HandlerStep

LEMMA SessionInit == Init => SessionInv
  BY DEF Init, SessionInv, RowFits, HandlerFits, Opening

LEMMA SessionSafe == SessionInv => SessionAgreed
  BY DEF SessionInv, RowFits, Both, SessionAgreed

(* A device that completed a join finds its session on the server, while   *)
(* only copies of one frame are handled at a time: for any number of       *)
(* requests, copies, uplinks, failures and edits that forget no dev-nonce. *)
THEOREM SessionsAgree == Spec => []SessionAgreed
  BY TypeCorrect, KeysCovered, SessionInit, SessionNext, SessionSafe, PTL DEF Spec
=============================================================================
