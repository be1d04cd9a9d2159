---------------------------------- MODULE Join ----------------------------------
(***************************************************************************)
(* Over-the-air activation of one device with the keys of the server's own *)
(* database: the handlers of join-requests (uplink::join), the API that    *)
(* edits the device-keys, and the uplink handlers of an earlier session.   *)
(*                                                                         *)
(* A join-request is its DevNonce.  The join-nonce of the accept is the    *)
(* counter in the device-keys row, of which three bytes are sent and used; *)
(* session keys are derived from these and the DevNonce, so a session is   *)
(* the pair.  The dev-nonce check and the increment are one transaction;   *)
(* everything else is a sequence of single statements, in between which    *)
(* other handlers run.                                                     *)
(***************************************************************************)
EXTENDS Integers, FiniteSets

CONSTANTS
  Handler,          \* concurrent handlers of join-requests and uplinks
  MaxDevNonce,      \* bound: the device uses the nonces 0 .. MaxDevNonce
  JoinNonceModulus, \* 2^24: three bytes of the join-nonce are used
  MaxEdits,         \* bound: calls of the API that edit the device-keys
  KeyEdits,         \* may the API update or delete the keys?
  NonceFlushes,     \* may the API flush the dev-nonces?
  Lorawan11,        \* the device counts dev-nonces, and checks that the
                    \* join-nonce grows
  Uplinks,          \* does the device use its session?
  Modes,            \* the values of serial to be considered
  Failures          \* may a handler end early (an error, the server stops)?

ASSUME JoinAssumption ==
  /\ MaxDevNonce \in Nat /\ MaxEdits \in Nat
  /\ JoinNonceModulus \in Nat \ {0}
  /\ {KeyEdits, NonceFlushes, Lorawan11, Uplinks, Failures} \subseteq BOOLEAN
  /\ Modes \subseteq BOOLEAN

DevNonce == 0 .. MaxDevNonce
JoinNonce == 0 .. JoinNonceModulus - 1
Session == [dn : DevNonce, jn : JoinNonce]   \* what the keys derive from
NoSession == [dn |-> -1, jn |-> -1]

VARIABLES
  serial,    \* only copies of one frame are handled at a time (never changes)
  keys,      \* device_keys: [nonces, joinNonce], or NoKeys
  edit,      \* a call of update_keys: the row it has read, or NoKeys
  edits,     \* number of edits of the keys so far
  row,       \* device: [addr, session]; the dev_addr is that of a session
  pc, task,  \* per handler: its next step and its local data
  air,       \* join-accepts sent in the current receive-windows
  device,    \* the device: [dn, joined, session, jn]
  issued,    \* history: sessions for which a join-nonce was taken
  reissued,  \* history: sessions issued more than once
  accepted,  \* history: dev-nonces accepted
  reaccepted,\* history: dev-nonces accepted more than once
  lost,      \* history: issued sessions whose join-nonce the API forgot
  freed,     \* history: dev-nonces the API forgot
  rolled     \* history: sessions issued before the three bytes started over

keyVars == <<keys, edit, edits, lost, freed>>
history == <<issued, reissued, accepted, reaccepted, rolled>>
vars == <<serial, keyVars, row, pc, task, air, device, history>>

Keys == [nonces : SUBSET DevNonce, joinNonce : Nat]
NoKeys == [nonces |-> {}, joinNonce |-> -1]
FreshKeys == [nonces |-> {}, joinNonce |-> 0]
NoTask == [dn |-> -1, session |-> NoSession]

TypeOK ==
  /\ serial \in BOOLEAN
  /\ keys \in Keys \cup {NoKeys}
  /\ edit \in Keys \cup {NoKeys}
  /\ edits \in 0 .. MaxEdits
  /\ row \in [addr : Session \cup {NoSession}, session : Session \cup {NoSession}]
  /\ pc \in [Handler -> {"idle", "keys", "nonce", "session", "accept", "write"}]
  /\ task \in [Handler -> [dn : DevNonce \cup {-1}, session : Session \cup {NoSession}]]
  /\ \A h \in Handler :
       /\ pc[h] \in {"keys", "nonce", "session", "accept"} => task[h].dn \in DevNonce
       /\ pc[h] \in {"session", "accept"} => task[h].session \in Session
  /\ air \subseteq Session
  /\ device \in [dn : DevNonce \cup {-1}, joined : BOOLEAN,
                 session : Session \cup {NoSession}, jn : JoinNonce \cup {-1}]
  /\ {issued, reissued, lost, rolled} \subseteq SUBSET Session
  /\ accepted \subseteq DevNonce /\ reaccepted \subseteq DevNonce /\ freed \subseteq DevNonce

Init ==
  /\ serial \in Modes
  /\ keys = FreshKeys
  /\ edit = NoKeys
  /\ edits = 0
  /\ row = [addr |-> NoSession, session |-> NoSession]
  /\ pc = [h \in Handler |-> "idle"]
  /\ task = [h \in Handler |-> NoTask]
  /\ air = {}
  /\ device = [dn |-> -1, joined |-> FALSE, session |-> NoSession, jn |-> -1]
  /\ issued = {} /\ reissued = {} /\ lost = {} /\ rolled = {}
  /\ accepted = {} /\ reaccepted = {} /\ freed = {}

-----------------------------------------------------------------------------
Busy(h) == pc[h] # "idle"
Goto(h, step) == pc' = [pc EXCEPT ![h] = step]
Finish(h) == Goto(h, "idle") /\ task' = [task EXCEPT ![h] = NoTask]

(* The three bytes of the join-nonce in the accept and the key derivation. *)
Wire(joinNonce) == joinNonce % JoinNonceModulus

(* The transaction on the keys, when the nonce is new, and what follows:   *)
(* the join-nonce next is stored; the one before it is used, unless it is  *)
(* the last one of three bytes.  The comparison is with that one value, so *)
(* the join after it succeeds again, with three bytes that started over.   *)
StoreDevNonce(h, new, next) ==
  /\ pc[h] = "nonce"
  /\ LET dn == task[h].dn
         s == [dn |-> dn, jn |-> Wire(keys.joinNonce)]
     IN IF keys = NoKeys \/ ~new
        THEN Finish(h) /\ UNCHANGED <<keys, history>>
        ELSE /\ keys' = [nonces |-> keys.nonces \cup {dn}, joinNonce |-> next]
             /\ accepted' = accepted \cup {dn}
             /\ reaccepted' = reaccepted \cup (accepted \cap {dn})
             /\ IF keys.joinNonce = JoinNonceModulus - 1
                THEN Finish(h) /\ UNCHANGED <<issued, reissued>>
                ELSE /\ issued' = issued \cup {s}
                     /\ reissued' = reissued \cup (issued \cap {s})
                     /\ task' = [task EXCEPT ![h].session = s]
                     /\ Goto(h, "session")
             /\ rolled' = IF s.jn = JoinNonceModulus - 1 THEN rolled \cup issued' ELSE rolled
  /\ UNCHANGED <<serial, edit, edits, lost, freed, row, air, device>>

(* Faulty variants of ValidateDevNonce, in the way a change to the code    *)
(* might break it.  They are no part of the specification: each shows that *)
(* a property notices the fault.                                           *)
ValidateKeepsJoinNonce(h) == StoreDevNonce(h, task[h].dn \notin keys.nonces, keys.joinNonce)
ValidateAnyNonce(h) == StoreDevNonce(h, TRUE, keys.joinNonce + 1)

-----------------------------------------------------------------------------
(* The device starts over: it gives up its session and sends a             *)
(* join-request.  The receive-windows of earlier requests are over.  A     *)
(* LoRaWAN 1.1 device counts its dev-nonces, an older one picks any.       *)
SendJoinRequest(dn) ==
  /\ Lorawan11 => dn > device.dn
  /\ serial => \A h \in Handler : ~Busy(h)
  /\ device' = [device EXCEPT !.dn = dn, !.joined = FALSE]
  /\ air' = {}
  /\ UNCHANGED <<serial, keyVars, row, pc, task, history>>

(* The device accepts a join-accept for its last request.                  *)
ReceiveAccept(s) ==
  /\ s \in air
  /\ ~device.joined /\ s.dn = device.dn
  /\ Lorawan11 => s.jn > device.jn
  /\ device' = [device EXCEPT !.joined = TRUE, !.session = s, !.jn = s.jn]
  /\ UNCHANGED <<serial, keyVars, row, pc, task, air, history>>

-----------------------------------------------------------------------------
(* API create_keys, delete_keys and flush_dev_nonces.                      *)
CreateKeys ==
  /\ keys = NoKeys
  /\ keys' = FreshKeys
  /\ UNCHANGED <<serial, edit, edits, lost, freed, row, pc, task, air, device, history>>

DeleteKeys ==
  /\ KeyEdits /\ edits < MaxEdits
  /\ keys # NoKeys
  /\ keys' = NoKeys
  /\ edits' = edits + 1
  /\ lost' = lost \cup issued
  /\ freed' = freed \cup keys.nonces
  /\ UNCHANGED <<serial, edit, row, pc, task, air, device, history>>

FlushDevNonces ==
  /\ NonceFlushes /\ edits < MaxEdits
  /\ keys # NoKeys
  /\ keys' = [keys EXCEPT !.nonces = {}]
  /\ edits' = edits + 1
  /\ freed' = freed \cup keys.nonces
  /\ UNCHANGED <<serial, edit, lost, row, pc, task, air, device, history>>

(* API update_keys: reads the row, replaces the keys in it, and writes all *)
(* columns, the nonces it has read included.                               *)
UpdateKeysGet ==
  /\ KeyEdits /\ edits < MaxEdits
  /\ edit = NoKeys /\ keys # NoKeys
  /\ edit' = keys
  /\ edits' = edits + 1
  /\ UNCHANGED <<serial, keys, lost, freed, row, pc, task, air, device, history>>

UpdateKeysPut ==
  /\ edit # NoKeys
  /\ IF keys = NoKeys THEN UNCHANGED <<keys, lost, freed>>
     ELSE /\ keys' = edit
          /\ lost' = lost \cup {s \in issued : s.jn >= Wire(edit.joinNonce)}
          /\ freed' = freed \cup (keys.nonces \ edit.nonces)
  /\ edit' = NoKeys
  /\ UNCHANGED <<serial, edits, row, pc, task, air, device, history>>

-----------------------------------------------------------------------------
(* A frame-set with a join-request of the device is handled: once per      *)
(* region configuration, again for a copy that was not de-duplicated with  *)
(* the first ones, and late.  serial: it is the device's last request, or  *)
(* a copy of one that was handled.                                         *)
JoinRequest(h, dn) ==
  /\ ~Busy(h)
  /\ serial => /\ dn = device.dn \/ dn \in accepted
               /\ \A g \in Handler : Busy(g) => task[g].dn = dn
  /\ task' = [task EXCEPT ![h] = [NoTask EXCEPT !.dn = dn]]
  /\ Goto(h, "keys")
  /\ UNCHANGED <<serial, keyVars, row, air, device, history>>

(* get_device_keys_or_js_client: without keys the request is for a         *)
(* join-server, which is not modelled.  The other early returns (disabled, *)
(* OTAA not supported, region, gateway tenants, relay only, MIC) end the   *)
(* handler as well.                                                        *)
GetDeviceKeys(h) ==
  /\ pc[h] = "keys"
  /\ \/ keys # NoKeys /\ Goto(h, "nonce") /\ UNCHANGED task
     \/ keys = NoKeys /\ Finish(h)
  /\ UNCHANGED <<serial, keyVars, row, air, device, history>>

(* validate_incr_join_and_store_dev_nonce, one transaction, and the check  *)
(* of the join-nonce when the accept is made.                              *)
ValidateDevNonce(h) == StoreDevNonce(h, task[h].dn \notin keys.nonces, keys.joinNonce + 1)

(* update_device: dev_addr, device_session and the counter are replaced.   *)
UpdateDevice(h) ==
  /\ pc[h] = "session"
  /\ row' = [addr |-> task[h].session, session |-> task[h].session]
  /\ Goto(h, "accept")
  /\ UNCHANGED <<serial, keyVars, task, air, device, history>>

(* start_downlink_join_accept_flow: no gateway may be left to answer, or   *)
(* the answer is too late for the receive-windows of the device.           *)
SendJoinAccept(h) ==
  /\ pc[h] = "accept"
  /\ \/ air' = air \cup {task[h].session}
     \/ UNCHANGED air
  /\ Finish(h)
  /\ UNCHANGED <<serial, keyVars, row, device, history>>

-----------------------------------------------------------------------------
(* uplink::data: a frame of the device's session is handled; the session   *)
(* that was loaded ...                                                     *)
Uplink(h) ==
  /\ Uplinks
  /\ ~Busy(h)
  /\ device.session # NoSession
  /\ row.addr = device.session /\ row.session = device.session
  /\ serial => \A g \in Handler : ~Busy(g)
  /\ task' = [task EXCEPT ![h] = [dn |-> -1, session |-> row.session]]
  /\ Goto(h, "write")
  /\ UNCHANGED <<serial, keyVars, row, air, device, history>>

(* ... is written back with update_device, the dev_addr is not.            *)
UplinkUpdateDevice(h) ==
  /\ pc[h] = "write"
  /\ row' = [row EXCEPT !.session = task[h].session]
  /\ Finish(h)
  /\ UNCHANGED <<serial, keyVars, air, device, history>>

(* A call between two steps returns an error, which ends the handler; when *)
(* the process stops all of them end.  The database stays as it is.        *)
Abort(h) ==
  /\ Failures
  /\ Busy(h)
  /\ Finish(h)
  /\ UNCHANGED <<serial, keyVars, row, air, device, history>>

HandlerStep(h) ==
  \/ GetDeviceKeys(h)
  \/ ValidateDevNonce(h)
  \/ UpdateDevice(h)
  \/ SendJoinAccept(h)
  \/ UplinkUpdateDevice(h)

Next ==
  \/ \E dn \in DevNonce : SendJoinRequest(dn)
  \/ \E s \in air : ReceiveAccept(s)
  \/ CreateKeys \/ DeleteKeys \/ FlushDevNonces \/ UpdateKeysGet \/ UpdateKeysPut
  \/ \E h \in Handler, dn \in DevNonce : JoinRequest(h, dn)
  \/ \E h \in Handler : Uplink(h) \/ HandlerStep(h) \/ Abort(h)

Spec == Init /\ [][Next]_vars

-----------------------------------------------------------------------------
(* A dev-nonce opens a session once: a copy of a join-request, whenever it *)
(* is handled, never replaces the session of the first, unless the API     *)
(* forgot the nonce.                                                       *)
NonceAcceptedOnce == reaccepted \subseteq freed

(* Two activations derive the same session keys only when both nonces were *)
(* given up: the API forgot the dev-nonce, and it set the join-nonce back  *)
(* or the three bytes of the join-nonce have started over.                 *)
KeysUsedOnce == \A s \in reissued : s.dn \in freed /\ s \in lost \cup rolled

(* Why these two hold: what was accepted or issued is still covered by the *)
(* row of the keys, or it was given up.                                    *)
NoncesRemembered ==
  /\ accepted \subseteq keys.nonces \cup freed
  /\ \A s \in issued : s.dn \in accepted
JoinNoncesPassed ==
  \A s \in issued \ (lost \cup rolled) : keys # NoKeys /\ s.jn < Wire(keys.joinNonce)
KeysInv == NonceAcceptedOnce /\ KeysUsedOnce /\ NoncesRemembered /\ JoinNoncesPassed

(* A device that completed a join finds its session on the server, for as  *)
(* long as only copies of one frame are handled at a time and no dev-nonce *)
(* is forgotten; failures do not matter.                                   *)
SessionAgreed ==
  serial /\ device.joined /\ freed = {} =>
    row = [addr |-> device.session, session |-> device.session]

(* The comment on JoinAcceptPayload.join_nonce says that the actual max    *)
(* value is 2^24 - 1, and the join that has reached it fails with          *)
(* "Join-nonce overflow": no accept is made with a higher join-nonce.      *)
JoinNonceInRange ==
  [][\A h \in Handler : pc[h] = "nonce" /\ pc'[h] = "session" =>
       keys.joinNonce < JoinNonceModulus]_vars
=============================================================================
