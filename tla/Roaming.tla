------------------------------- MODULE Roaming -------------------------------
(***************************************************************************)
(* Passive roaming: a device of a home network is heard by the gateways of *)
(* a visited network.  The visited server (the code's FNS role) looks for  *)
(* a passive-roaming session of the device's DevAddr in Redis, asks the    *)
(* home server to start one if none matches (PRStartReq), forwards the     *)
(* uplink over every session (XmitDataReq) and saves the sessions again.   *)
(* The home server (SNS role) gives the session a lifetime and may end it  *)
(* (PRStopReq); with a lifetime of zero it handles the uplink at once.     *)
(*                                                                         *)
(* Both sides are the code of this repository.  A handler of the visited   *)
(* server is one task per uplink, its steps are requests and writes to     *)
(* Redis (all sessions are read in one step); between them others run.     *)
(* What the home server does within a request is one step here; its        *)
(* interleavings are the subject of module UplinkFCnt.  As there, a frame  *)
(* is its full frame-counter, of which the radio carries the part modulo   *)
(* FCntModulus.                                                            *)
(***************************************************************************)
EXTENDS Integers, FiniteSets

CONSTANTS
  Handler,      \* concurrent runs of data_fns::Data::_handle
  Profiles,     \* the roaming agreement and the device, see Profile
  MaxFCnt,      \* bound: the device sends counters up to this one
  FCntModulus,  \* 2^16, the part of the counter that is transmitted
  MaxSessions,  \* bound: passive-roaming sessions started in a behaviour
  MaxLifetime   \* bound: passive_roaming_lifetime in ticks

Frame == 0 .. MaxFCnt
SessId == 1 .. MaxSessions

Profile == [validates : BOOLEAN,   \* passive_roaming_validate_mic, on both sides
            v11 : BOOLEAN,         \* the device uses LoRaWAN 1.1
            lifetime : 0 .. MaxLifetime,  \* passive_roaming_lifetime, 0: stateless
            frames : Frame,        \* the largest counter the device uses
            joins : BOOLEAN,       \* the device joins through the visited network
            reliable : BOOLEAN,    \* no call fails and no request is lost
            serial : BOOLEAN]      \* frames arrive in order, each is handled
                                   \* before the next one arrives

ASSUME RoamingAssumption ==
  /\ MaxFCnt \in Nat /\ MaxSessions \in Nat /\ MaxLifetime \in Nat
  /\ FCntModulus \in Nat /\ FCntModulus > 1
  /\ Profiles \subseteq Profile

VARIABLES
  profile,   \* never changes
  homeFCnt,  \* home: device.f_cnt_up
  sess,      \* visited: the Redis keys pr:sess, or NoSession
  byEui,     \* visited: the ids under the Redis key pr:dev of the device
  left,      \* ticks until PassiveRoamingDeviceSession.lifetime
  used,      \* number of session ids used so far
  joining,   \* the session of the join is not saved yet
  pc, task,  \* per handler: its next step and its local data
  newest,    \* serial only: the counter received last, or -1
  stopped,   \* history: the ids a PRStopReq has deleted
  held       \* history: those of them that a handler held at that time

vars == <<profile, homeFCnt, sess, byEui, left, used, joining, pc, task,
          newest, stopped, held>>

Session == [fCntUp : 0 .. MaxFCnt + 1, v11 : BOOLEAN]
NoSession == [fCntUp |-> -1, v11 |-> FALSE]
Task == [fCnt : Frame,
         copies : [SessId -> Session \cup {NoSession}],  \* pr_device_sessions
         rest : SUBSET SessId]    \* those the current loop has not visited
NoCopies == [i \in SessId |-> NoSession]
NoTask == [fCnt |-> 0, copies |-> NoCopies, rest |-> {}]

TypeOK ==
  /\ profile \in Profile
  /\ homeFCnt \in 0 .. MaxFCnt + 1
  /\ sess \in [SessId -> Session \cup {NoSession}]
  /\ byEui \subseteq SessId
  /\ left \in [SessId -> 0 .. MaxLifetime]
  /\ used \in 0 .. MaxSessions
  /\ joining \in BOOLEAN
  /\ pc \in [Handler -> {"idle", "get", "start", "forward", "save"}]
  /\ task \in [Handler -> Task]
  /\ newest \in -1 .. MaxFCnt
  /\ stopped \subseteq SessId /\ held \subseteq stopped

Init ==
  /\ profile \in Profiles
  /\ homeFCnt = 0
  /\ sess = NoCopies
  /\ byEui = {}
  /\ left = [i \in SessId |-> 0]
  /\ used = 0
  /\ joining = profile.joins
  /\ pc = [h \in Handler |-> "idle"]
  /\ task = [h \in Handler |-> NoTask]
  /\ newest = -1
  /\ stopped = {} /\ held = {}

-----------------------------------------------------------------------------
Of(copies) == {i \in SessId : copies[i] # NoSession}
Live == Of(sess)
Busy(h) == pc[h] # "idle"
Finish(h) == pc' = [pc EXCEPT ![h] = "idle"] /\ task' = [task EXCEPT ![h] = NoTask]

(* A faulty variant of the next definition, no part of the specification:  *)
(* a repeated frame is not recognised.                                     *)
FullFCntUpAhead(expected, truncated) ==
  expected + ((truncated - expected) % FCntModulus)

(* get_full_f_cnt_up; the same function exists on both sides.  For an      *)
(* expected counter of zero, expected - 1 wraps: no frame has that counter.*)
FullFCntUp(expected, truncated) ==
  IF truncated = (expected - 1) % FCntModulus
  THEN expected - 1
  ELSE expected + ((truncated - expected) % FCntModulus)

(* The MIC is the one of the full counter, and of the LoRaWAN version.     *)
Recovers(expected, c) == FullFCntUp(expected, c % FCntModulus) = c
Matches(s, c) ==
  profile.validates => Recovers(s.fCntUp, c) /\ s.v11 = profile.v11

(* Home: uplink::data claims and reports a new frame, whether it came over *)
(* its own gateways or in an XmitDataReq; nothing else changes.            *)
HomeHandles(c) ==
  LET isNew == c >= homeFCnt /\ Recovers(homeFCnt, c)
  IN homeFCnt' = IF isNew THEN c + 1 ELSE homeFCnt

(* Home: device::get_for_phypayload, which claims no counter.              *)
HomeFinds(c) == Recovers(homeFCnt, c)

(* What the visited server makes of a PRStartAns.  It knows neither the    *)
(* DevEUI nor the LoRaWAN version; the counter is the home server's.       *)
Started == [fCntUp |-> homeFCnt, v11 |-> FALSE]

-----------------------------------------------------------------------------
(* More faulty variants of definitions below, in the way a change to the   *)
(* code might break them.                                                  *)

(* A handler starts no session while one of the DevAddr exists, whether it *)
(* matches the frame or not.                                               *)
GetSessionsOfAddr(h) ==
  /\ pc[h] = "get"
  /\ LET c == task[h].fCnt
         matching == {i \in Live : Matches(sess[i], c)}
     IN /\ task' = [task EXCEPT ![h].copies =
                      [i \in SessId |-> IF i \in matching
                                        THEN [sess[i] EXCEPT !.fCntUp = (c % FCntModulus) + 1]
                                        ELSE NoSession],
                                ![h].rest = matching]
        /\ pc' = [pc EXCEPT ![h] = IF Live = {} THEN "start" ELSE "forward"]
  /\ UNCHANGED <<profile, homeFCnt, sess, byEui, left, used, joining, newest, stopped, held>>

(* PRStopReq deletes the entry for the DevEUI instead of the sessions.     *)
PRStopForgets ==
  /\ byEui \cap Live # {}
  /\ byEui' = {}
  /\ stopped' = stopped \cup byEui
  /\ held' = held \cup {i \in byEui : \E h \in Handler : i \in Of(task[h].copies)}
  /\ UNCHANGED <<profile, homeFCnt, sess, left, used, joining, pc, task, newest>>

-----------------------------------------------------------------------------
(* join_fns: the home server accepted the join-request, the join-accept is *)
(* sent, then the session is saved.  It knows the DevEUI and the version.  *)
SaveRoamingSession ==
  /\ joining
  /\ joining' = FALSE
  /\ IF profile.lifetime > 0 /\ used < MaxSessions
     THEN /\ used' = used + 1
          /\ left' = [left EXCEPT ![used + 1] = profile.lifetime]
          /\ sess' = [sess EXCEPT ![used + 1] = [fCntUp |-> 0, v11 |-> profile.v11]]
          /\ byEui' = byEui \cup {used + 1}
     ELSE UNCHANGED <<used, left, sess, byEui>>
  /\ UNCHANGED <<profile, homeFCnt, pc, task, newest, stopped, held>>

(* A frame is received by a gateway that is not private.                   *)
Receive(h, c) ==
  /\ ~Busy(h)
  /\ c <= profile.frames
  /\ profile.serial => /\ ~joining
                       /\ c >= newest
                       /\ \A g \in Handler : ~Busy(g)
  /\ newest' = IF profile.serial THEN c ELSE newest
  /\ pc' = [pc EXCEPT ![h] = "get"]
  /\ task' = [task EXCEPT ![h] = [NoTask EXCEPT !.fCnt = c]]
  /\ UNCHANGED <<profile, homeFCnt, sess, byEui, left, used, joining, stopped, held>>

(* get_pr_device_sessions: the sessions of the DevAddr for which the MIC   *)
(* is valid; their counter is set from the transmitted part of the frame's.*)
GetSessions(h) ==
  /\ pc[h] = "get"
  /\ LET c == task[h].fCnt
         matching == {i \in Live : Matches(sess[i], c)}
     IN /\ task' = [task EXCEPT ![h].copies =
                      [i \in SessId |-> IF i \in matching
                                        THEN [sess[i] EXCEPT !.fCntUp = (c % FCntModulus) + 1]
                                        ELSE NoSession],
                                ![h].rest = matching]
        /\ pc' = [pc EXCEPT ![h] = IF matching = {} THEN "start" ELSE "forward"]
  /\ UNCHANGED <<profile, homeFCnt, sess, byEui, left, used, joining, newest, stopped, held>>

(* start_pr_sessions: the home server looks the device up and answers with *)
(* a lifetime and its counter, or handles the uplink itself when roaming   *)
(* is stateless.  An error is only logged.                                 *)
StartSession(h) ==
  /\ pc[h] = "start"
  /\ pc' = [pc EXCEPT ![h] = "forward"]
  /\ LET c == task[h].fCnt
     IN \/ /\ HomeFinds(c) /\ profile.lifetime = 0
           /\ HomeHandles(c)
           /\ UNCHANGED <<left, used, task>>
        \/ /\ HomeFinds(c) /\ profile.lifetime > 0 /\ used < MaxSessions
           /\ used' = used + 1
           /\ left' = [left EXCEPT ![used + 1] = profile.lifetime]
           /\ task' = [task EXCEPT ![h].copies[used + 1] = Started, ![h].rest = {used + 1}]
           /\ UNCHANGED homeFCnt
        \/ /\ ~HomeFinds(c) \/ ~profile.reliable \/ (profile.lifetime > 0 /\ used = MaxSessions)
           /\ UNCHANGED <<homeFCnt, left, used, task>>
  /\ UNCHANGED <<profile, sess, byEui, joining, newest, stopped, held>>

(* forward_uplink_for_sessions: one XmitDataReq for every session.  A      *)
(* request that fails is only logged.                                      *)
Forward(h) ==
  /\ pc[h] = "forward"
  /\ \/ \E i \in task[h].rest :
          /\ HomeHandles(task[h].fCnt) \/ (~profile.reliable /\ UNCHANGED homeFCnt)
          /\ task' = [task EXCEPT ![h].rest = @ \ {i}]
          /\ UNCHANGED pc
     \/ /\ task[h].rest = {}
        /\ task' = [task EXCEPT ![h].rest = Of(task[h].copies)]
        /\ pc' = [pc EXCEPT ![h] = "save"]
        /\ UNCHANGED homeFCnt
  /\ UNCHANGED <<profile, sess, byEui, left, used, joining, newest, stopped, held>>

(* save_pr_device_sessions: each is written as the handler has it, unless  *)
(* its lifetime is over.                                                   *)
Save(h) ==
  /\ pc[h] = "save"
  /\ \/ \E i \in task[h].rest :
          /\ sess' = IF left[i] > 0 THEN [sess EXCEPT ![i] = task[h].copies[i]] ELSE sess
          /\ task' = [task EXCEPT ![h].rest = @ \ {i}]
          /\ UNCHANGED pc
     \/ /\ task[h].rest = {}
        /\ Finish(h)
        /\ UNCHANGED sess
  /\ UNCHANGED <<profile, homeFCnt, byEui, left, used, joining, newest, stopped, held>>

(* A call returns an error (no client for the NetID, Redis), or the server *)
(* stops; sessions that are not saved yet stay as they are in Redis.       *)
Abort(h) ==
  /\ ~profile.reliable
  /\ Busy(h)
  /\ Finish(h)
  /\ UNCHANGED <<profile, homeFCnt, sess, byEui, left, used, joining, newest, stopped, held>>

-----------------------------------------------------------------------------
(* _handle_pr_stop_req: the sessions found by the DevEUI are deleted, one  *)
(* after the other.  A delete that fails is logged, the answer is Success  *)
(* all the same; gone are those that are deleted.                          *)
PRStop ==
  /\ byEui \cap Live # {}
  /\ \E gone \in SUBSET byEui :
       /\ sess' = [i \in SessId |-> IF i \in gone THEN NoSession ELSE sess[i]]
       /\ stopped' = stopped \cup gone
       /\ held' = held \cup {i \in gone : \E h \in Handler : i \in Of(task[h].copies)}
  /\ UNCHANGED <<profile, homeFCnt, byEui, left, used, joining, pc, task, newest>>

(* The home network hears the frame itself.                                *)
HomeHears(c) ==
  /\ c <= profile.frames
  /\ HomeHandles(c)
  /\ UNCHANGED <<profile, sess, byEui, left, used, joining, pc, task, newest, stopped, held>>

(* Time: a session key expires with the lifetime of its session.           *)
Tick ==
  /\ \E i \in SessId : left[i] > 0
  /\ left' = [i \in SessId |-> IF left[i] > 0 THEN left[i] - 1 ELSE 0]
  /\ sess' = [i \in SessId |-> IF left[i] > 1 THEN sess[i] ELSE NoSession]
  /\ UNCHANGED <<profile, homeFCnt, byEui, used, joining, pc, task, newest, stopped, held>>

HandlerStep(h) == GetSessions(h) \/ StartSession(h) \/ Forward(h) \/ Save(h)

Next ==
  \/ SaveRoamingSession
  \/ \E h \in Handler, c \in Frame : Receive(h, c)
  \/ \E h \in Handler : HandlerStep(h) \/ Abort(h)
  \/ PRStop
  \/ \E c \in Frame : HomeHears(c)
  \/ Tick

Spec == Init /\ [][Next]_vars

(* tokio keeps polling a handler until it ends.                            *)
FairSpec == Spec /\ \A h \in Handler : WF_vars(HandlerStep(h))

-----------------------------------------------------------------------------
(* While uplinks are handled one after the other and their counters fit    *)
(* into 16 bits, the visited network has at most one session of a device,  *)
(* so that an uplink is forwarded once: every frame, also a repeated one,  *)
(* matches the session that an earlier frame or the join left behind.  The *)
(* last of these counters is excepted: a session without uplinks takes it  *)
(* for the repetition of one before the first.                             *)
(* (Not for a LoRaWAN 1.1 device whose MIC is validated: the session that  *)
(* an uplink starts is checked as one of LoRaWAN 1.0 and never matches.)   *)
OneSession ==
  profile.serial /\ newest < FCntModulus - 1 /\ ~(profile.validates /\ profile.v11)
    => Cardinality(Live) <= 1

(* A session that the home server stopped does not come back, unless a     *)
(* handler that had loaded it before saves it afterwards.                  *)
StoppedForGood == stopped \cap Live \subseteq held

(* A new uplink reaches the home network although sessions expire, are     *)
(* stopped, or no longer match after the transmitted counter started over, *)
(* unless a later uplink was faster.                                       *)
Fresh(c) == /\ c >= homeFCnt /\ Recovers(homeFCnt, c)
            /\ \E h \in Handler : pc[h] = "get" /\ task[h].fCnt = c
UplinkArrives ==
  \A c \in Frame :
    profile.reliable /\ Fresh(c) ~> homeFCnt > c \/ used = MaxSessions
=============================================================================
