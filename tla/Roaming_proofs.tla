---------------------------- MODULE Roaming_proofs ----------------------------
(***************************************************************************)
(* Proofs about Roaming for any number of handlers and sessions, any range *)
(* and modulus of the counters and any set of agreements: type             *)
(* correctness, that stopped sessions do not come back, and that frames    *)
(* handled in order find the session of the device.                        *)
(***************************************************************************)
EXTENDS Roaming, FiniteSetTheorems, TLAPS

USE RoamingAssumption

-----------------------------------------------------------------------------
(* The counter of a frame, in the part of it that is transmitted.          *)
LEMMA Transmitted ==
  ASSUME NEW c \in Nat
  PROVE  c % FCntModulus \in 0 .. c
<1>1. c % FCntModulus \in 0 .. FCntModulus - 1
  OBVIOUS
<1>2. c % FCntModulus <= c
  OBVIOUS
<1> QED
  BY <1>1, <1>2

LEMMA Remainders ==
  /\ \A n \in 0 .. FCntModulus - 1 : n % FCntModulus = n
  /\ \A n \in Int : n % FCntModulus \in 0 .. FCntModulus - 1
  /\ (-1) % FCntModulus = FCntModulus - 1
<1>1. ASSUME NEW n \in 0 .. FCntModulus - 1 PROVE n % FCntModulus = n
  BY <1>1
<1>2. ASSUME NEW n \in Int PROVE n % FCntModulus \in 0 .. FCntModulus - 1
  BY <1>2
<1>3. (-1) % FCntModulus = FCntModulus - 1
  OBVIOUS
<1> QED
  BY <1>1, <1>2, <1>3

(* While counters do not wrap, a session recovers every frame but those    *)
(* before the last one it has seen, and no other.                          *)
LEMMA Recovered ==
  ASSUME NEW e \in Nat, NEW c \in Nat, c < FCntModulus - 1
  PROVE  Recovers(e, c) <=> e <= c + 1
<1>0. c % FCntModulus = c
  BY Remainders
<1>1. ASSUME e <= c + 1 PROVE Recovers(e, c)
  <2>1. CASE e = 0
    <3>1. c # (e - 1) % FCntModulus
      BY <2>1, Remainders
    <3>2. (c - e) % FCntModulus = c
      BY <1>0, <2>1
    <3> QED
      BY <1>0, <2>1, <3>1, <3>2 DEF Recovers, FullFCntUp
  <2>2. CASE e # 0
    <3>1. (e - 1) % FCntModulus = e - 1
      BY <1>1, <2>2, Remainders
    <3>2. CASE c = e - 1
      BY <1>0, <3>1, <3>2 DEF Recovers, FullFCntUp
    <3>3. CASE c # e - 1
      <4>1. c - e \in 0 .. FCntModulus - 1
        BY <1>1, <3>3
      <4>2. (c - e) % FCntModulus = c - e
        BY <4>1, Remainders
      <4> QED
        BY <1>0, <3>1, <3>3, <4>2 DEF Recovers, FullFCntUp
    <3> QED
      BY <3>2, <3>3
  <2> QED
    BY <2>1, <2>2
<1>2. ASSUME Recovers(e, c) PROVE e <= c + 1
  <2>1. (c - e) % FCntModulus >= 0
    BY Remainders
  <2> QED
    BY <1>0, <1>2, <2>1 DEF Recovers, FullFCntUp
<1> QED
  BY <1>1, <1>2

-----------------------------------------------------------------------------
LEMMA Kinds ==
  /\ NoSession \notin Session /\ NoTask \in Task /\ Of(NoTask.copies) = {}
  /\ \A s \in Session : s.fCntUp \in Nat /\ s.v11 \in BOOLEAN
<1>1. NoSession \notin Session
  BY DEF NoSession, Session
<1>2. NoTask.copies = NoCopies /\ NoTask.rest = {} /\ NoTask.fCnt = 0
  BY DEF NoTask
<1>3. NoCopies \in [SessId -> Session \cup {NoSession}] /\ Of(NoCopies) = {}
  BY DEF NoCopies, Of
<1>4. NoTask \in Task
  BY <1>3 DEF NoTask, Task, Frame
<1> QED
  BY <1>1, <1>2, <1>3, <1>4 DEF Session

Steps == {"idle", "get", "start", "forward", "save"}
Typed == pc' \in [Handler -> Steps] /\ task' \in [Handler -> Task]
Others(h) == \A g \in Handler \ {h} : pc'[g] = pc[g] /\ task'[g] = task[g]

(* What the actions of a handler do to its own data and to the others'.    *)
LEMMA TaskStep ==
  ASSUME TypeOK, NEW h \in Handler, NEW step \in Steps, NEW w \in Task,
         pc' = [pc EXCEPT ![h] = step], task' = [task EXCEPT ![h] = w]
  PROVE  Typed /\ Others(h) /\ pc'[h] = step /\ task'[h] = w
  BY DEF TypeOK, Typed, Others, Steps

LEMMA FinishEffect ==
  ASSUME TypeOK, NEW h \in Handler, Finish(h)
  PROVE  Typed /\ Others(h) /\ pc'[h] = "idle" /\ task'[h] = NoTask
  BY Kinds, TaskStep DEF Finish, Steps

LEMMA ReceiveEffect ==
  ASSUME TypeOK, NEW h \in Handler, NEW c \in Frame, Receive(h, c)
  PROVE  /\ Typed /\ Others(h) /\ pc[h] = "idle" /\ pc'[h] = "get"
         /\ task'[h].fCnt = c /\ Of(task'[h].copies) = {}
         /\ newest' \in -1 .. MaxFCnt
<1> DEFINE w == [NoTask EXCEPT !.fCnt = c]
<1>1. w \in Task /\ w.fCnt = c /\ w.copies = NoTask.copies
  BY Kinds DEF NoTask, Task
<1>2. newest' \in -1 .. MaxFCnt
  BY DEF Receive, Frame, TypeOK
<1>3. pc[h] = "idle" /\ pc' = [pc EXCEPT ![h] = "get"] /\ task' = [task EXCEPT ![h] = w]
  BY DEF Receive, Busy
<1> HIDE DEF w
<1> QED
  BY <1>1, <1>2, <1>3, Kinds, TaskStep DEF Steps

Matching(h) == {i \in Live : Matches(sess[i], task[h].fCnt)}

LEMMA GetEffect ==
  ASSUME TypeOK, NEW h \in Handler, GetSessions(h)
  PROVE  /\ Typed /\ Others(h) /\ pc[h] = "get"
         /\ pc'[h] = IF Matching(h) = {} THEN "start" ELSE "forward"
         /\ task'[h].fCnt = task[h].fCnt /\ Of(task'[h].copies) = Matching(h)
         /\ \A i \in Matching(h) : /\ task'[h].copies[i].fCntUp = (task[h].fCnt % FCntModulus) + 1
                                   /\ task'[h].copies[i].v11 = sess[i].v11
<1> DEFINE c == task[h].fCnt
           copies == [i \in SessId |-> IF i \in Matching(h)
                                       THEN [sess[i] EXCEPT !.fCntUp = (c % FCntModulus) + 1]
                                       ELSE NoSession]
           w == [task[h] EXCEPT !.copies = copies, !.rest = Matching(h)]
<1>1. task[h] \in Task /\ c \in 0 .. MaxFCnt /\ (c % FCntModulus) + 1 \in 0 .. MaxFCnt + 1
  <2>1. task[h] \in Task /\ c \in 0 .. MaxFCnt
    BY DEF TypeOK, Task, Frame
  <2> QED
    BY <2>1, Transmitted
<1>2. \A i \in Matching(h) : i \in SessId /\ sess[i] \in Session
  BY DEF Matching, Live, Of, TypeOK
<1>3. \A i \in Matching(h) : /\ copies[i] \in Session
                             /\ copies[i].fCntUp = (c % FCntModulus) + 1
                             /\ copies[i].v11 = sess[i].v11
  BY <1>1, <1>2 DEF Session
<1>4. copies \in [SessId -> Session \cup {NoSession}]
  BY <1>3
<1>5. Of(copies) = Matching(h)
  BY <1>2, <1>3, Kinds DEF Of
<1>6. /\ pc[h] = "get" /\ task' = [task EXCEPT ![h] = w]
      /\ pc' = [pc EXCEPT ![h] = IF Matching(h) = {} THEN "start" ELSE "forward"]
  BY DEF GetSessions, Matching, TypeOK
<1> HIDE DEF copies
<1>7. w \in Task /\ w.fCnt = c /\ w.copies = copies
  BY <1>1, <1>2, <1>4 DEF Task
<1> HIDE DEF w
<1> QED
  BY <1>3, <1>5, <1>6, <1>7, TaskStep DEF Steps

LEMMA HandlesType ==
  ASSUME TypeOK, NEW c \in Frame, HomeHandles(c)
  PROVE  homeFCnt' \in 0 .. MaxFCnt + 1
  BY DEF HomeHandles, TypeOK, Frame

LEMMA StartEffect ==
  ASSUME TypeOK, NEW h \in Handler, StartSession(h)
  PROVE  /\ Typed /\ Others(h) /\ pc[h] = "start" /\ pc'[h] = "forward"
         /\ task'[h].fCnt = task[h].fCnt
         /\ homeFCnt' \in 0 .. MaxFCnt + 1
         /\ used' \in 0 .. MaxSessions /\ left' \in [SessId -> 0 .. MaxLifetime]
         /\ \/ used' = used /\ task'[h].copies = task[h].copies
            \/ /\ used' = used + 1 /\ HomeFinds(task[h].fCnt)
               /\ Of(task'[h].copies) = Of(task[h].copies) \cup {used + 1}
               /\ task'[h].copies[used + 1] = Started
               /\ \A i \in SessId \ {used + 1} : task'[h].copies[i] = task[h].copies[i]
<1>0. /\ task[h] \in Task /\ pc[h] = "start" /\ pc' = [pc EXCEPT ![h] = "forward"]
      /\ task[h].fCnt \in Frame /\ task[h].copies \in [SessId -> Session \cup {NoSession}]
  BY DEF StartSession, TypeOK, Task
<1>1. CASE UNCHANGED <<left, used, task>>
  <2>1. homeFCnt' \in 0 .. MaxFCnt + 1
    BY <1>0, <1>1, HandlesType DEF StartSession, TypeOK
  <2>2. Typed /\ Others(h) /\ pc'[h] = "forward"
    BY <1>0, <1>1 DEF TypeOK, Typed, Others, Steps
  <2> QED
    BY <1>0, <1>1, <2>1, <2>2 DEF TypeOK
<1>2. CASE ~UNCHANGED <<left, used, task>>
  <2> DEFINE i == used + 1
             copies == [task[h].copies EXCEPT ![i] = Started]
             w == [task[h] EXCEPT !.copies = copies, !.rest = {i}]
  <2>1. /\ HomeFinds(task[h].fCnt) /\ used < MaxSessions /\ used' = i
        /\ left' = [left EXCEPT ![i] = profile.lifetime]
        /\ UNCHANGED homeFCnt
        /\ task' = [task EXCEPT ![h].copies[i] = Started, ![h].rest = {i}]
    BY <1>2 DEF StartSession
  <2>2. task' = [task EXCEPT ![h] = w]
    BY <2>1 DEF TypeOK
  <2>3. i \in SessId /\ used' \in 0 .. MaxSessions
    BY <2>1 DEF SessId, TypeOK
  <2>4. Started \in Session
    BY DEF Started, Session, TypeOK
  <2>5. /\ copies \in [SessId -> Session \cup {NoSession}] /\ copies[i] = Started
        /\ \A j \in SessId \ {i} : copies[j] = task[h].copies[j]
    BY <1>0, <2>3, <2>4
  <2>6. Of(copies) = Of(task[h].copies) \cup {i}
    BY <2>3, <2>4, <2>5, Kinds DEF Of
  <2>7. left' \in [SessId -> 0 .. MaxLifetime]
    BY <2>1, <2>3 DEF TypeOK, Profile
  <2>8. homeFCnt' \in 0 .. MaxFCnt + 1
    BY <2>1 DEF TypeOK
  <2> HIDE DEF copies
  <2>9. w \in Task /\ w.copies = copies /\ w.fCnt = task[h].fCnt
    BY <1>0, <2>3, <2>5 DEF Task
  <2> HIDE DEF w
  <2>10. Typed /\ Others(h) /\ pc'[h] = "forward" /\ task'[h] = w
    BY <1>0, <2>2, <2>9, TaskStep DEF Steps
  <2> HIDE DEF i
  <2>11. used' = used + 1 /\ i = used + 1
    BY <2>1 DEF i
  <2> QED
    BY <1>0, <2>1, <2>3, <2>5, <2>6, <2>7, <2>8, <2>9, <2>10, <2>11
<1> QED
  BY <1>1, <1>2

LEMMA ForwardEffect ==
  ASSUME TypeOK, NEW h \in Handler, Forward(h)
  PROVE  /\ Typed /\ Others(h) /\ pc[h] = "forward" /\ pc'[h] \in {"forward", "save"}
         /\ task'[h].fCnt = task[h].fCnt /\ task'[h].copies = task[h].copies
         /\ homeFCnt' \in 0 .. MaxFCnt + 1
<1>0. task[h] \in Task /\ task[h].fCnt \in Frame /\ pc[h] = "forward" /\ pc \in [Handler -> Steps]
      /\ task[h].rest \subseteq SessId /\ Of(task[h].copies) \subseteq SessId
  BY DEF Forward, TypeOK, Task, Of, Steps
<1>1. homeFCnt' \in 0 .. MaxFCnt + 1
  BY <1>0, HandlesType DEF Forward, TypeOK
<1>2. PICK rest \in SUBSET SessId, step \in {"forward", "save"} :
        task' = [task EXCEPT ![h].rest = rest] /\ pc' = [pc EXCEPT ![h] = step]
  BY <1>0 DEF Forward
<1> DEFINE w == [task[h] EXCEPT !.rest = rest]
<1>3. w \in Task /\ w.fCnt = task[h].fCnt /\ w.copies = task[h].copies
  BY <1>0 DEF Task
<1>4. task' = [task EXCEPT ![h] = w]
  BY <1>2
<1> HIDE DEF w
<1> QED
  BY <1>0, <1>1, <1>2, <1>3, <1>4, TaskStep DEF Steps

LEMMA SaveEffect ==
  ASSUME TypeOK, NEW h \in Handler, Save(h)
  PROVE  /\ Typed /\ Others(h) /\ pc[h] = "save"
         /\ \/ pc'[h] = "save" /\ task'[h].fCnt = task[h].fCnt /\ task'[h].copies = task[h].copies
            \/ pc'[h] = "idle" /\ task'[h] = NoTask
         /\ sess' \in [SessId -> Session \cup {NoSession}]
         /\ \A i \in SessId : sess'[i] \in {sess[i], task[h].copies[i]}
<1>0. task[h] \in Task /\ pc[h] = "save" /\ pc \in [Handler -> Steps]
      /\ task[h].rest \subseteq SessId /\ sess \in [SessId -> Session \cup {NoSession}]
      /\ task[h].copies \in [SessId -> Session \cup {NoSession}]
  BY DEF Save, TypeOK, Task, Steps
<1>1. ASSUME NEW i \in task[h].rest,
             sess' = IF left[i] > 0 THEN [sess EXCEPT ![i] = task[h].copies[i]] ELSE sess,
             task' = [task EXCEPT ![h].rest = @ \ {i}], UNCHANGED pc
      PROVE  /\ Typed /\ Others(h) /\ pc'[h] = "save" /\ task'[h].fCnt = task[h].fCnt
             /\ task'[h].copies = task[h].copies
             /\ sess' \in [SessId -> Session \cup {NoSession}]
             /\ \A j \in SessId : sess'[j] \in {sess[j], task[h].copies[j]}
  <2> DEFINE w == [task[h] EXCEPT !.rest = @ \ {i}]
  <2>1. w \in Task /\ w.fCnt = task[h].fCnt /\ w.copies = task[h].copies
    BY <1>0 DEF Task
  <2>2. task' = [task EXCEPT ![h] = w] /\ pc' = [pc EXCEPT ![h] = "save"]
    BY <1>0, <1>1
  <2> HIDE DEF w
  <2>3. Typed /\ Others(h) /\ pc'[h] = "save" /\ task'[h] = w
    BY <2>1, <2>2, TaskStep DEF Steps
  <2>4. /\ sess' \in [SessId -> Session \cup {NoSession}]
        /\ \A j \in SessId : sess'[j] \in {sess[j], task[h].copies[j]}
    BY <1>0, <1>1
  <2> QED
    BY <2>1, <2>3, <2>4
<1>2. CASE Finish(h) /\ UNCHANGED sess
  BY <1>0, <1>2, FinishEffect
<1> QED
  BY <1>0, <1>1, <1>2 DEF Save

-----------------------------------------------------------------------------
LEMMA TypeInit == Init => TypeOK
<1> SUFFICES ASSUME Init PROVE TypeOK
  OBVIOUS
<1>1. NoCopies \in [SessId -> Session \cup {NoSession}]
  BY DEF NoCopies
<1>2. profile \in Profile /\ joining \in BOOLEAN
  BY DEF Init, Profile
<1>3. pc \in [Handler -> Steps] /\ task \in [Handler -> Task]
  BY Kinds DEF Init, Steps
<1>4. /\ homeFCnt \in 0 .. MaxFCnt + 1 /\ newest \in -1 .. MaxFCnt /\ used \in 0 .. MaxSessions
      /\ left \in [SessId -> 0 .. MaxLifetime]
  BY DEF Init
<1> QED
  BY <1>1, <1>2, <1>3, <1>4 DEF Init, TypeOK, Steps

LEMMA TypeNext == TypeOK /\ [Next]_vars => TypeOK'
<1> SUFFICES ASSUME TypeOK, [Next]_vars PROVE TypeOK'
  OBVIOUS
<1>1. ASSUME Typed, homeFCnt' \in 0 .. MaxFCnt + 1,
             UNCHANGED <<profile, sess, byEui, joining, stopped, held>>,
             used' \in 0 .. MaxSessions, left' \in [SessId -> 0 .. MaxLifetime],
             newest' \in -1 .. MaxFCnt
      PROVE  TypeOK'
  BY <1>1 DEF TypeOK, Typed, Steps
<1>2. /\ homeFCnt \in 0 .. MaxFCnt + 1 /\ used \in 0 .. MaxSessions
      /\ left \in [SessId -> 0 .. MaxLifetime] /\ newest \in -1 .. MaxFCnt
  BY DEF TypeOK
<1>3. CASE SaveRoamingSession
  <2>1. [fCntUp |-> 0, v11 |-> profile.v11] \in Session
    BY DEF Session, TypeOK, Profile
  <2>2. used < MaxSessions => used + 1 \in SessId /\ used + 1 \in 0 .. MaxSessions
    BY <1>2 DEF SessId
  <2>3. profile.lifetime \in 0 .. MaxLifetime
    BY DEF TypeOK, Profile
  <2>4. /\ sess' \in [SessId -> Session \cup {NoSession}] /\ byEui' \subseteq SessId
        /\ left' \in [SessId -> 0 .. MaxLifetime] /\ used' \in 0 .. MaxSessions
    BY <1>2, <1>3, <2>1, <2>2, <2>3 DEF SaveRoamingSession, TypeOK
  <2> QED
    BY <1>3, <2>4 DEF SaveRoamingSession, TypeOK
<1>4. ASSUME NEW h \in Handler, NEW c \in Frame, Receive(h, c) PROVE TypeOK'
  BY <1>1, <1>2, <1>4, ReceiveEffect DEF Receive
<1>5. ASSUME NEW h \in Handler, GetSessions(h) PROVE TypeOK'
  BY <1>1, <1>2, <1>5, GetEffect DEF GetSessions
<1>6. ASSUME NEW h \in Handler, StartSession(h) PROVE TypeOK'
  BY <1>1, <1>2, <1>6, StartEffect DEF StartSession
<1>7. ASSUME NEW h \in Handler, Forward(h) PROVE TypeOK'
  BY <1>1, <1>2, <1>7, ForwardEffect DEF Forward
<1>8. ASSUME NEW h \in Handler, Save(h) PROVE TypeOK'
  <2>1. Typed /\ sess' \in [SessId -> Session \cup {NoSession}]
    BY <1>8, SaveEffect
  <2> QED
    BY <1>8, <2>1 DEF Save, TypeOK, Typed, Steps
<1>9. ASSUME NEW h \in Handler, Abort(h) PROVE TypeOK'
  BY <1>1, <1>2, <1>9, FinishEffect DEF Abort
<1>10. CASE PRStop
  <2>1. /\ sess' \in [SessId -> Session \cup {NoSession}]
        /\ stopped' \subseteq SessId /\ held' \subseteq stopped'
    BY <1>10 DEF PRStop, TypeOK
  <2> QED
    BY <1>10, <2>1 DEF PRStop, TypeOK
<1>11. ASSUME NEW c \in Frame, HomeHears(c) PROVE TypeOK'
  <2>1. homeFCnt' \in 0 .. MaxFCnt + 1
    BY <1>11, HandlesType DEF HomeHears
  <2> QED
    BY <1>11, <2>1 DEF HomeHears, TypeOK
<1>12. CASE Tick
  <2>1. left' \in [SessId -> 0 .. MaxLifetime]
    BY <1>12 DEF Tick, TypeOK
  <2>2. sess' \in [SessId -> Session \cup {NoSession}]
    BY <1>12 DEF Tick, TypeOK
  <2> QED
    BY <1>12, <2>1, <2>2 DEF Tick, TypeOK
<1>13. CASE UNCHANGED vars
  BY <1>13 DEF vars, TypeOK
<1> QED
  BY <1>3, <1>4, <1>5, <1>6, <1>7, <1>8, <1>9, <1>10, <1>11, <1>12, <1>13 DEF Next, HandlerStep

(* Type correctness of every behaviour.                                    *)
THEOREM TypeCorrect == Spec => []TypeOK
  BY TypeInit, TypeNext, PTL DEF Spec

-----------------------------------------------------------------------------
(* What was stopped comes back only with a handler that held it then.      *)
StopInv ==
  /\ byEui \subseteq 1 .. used /\ stopped \subseteq 1 .. used
  /\ StoppedForGood
  /\ \A h \in Handler : Of(task[h].copies) \cap stopped \subseteq held

(* While frames arrive in order and their counters do not wrap, a session  *)
LEMMA StopNext == TypeOK /\ StopInv /\ [Next]_vars => StopInv'
<1> SUFFICES ASSUME TypeOK, StopInv, [Next]_vars PROVE StopInv'
  OBVIOUS
<1>0. /\ used \in Nat /\ sess \in [SessId -> Session \cup {NoSession}] /\ byEui \subseteq SessId
      /\ byEui \subseteq 1 .. used /\ stopped \subseteq 1 .. used
      /\ Live \cap stopped \subseteq held
      /\ \A h \in Handler : Of(task[h].copies) \cap stopped \subseteq held
  BY DEF TypeOK, StopInv, StoppedForGood
<1>1. ASSUME UNCHANGED <<byEui, stopped, held, sess>>, used' \in {used, used + 1},
             NEW h \in Handler, Others(h), Of(task'[h].copies) \cap stopped \subseteq held
      PROVE  StopInv'
  <2>1. Live' = Live
    BY <1>1 DEF Live, Of
  <2>2. \A g \in Handler : (Of(task[g].copies) \cap stopped \subseteq held)'
    BY <1>0, <1>1 DEF Others
  <2> QED
    BY <1>0, <1>1, <2>1, <2>2 DEF StopInv, StoppedForGood
<1>2. ASSUME UNCHANGED <<byEui, stopped, held, used, task>>, Live' \cap stopped \subseteq held
      PROVE  StopInv'
  BY <1>0, <1>2 DEF StopInv, StoppedForGood
<1>3. CASE SaveRoamingSession
  <2>1. UNCHANGED <<stopped, held, task>>
    BY <1>3 DEF SaveRoamingSession
  <2>2. byEui' \subseteq byEui \cup {used'} /\ used' \in {used, used + 1} /\ byEui' \subseteq 1 .. used'
    <3>1. CASE UNCHANGED <<used, byEui>>
      BY <1>0, <3>1
    <3>2. CASE used' = used + 1 /\ byEui' = byEui \cup {used + 1}
      BY <1>0, <3>2
    <3> QED
      BY <1>3, <3>1, <3>2 DEF SaveRoamingSession
  <2>3. Live' \subseteq Live \cup {used + 1}
    BY <1>0, <1>3 DEF SaveRoamingSession, Live, Of
  <2>4. used + 1 \notin stopped
    BY <1>0
  <2> QED
    BY <1>0, <2>1, <2>2, <2>3, <2>4 DEF StopInv, StoppedForGood
<1>4. ASSUME NEW h \in Handler, NEW c \in Frame, Receive(h, c) PROVE StopInv'
  BY <1>1, <1>4, ReceiveEffect DEF Receive
<1>5. ASSUME NEW h \in Handler, GetSessions(h) PROVE StopInv'
  <2>1. Of(task'[h].copies) \subseteq Live
    BY <1>5, GetEffect DEF Matching
  <2> QED
    BY <1>0, <1>1, <1>5, <2>1, GetEffect DEF GetSessions
<1>6. ASSUME NEW h \in Handler, StartSession(h) PROVE StopInv'
  <2>1. /\ Of(task'[h].copies) \subseteq Of(task[h].copies) \cup {used + 1}
        /\ used' \in {used, used + 1} /\ Others(h)
    BY <1>6, StartEffect
  <2>2. used + 1 \notin stopped
    BY <1>0
  <2> QED
    BY <1>0, <1>1, <1>6, <2>1, <2>2 DEF StartSession
<1>7. ASSUME NEW h \in Handler, Forward(h) PROVE StopInv'
  BY <1>0, <1>1, <1>7, ForwardEffect DEF Forward
<1>8. ASSUME NEW h \in Handler, Save(h) PROVE StopInv'
  <2>1. Live' \subseteq Live \cup Of(task[h].copies)
    BY <1>8, SaveEffect DEF Live, Of
  <2>2. UNCHANGED <<byEui, stopped, held, used>> /\ Others(h)
        /\ Of(task'[h].copies) \subseteq Of(task[h].copies)
    BY <1>8, SaveEffect, Kinds DEF Save
  <2>3. \A g \in Handler : (Of(task[g].copies) \cap stopped \subseteq held)'
    BY <1>0, <2>2 DEF Others
  <2> QED
    BY <1>0, <2>1, <2>2, <2>3 DEF StopInv, StoppedForGood
<1>9. ASSUME NEW h \in Handler, Abort(h) PROVE StopInv'
  BY <1>1, <1>9, FinishEffect, Kinds DEF Abort
<1>10. CASE PRStop
  <2>1. PICK gone \in SUBSET byEui :
          /\ sess' = [i \in SessId |-> IF i \in gone THEN NoSession ELSE sess[i]]
          /\ stopped' = stopped \cup gone
          /\ held' = held \cup {i \in gone : \E h \in Handler : i \in Of(task[h].copies)}
    BY <1>10 DEF PRStop
  <2>2. UNCHANGED <<byEui, used, task>>
    BY <1>10 DEF PRStop
  <2>3. Live' = Live \ gone
    BY <1>0, <2>1 DEF Live, Of
  <2>4. StoppedForGood'
    BY <1>0, <2>1, <2>3 DEF StoppedForGood
  <2>5. \A h \in Handler : (Of(task[h].copies) \cap stopped \subseteq held)'
    BY <1>0, <2>1, <2>2
  <2> QED
    BY <1>0, <2>1, <2>2, <2>4, <2>5 DEF StopInv
<1>11. ASSUME NEW c \in Frame, HomeHears(c) PROVE StopInv'
  BY <1>0, <1>2, <1>11 DEF HomeHears, Live
<1>12. CASE Tick
  <2>1. Live' \subseteq Live
    BY <1>0, <1>12 DEF Tick, Live, Of
  <2> QED
    BY <1>0, <1>2, <1>12, <2>1 DEF Tick
<1>13. CASE UNCHANGED vars
  BY <1>0, <1>2, <1>13 DEF vars, Live
<1> QED
  BY <1>3, <1>4, <1>5, <1>6, <1>7, <1>8, <1>9, <1>10, <1>11, <1>12, <1>13 DEF Next, HandlerStep

LEMMA StopInit == Init => StopInv
<1> SUFFICES ASSUME Init PROVE StopInv
  OBVIOUS
<1>1. Live = {}
  BY DEF Init, Live, Of, NoCopies
<1> QED
  BY <1>1 DEF Init, StopInv, StoppedForGood

(* A session the home server stopped does not come back, unless a handler  *)
(* had loaded it before: whatever overlaps, fails or expires.              *)
THEOREM StoppedSessionsStayStopped == Spec => []StoppedForGood
<1>1. StopInv => StoppedForGood
  BY DEF StopInv
<1> QED
  BY <1>1, TypeCorrect, StopInit, StopNext, PTL DEF Spec

-----------------------------------------------------------------------------
InOrder == profile.serial /\ newest < FCntModulus - 1 /\ ~(profile.validates /\ profile.v11)
Fits(s) == s.fCntUp <= newest + 1 /\ (profile.validates => ~s.v11)
Alone(h) == \A g \in Handler \ {h} : ~Busy(g)
AtMostOne(S) == \A i, j \in S : i = j
HandlerFits(h) ==
  /\ Busy(h) => Alone(h) /\ ~joining /\ task[h].fCnt = newest
  /\ pc[h] \in {"idle", "get", "start"} => Of(task[h].copies) = {}
  /\ pc[h] = "start" => Live = {}
  /\ AtMostOne(Live \cup Of(task[h].copies))
  /\ \A i \in Of(task[h].copies) : Fits(task[h].copies[i])
OrderInv == InOrder =>
  /\ joining => Live = {}
  /\ AtMostOne(Live) /\ \A i \in Live : Fits(sess[i])
  /\ \A h \in Handler : HandlerFits(h)

(* The sessions of the visited network, and the copies of its one handler, *)
(* match the frame that is handled; a new one is not ahead of it either.   *)
LEMMA EveryOneMatches ==
  ASSUME TypeOK, InOrder, NEW c \in Frame, c = newest, NEW s \in Session, Fits(s)
  PROVE  Matches(s, c)
<1>1. c \in Nat /\ c < FCntModulus - 1 /\ s.fCntUp \in Nat /\ s.fCntUp <= c + 1
  BY Kinds DEF Frame, InOrder, Fits
<1>2. Recovers(s.fCntUp, c)
  BY <1>1, Recovered
<1> QED
  BY <1>2, Kinds DEF Matches, InOrder, Fits, TypeOK, Profile

LEMMA StartedFits ==
  ASSUME TypeOK, InOrder, NEW c \in Frame, c = newest, HomeFinds(c)
  PROVE  Fits(Started)
<1>1. c \in Nat /\ c < FCntModulus - 1 /\ homeFCnt \in Nat
  BY DEF Frame, InOrder, TypeOK
<1>2. homeFCnt <= c + 1
  BY <1>1, Recovered DEF HomeFinds
<1> QED
  BY <1>2 DEF Fits, Started

LEMMA OrderNext == TypeOK /\ OrderInv /\ [Next]_vars => OrderInv'
<1> SUFFICES ASSUME TypeOK, OrderInv, [Next]_vars, InOrder'
             PROVE  /\ joining' => Live' = {}
                    /\ AtMostOne(Live') /\ \A i \in Live' : Fits(sess[i])'
                    /\ \A h \in Handler : HandlerFits(h)'
  BY DEF OrderInv, AtMostOne
<1>0. /\ newest \in Int /\ newest' \in Int /\ newest >= -1 /\ newest <= newest'
      /\ profile' = profile /\ InOrder
  <2>1. newest \in -1 .. MaxFCnt /\ newest' \in -1 .. MaxFCnt
    BY TypeNext DEF TypeOK
  <2>2. newest' = newest \/ \E h \in Handler, c \in Frame : Receive(h, c) /\ newest' = c
    BY DEF Next, vars, HandlerStep, SaveRoamingSession, Receive, GetSessions, StartSession, Forward,
       Save, Abort, PRStop, HomeHears, Tick
  <2>3. profile' = profile
    BY DEF Next, vars, HandlerStep, SaveRoamingSession, Receive, GetSessions, StartSession, Forward,
       Save, Abort, PRStop, HomeHears, Tick
  <2>4. newest <= newest'
    BY <2>1, <2>2, <2>3 DEF Receive, InOrder, Frame
  <2> QED
    BY <2>1, <2>3, <2>4 DEF InOrder
<1>1. /\ joining => Live = {}
      /\ AtMostOne(Live) /\ \A i \in Live : Fits(sess[i])
      /\ \A h \in Handler : HandlerFits(h)
  BY <1>0 DEF OrderInv
<1> DEFINE Goal == /\ joining' => Live' = {}
                   /\ AtMostOne(Live') /\ \A i \in Live' : Fits(sess[i])'
                   /\ \A h \in Handler : HandlerFits(h)'

<1>2. ASSUME UNCHANGED <<pc, task, joining, newest>>,
             \A i \in Live' : i \in Live /\ sess'[i] = sess[i]
      PROVE  Goal
  <2>1. AtMostOne(Live') /\ (joining' => Live' = {})
    BY <1>1, <1>2 DEF AtMostOne
  <2>2. \A i \in Live' : Fits(sess[i])'
    BY <1>0, <1>1, <1>2 DEF Fits
  <2>3. ASSUME NEW h \in Handler PROVE HandlerFits(h)'
    BY <1>0, <1>1, <1>2 DEF HandlerFits, Busy, Alone, AtMostOne, Fits
  <2> QED
    BY <2>1, <2>2, <2>3
<1>3. ASSUME NEW h \in Handler, Busy(h), Others(h), UNCHANGED <<joining, newest, sess>>,
             task'[h].fCnt = task[h].fCnt,
             pc'[h] \in {"idle", "get", "start"} => Of(task'[h].copies) = {},
             pc'[h] = "start" => Live = {},
             AtMostOne(Live \cup Of(task'[h].copies)),
             \A i \in Of(task'[h].copies) : Fits(task'[h].copies[i])
      PROVE  Goal
  <2>0. /\ Alone(h) /\ ~joining /\ task[h].fCnt = newest /\ Live' = Live
        /\ \A g \in Handler \ {h} : pc'[g] = "idle" /\ Of(task'[g].copies) = {}
    <3>1. HandlerFits(h) /\ Live' = Live
      BY <1>1, <1>3 DEF Live, Of
    <3>2. ASSUME NEW g \in Handler \ {h} PROVE pc'[g] = "idle" /\ Of(task'[g].copies) = {}
      <4>1. pc[g] = "idle" /\ HandlerFits(g)
        BY <1>1, <1>3, <3>1 DEF HandlerFits, Alone, Busy
      <4> QED
        BY <1>3, <4>1 DEF HandlerFits, Others
    <3> QED
      BY <1>3, <3>1, <3>2 DEF HandlerFits
  <2>1. \A i \in Live' : Fits(sess[i])'
    BY <1>0, <1>1, <1>3, <2>0 DEF Fits
  <2>2. ASSUME NEW g \in Handler \ {h} PROVE HandlerFits(g)'
    BY <1>1, <2>0 DEF HandlerFits, Busy
  <2>3. ASSUME NEW i \in Of(task'[h].copies) PROVE Fits(task[h].copies[i])'
    BY <1>0, <1>3, <2>3 DEF Fits
  <2>4. HandlerFits(h)'
    BY <1>3, <2>0, <2>3 DEF HandlerFits, Busy, Alone
  <2> QED
    BY <1>1, <1>3, <2>0, <2>1, <2>2, <2>4
<1>4. CASE SaveRoamingSession
  <2> DEFINE s == [fCntUp |-> 0, v11 |-> profile.v11]
  <2>1. /\ joining /\ Live = {} /\ ~joining' /\ UNCHANGED <<pc, task, newest>>
        /\ \A h \in Handler : ~Busy(h)
    BY <1>1, <1>4 DEF SaveRoamingSession, HandlerFits
  <2>2. sess' = sess \/ (used + 1 \in SessId /\ sess' = [sess EXCEPT ![used + 1] = s])
    BY <1>4 DEF SaveRoamingSession, TypeOK, SessId
  <2>3. \A i \in Live' : i = used + 1 /\ sess'[i] = s
    BY <2>1, <2>2 DEF Live, Of, TypeOK
  <2>4. Fits(s)
    BY <1>0 DEF Fits, InOrder
  <2>5. AtMostOne(Live')
    BY <2>3 DEF AtMostOne
  <2>6. \A i \in Live' : Fits(sess[i])'
    BY <1>0, <2>1, <2>3, <2>4 DEF Fits
  <2>7. ASSUME NEW h \in Handler PROVE HandlerFits(h)'
    BY <1>1, <2>1, <2>5 DEF HandlerFits, Busy, AtMostOne
  <2> QED
    BY <2>1, <2>5, <2>6, <2>7
<1>5. ASSUME NEW h \in Handler, NEW c \in Frame, Receive(h, c) PROVE Goal
  <2>1. /\ Others(h) /\ pc'[h] = "get" /\ task'[h].fCnt = c /\ Of(task'[h].copies) = {}
        /\ newest' = c /\ UNCHANGED <<sess, joining>> /\ ~joining
        /\ \A g \in Handler : ~Busy(g)
    BY <1>0, <1>5, ReceiveEffect DEF Receive, InOrder
  <2>2. Live' = Live
    BY <2>1 DEF Live, Of
  <2>3. \A i \in Live' : Fits(sess[i])'
    <3>1. \A i \in Live : sess[i].fCntUp \in Nat /\ Fits(sess[i])
      BY <1>1, Kinds DEF Live, Of, TypeOK
    <3> QED
      BY <1>0, <2>1, <2>2, <3>1 DEF Fits
  <2>4. ASSUME NEW g \in Handler PROVE HandlerFits(g)'
    <3>1. CASE g = h
      BY <1>1, <2>1, <2>2, <3>1 DEF HandlerFits, Busy, Alone, Others
    <3>2. CASE g # h
      BY <1>1, <2>1, <2>2, <3>2 DEF HandlerFits, Busy, Others
    <3> QED
      BY <3>1, <3>2
  <2> QED
    BY <1>1, <2>1, <2>2, <2>3, <2>4
<1>6. ASSUME NEW h \in Handler, GetSessions(h) PROVE Goal
  <2>1. /\ Others(h) /\ pc[h] = "get" /\ task'[h].fCnt = task[h].fCnt
        /\ pc'[h] = IF Matching(h) = {} THEN "start" ELSE "forward"
        /\ Of(task'[h].copies) = Matching(h) /\ UNCHANGED <<joining, newest, sess>>
        /\ \A i \in Matching(h) : /\ task'[h].copies[i].fCntUp = (task[h].fCnt % FCntModulus) + 1
                                  /\ task'[h].copies[i].v11 = sess[i].v11
    BY <1>6, GetEffect DEF GetSessions
  <2>2. task[h].fCnt = newest /\ newest \in Frame /\ newest \in Nat
    <3>1. HandlerFits(h) /\ Busy(h) /\ task[h] \in Task
      BY <1>1, <2>1 DEF Busy, TypeOK
    <3> QED
      BY <3>1 DEF HandlerFits, Task, Frame
  <2>3. \A i \in Live : sess[i] \in Session /\ Fits(sess[i])
    BY <1>1 DEF Live, Of, TypeOK
  <2>4. Matching(h) = Live
    BY <1>0, <2>2, <2>3, EveryOneMatches DEF Matching
  <2>5. newest % FCntModulus = newest
    BY <1>0, <2>2, Remainders DEF InOrder
  <2>6. \A i \in Of(task'[h].copies) : Fits(task'[h].copies[i])
    BY <2>1, <2>2, <2>3, <2>4, <2>5 DEF Fits
  <2>7. AtMostOne(Live \cup Of(task'[h].copies))
    BY <1>1, <2>1, <2>4 DEF AtMostOne
  <2> QED
    BY <1>3, <2>1, <2>4, <2>6, <2>7 DEF Busy
<1>7. ASSUME NEW h \in Handler, StartSession(h) PROVE Goal
  <2>1. /\ Others(h) /\ pc[h] = "start" /\ pc'[h] = "forward" /\ task'[h].fCnt = task[h].fCnt
        /\ UNCHANGED <<joining, newest, sess>>
    BY <1>7, StartEffect DEF StartSession
  <2>2. task[h].fCnt = newest /\ newest \in Frame /\ Live = {} /\ Of(task[h].copies) = {}
    <3>1. HandlerFits(h) /\ Busy(h) /\ task[h] \in Task
      BY <1>1, <2>1 DEF Busy, TypeOK
    <3> QED
      BY <2>1, <3>1 DEF HandlerFits, Task
  <2>3. CASE task'[h].copies = task[h].copies
    BY <1>3, <2>1, <2>2, <2>3 DEF Busy, AtMostOne
  <2>4. CASE task'[h].copies # task[h].copies
    <3>1. /\ HomeFinds(newest) /\ Of(task'[h].copies) = {used + 1}
          /\ task'[h].copies[used + 1] = Started
      BY <1>7, <2>2, <2>4, StartEffect
    <3>2. \A i \in Of(task'[h].copies) : Fits(task'[h].copies[i])
      BY <1>0, <2>2, <3>1, StartedFits
    <3> QED
      BY <1>3, <2>1, <2>2, <3>1, <3>2 DEF Busy, AtMostOne
  <2> QED
    BY <2>3, <2>4
<1>8. ASSUME NEW h \in Handler, Forward(h) PROVE Goal
  <2>1. /\ Others(h) /\ Busy(h) /\ pc'[h] \in {"forward", "save"}
        /\ task'[h].fCnt = task[h].fCnt /\ task'[h].copies = task[h].copies
        /\ UNCHANGED <<joining, newest, sess>>
    BY <1>8, ForwardEffect DEF Forward, Busy
  <2> QED
    BY <1>1, <1>3, <2>1 DEF HandlerFits
<1>9. ASSUME NEW h \in Handler, Save(h) PROVE Goal
  <2>1. /\ Others(h) /\ pc[h] = "save" /\ UNCHANGED <<joining, newest>>
        /\ \/ pc'[h] = "save" /\ task'[h].fCnt = task[h].fCnt /\ task'[h].copies = task[h].copies
           \/ pc'[h] = "idle" /\ Of(task'[h].copies) = {}
        /\ \A i \in SessId : sess'[i] \in {sess[i], task[h].copies[i]}
    BY <1>9, SaveEffect, Kinds DEF Save
  <2>2. HandlerFits(h) /\ Busy(h)
    BY <1>1, <2>1 DEF Busy
  <2>3. Live' \subseteq Live \cup Of(task[h].copies)
    BY <2>1 DEF Live, Of
  <2>4. AtMostOne(Live') /\ AtMostOne(Live' \cup Of(task'[h].copies))
    BY <2>1, <2>2, <2>3 DEF AtMostOne, HandlerFits
  <2>5. ASSUME NEW i \in Live' PROVE Fits(sess[i])'
    <3>1. i \in SessId /\ sess'[i] # NoSession
      BY DEF Live, Of
    <3>2. CASE sess'[i] = sess[i]
      BY <1>0, <1>1, <2>1, <3>1, <3>2 DEF Live, Of, Fits
    <3>3. CASE sess'[i] = task[h].copies[i]
      BY <1>0, <2>1, <2>2, <3>1, <3>3 DEF HandlerFits, Of, Fits
    <3> QED
      BY <2>1, <3>1, <3>2, <3>3
  <2>6. HandlerFits(h)'
    BY <1>0, <2>1, <2>2, <2>4 DEF HandlerFits, Busy, Alone, Others, Fits
  <2>7. ASSUME NEW g \in Handler \ {h} PROVE HandlerFits(g)'
    <3>1. pc'[g] = "idle" /\ Of(task'[g].copies) = {}
      BY <1>1, <2>1, <2>2 DEF HandlerFits, Alone, Busy, Others
    <3> QED
      BY <2>4, <3>1 DEF HandlerFits, Busy
  <2>8. ~joining'
    BY <2>1, <2>2 DEF HandlerFits
  <2> QED
    BY <2>4, <2>5, <2>6, <2>7, <2>8
<1>10. ASSUME NEW h \in Handler, Abort(h) PROVE Goal
  <2>1. /\ Others(h) /\ Busy(h) /\ pc'[h] = "idle" /\ Of(task'[h].copies) = {}
        /\ UNCHANGED <<joining, newest, sess>>
    BY <1>10, FinishEffect, Kinds DEF Abort
  <2>0. Alone(h) /\ ~joining /\ Live' = Live
    BY <1>1, <2>1 DEF HandlerFits, Live
  <2>2. \A g \in Handler : pc'[g] = "idle" /\ Of(task'[g].copies) = {}
    <3>1. \A g \in Handler \ {h} : pc[g] = "idle" /\ Of(task[g].copies) = {}
      BY <1>1, <2>0 DEF HandlerFits, Alone, Busy
    <3> QED
      BY <2>1, <3>1 DEF Others
  <2>3. \A i \in Live' : Fits(sess[i])'
    BY <1>0, <1>1, <2>0, <2>1 DEF Fits
  <2>4. \A g \in Handler : HandlerFits(g)'
    BY <1>1, <2>0, <2>2 DEF HandlerFits, Busy
  <2> QED
    BY <1>1, <2>0, <2>1, <2>2, <2>3, <2>4
<1>11. CASE PRStop \/ Tick
  <2>1. UNCHANGED <<pc, task, joining, newest>>
    BY <1>11 DEF PRStop, Tick
  <2>2. \A i \in Live' : i \in Live /\ sess'[i] = sess[i]
    BY <1>11 DEF PRStop, Tick, Live, Of, TypeOK
  <2> QED
    BY <1>2, <2>1, <2>2
<1>12. CASE UNCHANGED vars \/ \E c \in Frame : HomeHears(c)
  BY <1>2, <1>12 DEF vars, HomeHears, Live, Of
<1> QED
  BY <1>4, <1>5, <1>6, <1>7, <1>8, <1>9, <1>10, <1>11, <1>12 DEF Next, HandlerStep

LEMMA OrderInit == Init => OrderInv
<1> SUFFICES ASSUME Init PROVE OrderInv
  OBVIOUS
<1>1. Live = {} /\ \A h \in Handler : pc[h] = "idle" /\ Of(task[h].copies) = {}
  BY Kinds DEF Init, Live, Of, NoCopies
<1> QED
  BY <1>1 DEF OrderInv, HandlerFits, Busy, AtMostOne

LEMMA OrderSafe == OrderInv => OneSession
<1> SUFFICES ASSUME OrderInv, InOrder PROVE Cardinality(Live) <= 1
  BY DEF OneSession, InOrder
<1>1. CASE Live = {}
  <2>1. Cardinality(Live) = 0
    BY <1>1, FS_EmptySet
  <2> QED
    BY <2>1
<1>2. CASE Live # {}
  <2>1. PICK i : Live = {i}
    BY <1>2 DEF OrderInv, AtMostOne
  <2>2. Cardinality(Live) = 1
    BY <2>1, FS_Singleton
  <2> QED
    BY <2>2
<1> QED
  BY <1>1, <1>2

(* The visited network has at most one session of a device whose uplinks   *)
(* are handled in order, before their counters wrap: with any expiry, stop *)
(* of sessions, failure or uplink that the home network hears itself.      *)
THEOREM AtMostOneSession == Spec => []OneSession
  BY TypeCorrect, OrderInit, OrderNext, OrderSafe, PTL DEF Spec
=============================================================================
