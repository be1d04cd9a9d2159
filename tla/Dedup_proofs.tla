------------------------------ MODULE Dedup_proofs ------------------------------
(***************************************************************************)
(* Proofs about Dedup, for any number of copies, any delay and any time of *)
(* arrival: locks do not overlap, frame-sets are complete and recent.      *)
(***************************************************************************)
EXTENDS Dedup, TLAPS

USE DedupAssumption

Places == {"new", "sleeping", "done", "failed", "crashed"}

(* The facts of the constants that the steps use.                          *)
LEMMA TtlType == Ttl \in Nat /\ Ttl >= MinTtl /\ Ttl >= 2 * Delay /\ Ttl > 0
  BY DEF Ttl

LEMMA MaxTimeType == MaxTime \in Nat /\ MaxTime >= LastCopy
  BY DEF MaxTime

-----------------------------------------------------------------------------
LEMMA TypeInit == Init => TypeOK
  BY TtlType, MaxTimeType DEF Init, TypeOK

LEMMA TypeNext == TypeOK /\ [Next]_vars => TypeOK'
<1> SUFFICES ASSUME TypeOK, [Next]_vars PROVE TypeOK'
  OBVIOUS
<1>1. ASSUME NEW c \in Copy, DeduplicatePut(c) PROVE TypeOK'
  <2>1. now \in 0 .. MaxTime /\ now + Ttl \in 0 .. MaxTime + Ttl
    BY TtlType, MaxTimeType DEF TypeOK
  <2>2. collectEnd' \in 0 .. MaxTime + Ttl /\ lockEnd' \in 0 .. MaxTime + Ttl
    BY <1>1, <2>1 DEF DeduplicatePut, TypeOK
  <2>3. collect' \subseteq Copy
    BY <1>1 DEF DeduplicatePut, TypeOK, Collected
  <2>4. arrived' \in [Copy -> -1 .. MaxTime] /\ pc' \in [Copy -> Places]
    BY <1>1, <2>1, MaxTimeType DEF DeduplicatePut, TypeOK, Places
  <2> QED
    BY <1>1, <2>2, <2>3, <2>4 DEF DeduplicatePut, TypeOK, Places
<1>2. ASSUME NEW c \in Copy, DeduplicateCollect(c) PROVE TypeOK'
  <2>1. pc' \in [Copy -> Places]
    BY <1>2 DEF DeduplicateCollect, TypeOK, Places
  <2>2. sets' \subseteq [by : Copy, copies : SUBSET Copy]
    BY <1>2 DEF DeduplicateCollect, TypeOK, Collected
  <2> QED
    BY <1>2, <2>1, <2>2 DEF DeduplicateCollect, TypeOK, Places
<1>3. ASSUME NEW c \in Copy, Crash(c) PROVE TypeOK'
  BY <1>3 DEF Crash, TypeOK
<1>4. CASE Tick
  BY <1>4, MaxTimeType DEF Tick, TypeOK
<1>5. CASE UNCHANGED vars
  BY <1>5 DEF vars, TypeOK
<1> QED
  BY <1>1, <1>2, <1>3, <1>4, <1>5 DEF Next

(* Type correctness of Dedup.                                              *)
THEOREM TypeCorrect == Spec => []TypeOK
  BY TypeInit, TypeNext, PTL DEF Spec

(* Times are integers.                                                     *)
LEMMA Numbers ==
  ASSUME TypeOK
  PROVE  /\ now \in Nat /\ collectEnd \in Nat /\ lockEnd \in Nat
         /\ Ttl \in Nat /\ Ttl > 0
         /\ \A c \in Copy : arrived[c] \in Int /\ arrived[c] >= -1
         /\ \A f \in sets : f.by \in Copy /\ f.copies \subseteq Copy
         /\ collect \subseteq Copy
  BY TtlType, MaxTimeType DEF TypeOK

-----------------------------------------------------------------------------
(* What DeduplicatePut does to arrival times and sets.                     *)
LEMMA PutEffect ==
  ASSUME TypeOK, TaskInv, NEW c \in Copy, DeduplicatePut(c)
  PROVE  /\ arrived[c] = -1 /\ pc[c] = "new" /\ pc'[c] \in {"sleeping", "done"}
         /\ pc'[c] = "sleeping" <=> ~Locked
         /\ arrived'[c] = now
         /\ \A d \in Copy \ {c} : arrived'[d] = arrived[d] /\ pc'[d] = pc[d]
         /\ UNCHANGED <<now, sets>>
         /\ ~Held(c)
<1>1. arrived[c] = -1
  BY DEF DeduplicatePut, TaskInv
<1>2. ~Held(c)
  BY DEF DeduplicatePut, TaskInv, Held
<1> QED
  BY <1>1, <1>2 DEF DeduplicatePut, TypeOK

(* Collecting changes one task and, perhaps, adds its set.                 *)
LEMMA CollectEffect ==
  ASSUME TypeOK, NEW c \in Copy, DeduplicateCollect(c)
  PROVE  /\ pc[c] = "sleeping" /\ now >= Deadline(c)
         /\ pc'[c] \in {"done", "failed"}
         /\ \A d \in Copy \ {c} : pc'[d] = pc[d]
         /\ UNCHANGED <<now, collect, collectEnd, lockEnd, arrived>>
         /\ \/ Collected = {} /\ sets' = sets /\ pc'[c] = "failed"
            \/ /\ now < collectEnd /\ pc'[c] = "done"
               /\ sets' = sets \cup {[by |-> c, copies |-> collect]}
  BY DEF DeduplicateCollect, TypeOK, Collected

LEMMA TaskInit == Init => TaskInv
  BY DEF Init, TaskInv

LEMMA TaskNext == TypeOK /\ TypeOK' /\ TaskInv /\ CollectInv /\ [Next]_vars => TaskInv'
<1> SUFFICES ASSUME TypeOK, TypeOK', TaskInv, CollectInv, [Next]_vars PROVE TaskInv'
  OBVIOUS
<1>0. /\ now \in Nat /\ \A c \in Copy : arrived[c] \in Int
      /\ \A f \in sets : f.by \in Copy /\ f.copies \subseteq Copy
  BY Numbers
<1>1. ASSUME NEW c \in Copy, DeduplicatePut(c) PROVE TaskInv'
  <2>1. \A f \in sets : f.by # c /\ c \notin f.copies
    BY <1>1, PutEffect DEF TaskInv
  <2> QED
    BY <1>0, <1>1, <2>1, PutEffect DEF TaskInv, Deadline
<1>2. ASSUME NEW c \in Copy, DeduplicateCollect(c) PROVE TaskInv'
  <2>1. \A d \in Copy : /\ pc'[d] = "new" <=> arrived'[d] = -1
                        /\ pc'[d] = "sleeping" => now' <= Deadline(d)' + Slack
    BY <1>2, CollectEffect DEF TaskInv, Deadline
  <2>2. ASSUME NEW f \in sets' PROVE /\ pc'[f.by] = "done" /\ now' >= Deadline(f.by)'
                                     /\ \A d \in f.copies : arrived'[d] >= 0
    <3>1. CASE f \in sets
      BY <1>0, <1>2, <3>1, CollectEffect DEF TaskInv, Deadline
    <3>2. CASE f \notin sets
      BY <1>2, <2>2, <3>2, CollectEffect DEF CollectInv, Deadline
    <3> QED
      BY <3>1, <3>2
  <2> QED
    BY <2>1, <2>2 DEF TaskInv
<1>3. ASSUME NEW c \in Copy, Crash(c) PROVE TaskInv'
  <2>1. \A f \in sets : f.by # c
    BY <1>3 DEF Crash, TaskInv
  <2> QED
    BY <1>0, <1>3, <2>1 DEF Crash, TaskInv, TypeOK, Deadline
<1>4. CASE Tick
  BY <1>0, <1>4 DEF Tick, TaskInv, Deadline
<1>5. CASE UNCHANGED vars
  BY <1>5 DEF vars, TaskInv, Deadline
<1> QED
  BY <1>1, <1>2, <1>3, <1>4, <1>5 DEF Next

-----------------------------------------------------------------------------
LEMMA CollectInit == Init => CollectInv
  BY TtlType DEF Init, CollectInv

LEMMA CollectNext == TypeOK /\ CollectInv /\ TaskInv /\ [Next]_vars => CollectInv'
<1> SUFFICES ASSUME TypeOK, CollectInv, TaskInv, [Next]_vars PROVE CollectInv'
  OBVIOUS
<1> USE Numbers
<1>1. ASSUME NEW c \in Copy, DeduplicatePut(c) PROVE CollectInv'
  <2>1. /\ collect' = Collected \cup {c} /\ collectEnd' = now + Ttl
        /\ arrived'[c] = now /\ now' = now
        /\ \A d \in Copy \ {c} : arrived'[d] = arrived[d]
    BY <1>1, PutEffect DEF DeduplicatePut
  <2>2. ASSUME NEW d \in Copy, arrived'[d] >= 0
        PROVE  /\ arrived'[d] <= now' /\ arrived'[d] + Ttl <= collectEnd'
               /\ now' < arrived'[d] + Ttl => d \in collect'
    BY <2>1, <2>2 DEF CollectInv, Collected
  <2>3. ASSUME NEW d \in collect'
        PROVE  /\ arrived'[d] >= 0
               /\ \/ arrived'[d] + Ttl = collectEnd'
                  \/ \E e \in collect' : /\ arrived'[e] > arrived'[d]
                                         /\ arrived'[e] < arrived'[d] + Ttl
    <3>1. CASE d = c
      BY <2>1, <3>1
    <3>2. CASE d # c
      <4>1. d \in collect /\ now < collectEnd /\ collect' = collect \cup {c}
        BY <2>1, <2>3, <3>2 DEF Collected
      <4>2. CASE arrived[d] + Ttl = collectEnd
        <5>1. d \in Copy /\ 0 <= arrived[d] /\ arrived[d] <= now /\ now < arrived[d] + Ttl
          BY <4>1, <4>2 DEF CollectInv
        <5>2. CASE arrived[d] = now
          BY <2>1, <3>2, <5>1, <5>2
        <5>3. CASE arrived[d] < now
          BY <2>1, <3>2, <4>1, <5>1, <5>3
        <5> QED
          BY <5>1, <5>2, <5>3
      <4>3. CASE \E e \in collect : arrived[e] > arrived[d] /\ arrived[e] < arrived[d] + Ttl
        <5>1. PICK e \in collect : arrived[e] > arrived[d] /\ arrived[e] < arrived[d] + Ttl
          BY <4>3
        <5>2. {d, e} \subseteq Copy /\ arrived[d] >= 0 /\ arrived[e] >= 0
          BY <4>1 DEF CollectInv
        <5>3. arrived[c] = -1
          BY <1>1, PutEffect
        <5> QED
          BY <2>1, <3>2, <4>1, <5>1, <5>2, <5>3
      <4> QED
        BY <4>1, <4>2, <4>3 DEF CollectInv
    <3> QED
      BY <3>1, <3>2
  <2> QED
    BY <2>2, <2>3 DEF CollectInv
<1>2. ASSUME NEW c \in Copy, DeduplicateCollect(c) PROVE CollectInv'
  BY <1>2 DEF DeduplicateCollect, CollectInv
<1>3. ASSUME NEW c \in Copy, Crash(c) PROVE CollectInv'
  BY <1>3 DEF Crash, CollectInv
<1>4. CASE Tick
  BY <1>4 DEF Tick, CollectInv
<1>5. CASE UNCHANGED vars
  BY <1>5 DEF vars, CollectInv
<1> QED
  BY <1>1, <1>2, <1>3, <1>4, <1>5 DEF Next

-----------------------------------------------------------------------------
LEMMA LockInit == Init => LockInv
  BY DEF Init, LockInv, Held

LEMMA LockNext == TypeOK /\ LockInv /\ TaskInv /\ CollectInv /\ [Next]_vars => LockInv'
<1> SUFFICES ASSUME TypeOK, LockInv, TaskInv, CollectInv, [Next]_vars PROVE LockInv'
  OBVIOUS
<1> USE Numbers
<1>1. ASSUME NEW c \in Copy, DeduplicatePut(c) PROVE LockInv'
  <2>1. /\ arrived'[c] = now /\ UNCHANGED <<now, sets>>
        /\ \A d \in Copy \ {c} : arrived'[d] = arrived[d] /\ pc'[d] = pc[d]
    BY <1>1, PutEffect
  <2>2. \A f \in sets : f.by # c
    BY <1>1, PutEffect DEF Held
  <2>3. lockEnd' = IF now < lockEnd THEN lockEnd ELSE now + Ttl
    BY <1>1 DEF DeduplicatePut, Locked
  <2>4. pc'[c] = "sleeping" => now >= lockEnd
    BY <1>1, PutEffect DEF Locked
  <2>5. \A d \in Copy : Held(d)' => (d = c /\ now >= lockEnd) \/ (d # c /\ Held(d))
    BY <2>1, <2>2, <2>4 DEF Held
  <2>6. \A d \in Copy : Held(d)' => arrived'[d] + Ttl <= lockEnd'
    BY <2>1, <2>5, <2>3 DEF LockInv
  <2>7. ASSUME NEW d \in Copy, NEW e \in Copy, Held(d)', Held(e)', d # e
        PROVE  Apart(d, e)'
    BY <2>1, <2>5, <2>7 DEF LockInv, Apart
  <2> QED
    BY <2>6, <2>7 DEF LockInv
<1>2. ASSUME NEW c \in Copy, DeduplicateCollect(c) PROVE LockInv'
  <2>1. \A d \in Copy : Held(d)' => Held(d)
    BY <1>2, CollectEffect DEF Held
  <2> QED
    BY <1>2, <2>1, CollectEffect DEF LockInv, Apart
<1>3. ASSUME NEW c \in Copy, Crash(c) PROVE LockInv'
  <2>1. \A d \in Copy : Held(d)' => Held(d)
    BY <1>3 DEF Held, Crash, TypeOK
  <2> QED
    BY <1>3, <2>1 DEF Crash, LockInv, Apart
<1>4. CASE Tick
  BY <1>4 DEF Tick, LockInv, Held, Apart
<1>5. CASE UNCHANGED vars
  BY <1>5 DEF vars, LockInv, Held, Apart
<1> QED
  BY <1>1, <1>2, <1>3, <1>4, <1>5 DEF Next

(* The inductive invariant of the lock, the collect set and the tasks.     *)
THEOREM LocksAndSetsAreSound == Spec => []DedupInv
<1>1. Init => DedupInv
  BY LockInit, CollectInit, TaskInit DEF DedupInv
<1>2. TypeOK /\ TypeOK' /\ DedupInv /\ [Next]_vars => DedupInv'
  BY LockNext, CollectNext, TaskNext DEF DedupInv
<1> QED
  BY <1>1, <1>2, TypeCorrect, PTL DEF Spec

(* Copies that arrive within Ttl of each other are never handed on by two  *)
(* tasks.                                                                  *)
THEOREM LocksDoNotOverlap == Spec => []OneSetPerTtl
<1>1. TypeOK /\ DedupInv => OneSetPerTtl
  BY Numbers DEF DedupInv, LockInv, Held, Apart, OneSetPerTtl
<1> QED
  BY <1>1, TypeCorrect, LocksAndSetsAreSound, PTL

(* A set that is not recent would be stale when collected: between a copy  *)
(* and the collection no gap of Ttl lies, however late the task wakes up.  *)
THEOREM SetsAreRecent == Spec => []SetIsRecent
<1>1. Init => SetIsRecent
  BY DEF Init, SetIsRecent
<1>2. ASSUME TypeOK, DedupInv, SetIsRecent, [Next]_vars PROVE SetIsRecent'
  <2> USE Numbers
  <2>1. ASSUME NEW c \in Copy, DeduplicatePut(c) PROVE SetIsRecent'
    <3>1. \A f \in sets : f.by # c /\ c \notin f.copies
      BY <1>2, <2>1, PutEffect DEF DedupInv, TaskInv
    <3> QED
      BY <1>2, <2>1, <3>1, PutEffect DEF DedupInv, SetIsRecent
  <2>2. ASSUME NEW c \in Copy, DeduplicateCollect(c) PROVE SetIsRecent'
    <3>1. arrived[c] >= 0 /\ arrived[c] + Ttl <= collectEnd
      BY <1>2, <2>2, CollectEffect DEF DedupInv, TaskInv, CollectInv
    <3>2. \A d \in collect :
            \/ arrived[d] >= arrived[c]
            \/ \E e \in collect : arrived[e] > arrived[d] /\ arrived[e] < arrived[d] + Ttl
      BY <1>2, <3>1 DEF DedupInv, CollectInv
    <3> QED
      BY <1>2, <2>2, <3>2, CollectEffect DEF SetIsRecent
  <2>3. ASSUME NEW c \in Copy, Crash(c) PROVE SetIsRecent'
    BY <1>2, <2>3 DEF Crash, SetIsRecent
  <2>4. CASE Tick
    BY <1>2, <2>4 DEF Tick, SetIsRecent
  <2>5. CASE UNCHANGED vars
    BY <1>2, <2>5 DEF vars, SetIsRecent
  <2> QED
    BY <1>2, <2>1, <2>2, <2>3, <2>4, <2>5 DEF Next
<1> QED
  BY <1>1, <1>2, TypeCorrect, LocksAndSetsAreSound, PTL DEF Spec

-----------------------------------------------------------------------------
(* A task that wakes up before its copy expired finds it.                  *)
LEMMA AwakeInTime ==
  ASSUME TypeOK, DedupInv, Slack < Ttl - Delay, NEW c \in Copy, pc[c] = "sleeping"
  PROVE  arrived[c] >= 0 /\ now < arrived[c] + Ttl /\ now < collectEnd /\ c \in collect
  BY Numbers DEF DedupInv, TaskInv, CollectInv, Deadline

(* NothingExpires says so for a timely wake-up; there is no such promise   *)
(* for a later one.                                                        *)
THEOREM TimelyTasksSucceed == Spec => []NothingExpires
<1>1. Init => NothingExpires
  BY DEF Init, NothingExpires
<1>2. ASSUME TypeOK, DedupInv, NothingExpires, [Next]_vars PROVE NothingExpires'
  <2> SUFFICES ASSUME Slack < Ttl - Delay PROVE \A c \in Copy : pc'[c] # "failed"
    BY DEF NothingExpires
  <2>0. \A c \in Copy : pc[c] # "failed"
    BY <1>2 DEF NothingExpires
  <2>1. ASSUME NEW c \in Copy, DeduplicatePut(c) PROVE \A d \in Copy : pc'[d] # "failed"
    BY <1>2, <2>0, <2>1, PutEffect DEF DedupInv
  <2>2. ASSUME NEW c \in Copy, DeduplicateCollect(c) PROVE \A d \in Copy : pc'[d] # "failed"
    <3>1. Collected # {}
      BY <1>2, <2>2, AwakeInTime, CollectEffect DEF Collected
    <3> QED
      BY <1>2, <2>0, <2>2, <3>1, CollectEffect
  <2>3. ASSUME NEW c \in Copy, Crash(c) PROVE \A d \in Copy : pc'[d] # "failed"
    BY <1>2, <2>0, <2>3 DEF Crash, TypeOK
  <2>4. CASE Tick
    BY <2>0, <2>4 DEF Tick
  <2>5. CASE UNCHANGED vars
    BY <2>0, <2>5 DEF vars
  <2> QED
    BY <1>2, <2>1, <2>2, <2>3, <2>4, <2>5 DEF Next
<1> QED
  BY <1>1, <1>2, TypeCorrect, LocksAndSetsAreSound, PTL DEF Spec

(* With timely wake-ups a set holds every copy that came during the sleep  *)
(* of its task.                                                            *)
THEOREM SetsAreComplete ==
  ASSUME Slack < Ttl - Delay
  PROVE  Spec => []SetIsComplete
<1>1. Init => SetIsComplete
  BY DEF Init, SetIsComplete
<1>2. ASSUME TypeOK, DedupInv, SetIsComplete, [Next]_vars PROVE SetIsComplete'
  <2> USE Numbers
  <2>1. ASSUME NEW c \in Copy, DeduplicatePut(c) PROVE SetIsComplete'
    <3>1. \A f \in sets : f.by # c /\ now >= Deadline(f.by)
      BY <1>2, <2>1, PutEffect DEF DedupInv, TaskInv
    <3> QED
      BY <1>2, <2>1, <3>1, PutEffect DEF DedupInv, SetIsComplete, Deadline
  <2>2. ASSUME NEW c \in Copy, DeduplicateCollect(c) PROVE SetIsComplete'
    <3>1. \A d \in Copy : arrived[d] >= arrived[c] => d \in collect
      BY <1>2, <2>2, AwakeInTime, CollectEffect DEF DedupInv, CollectInv
    <3> QED
      BY <1>2, <2>2, <3>1, CollectEffect DEF SetIsComplete, Deadline
  <2>3. ASSUME NEW c \in Copy, Crash(c) PROVE SetIsComplete'
    BY <1>2, <2>3 DEF Crash, SetIsComplete, Deadline
  <2>4. CASE Tick
    BY <1>2, <2>4 DEF Tick, SetIsComplete, Deadline
  <2>5. CASE UNCHANGED vars
    BY <1>2, <2>5 DEF vars, SetIsComplete, Deadline
  <2> QED
    BY <1>2, <2>1, <2>2, <2>3, <2>4, <2>5 DEF Next
<1> QED
  BY <1>1, <1>2, TypeCorrect, LocksAndSetsAreSound, PTL DEF Spec
=============================================================================
