---------------------------------- MODULE Dedup ----------------------------------
(***************************************************************************)
(* De-duplication of the copies of one uplink that several gateways        *)
(* received (uplink::_deduplicate_uplink), in one region configuration.    *)
(*                                                                         *)
(* Every copy starts a task.  In one Redis transaction a task adds its     *)
(* copy to the collect set, renews the expiry of that set and tries to get *)
(* the lock.  The winner sleeps for Delay and hands the content of the set *)
(* on as one frame-set; the others end.  Both keys are left to expire: the *)
(* lock Ttl after it was won, the set Ttl after the last copy.             *)
(***************************************************************************)
EXTENDS Integers, FiniteSets

CONSTANTS
  Copy,      \* copies of the uplink, one per receiving gateway
  Delay,     \* network.deduplication_delay
  MinTtl,    \* 200 ms
  Slack,     \* how late a task may wake up from its sleep
  LastCopy,  \* bound: the time of the last copy
  Crashes    \* may the server stop while a task sleeps?

ASSUME DedupAssumption ==
  /\ Delay \in Nat \ {0} /\ MinTtl \in Nat \ {0} /\ Slack \in Nat /\ LastCopy \in Nat
  /\ Crashes \in BOOLEAN

Ttl == IF 2 * Delay < MinTtl THEN MinTtl ELSE 2 * Delay
(* Long enough for the task of the last copy to wake up.                   *)
MaxTime == LastCopy + Delay + Slack

VARIABLES
  now,        \* time
  collect,    \* the Redis set of copies ...
  collectEnd, \* ... and when it expires
  lockEnd,    \* when the lock expires (0: not set)
  pc,         \* per copy: where its task is
  arrived,    \* history: when the copy was put, or -1
  sets        \* history: the frame-sets handed to handle_uplink

vars == <<now, collect, collectEnd, lockEnd, pc, arrived, sets>>

TypeOK ==
  /\ now \in 0 .. MaxTime
  /\ collect \subseteq Copy
  /\ collectEnd \in 0 .. MaxTime + Ttl /\ lockEnd \in 0 .. MaxTime + Ttl
  /\ pc \in [Copy -> {"new", "sleeping", "done", "failed", "crashed"}]
  /\ arrived \in [Copy -> -1 .. MaxTime]
  /\ sets \subseteq [by : Copy, copies : SUBSET Copy]

Init ==
  /\ now = 0
  /\ collect = {} /\ collectEnd = 0
  /\ lockEnd = 0
  /\ pc = [c \in Copy |-> "new"]
  /\ arrived = [c \in Copy |-> -1]
  /\ sets = {}

(* What the collect set holds, given that it expires.                      *)
Collected == IF now < collectEnd THEN collect ELSE {}
Locked == now < lockEnd
Deadline(c) == arrived[c] + Delay

-----------------------------------------------------------------------------
(* Faulty variants, no part of the specification: the lock is renewed by   *)
(* every copy, or held for the delay only; the set lives for the delay, or *)
(* for twice its time.                                                     *)
FaultyPut(c, wins, lock, end) ==
  /\ pc[c] = "new" /\ now <= LastCopy
  /\ collect' = Collected \cup {c}
  /\ collectEnd' = end
  /\ lockEnd' = lock
  /\ pc' = [pc EXCEPT ![c] = IF wins THEN "sleeping" ELSE "done"]
  /\ arrived' = [arrived EXCEPT ![c] = now]
  /\ UNCHANGED <<now, sets>>
PutRenewsLock(c) == FaultyPut(c, ~Locked, now + Ttl, now + Ttl)
PutLocksForDelay(c) ==
  FaultyPut(c, ~Locked, IF Locked THEN lockEnd ELSE now + Delay, now + Ttl)
PutExpiresWithDelay(c) ==
  FaultyPut(c, ~Locked, IF Locked THEN lockEnd ELSE now + Ttl, now + Delay)

PutDoublesTtl(c) ==
  FaultyPut(c, ~Locked, IF Locked THEN lockEnd ELSE now + Ttl, now + 2 * Ttl)

-----------------------------------------------------------------------------
(* deduplicate_put: SADD, PEXPIRE, SET NX PX in a transaction.             *)
DeduplicatePut(c) ==
  /\ pc[c] = "new" /\ now <= LastCopy
  /\ collect' = Collected \cup {c}
  /\ collectEnd' = now + Ttl
  /\ lockEnd' = IF Locked THEN lockEnd ELSE now + Ttl
  /\ pc' = [pc EXCEPT ![c] = IF Locked THEN "done" ELSE "sleeping"]
  /\ arrived' = [arrived EXCEPT ![c] = now]
  /\ UNCHANGED <<now, sets>>

(* deduplicate_collect after the sleep, and handle_uplink; an empty set is *)
(* an error.                                                               *)
DeduplicateCollect(c) ==
  /\ pc[c] = "sleeping"
  /\ now >= Deadline(c)
  /\ IF Collected = {}
     THEN /\ pc' = [pc EXCEPT ![c] = "failed"]
          /\ UNCHANGED sets
     ELSE /\ pc' = [pc EXCEPT ![c] = "done"]
          /\ sets' = sets \cup {[by |-> c, copies |-> Collected]}
  /\ UNCHANGED <<now, collect, collectEnd, lockEnd, arrived>>

(* The server stops.  Its locks stay in Redis.                             *)
Crash(c) ==
  /\ Crashes
  /\ pc[c] = "sleeping"
  /\ pc' = [pc EXCEPT ![c] = "crashed"]
  /\ UNCHANGED <<now, collect, collectEnd, lockEnd, arrived, sets>>

Tick ==
  /\ now < MaxTime
  /\ \A c \in Copy : pc[c] = "sleeping" => now < Deadline(c) + Slack
  /\ now' = now + 1
  /\ UNCHANGED <<collect, collectEnd, lockEnd, pc, arrived, sets>>

Next ==
  \/ \E c \in Copy : DeduplicatePut(c) \/ DeduplicateCollect(c) \/ Crash(c)
  \/ Tick

Spec == Init /\ [][Next]_vars

(* tokio wakes up a task whose sleep is over.                              *)
FairSpec == Spec /\ \A c \in Copy : WF_vars(DeduplicateCollect(c))
                 /\ WF_vars(Tick)

-----------------------------------------------------------------------------
(* Copies that arrive within Ttl of each other are never handed on by two  *)
(* tasks, whatever crashes.                                                *)
OneSetPerTtl ==
  \A f, g \in sets : f.by # g.by =>
    \/ arrived[f.by] >= arrived[g.by] + Ttl
    \/ arrived[g.by] >= arrived[f.by] + Ttl

(* A frame-set holds every copy that arrived during the sleep of its task, *)
(* and no copy from before the uplink's previous copies had expired:       *)
(* between a copy and the collection no gap of Ttl lies.                   *)
SetIsComplete ==
  \A f \in sets, c \in Copy :
    arrived[c] >= arrived[f.by] /\ arrived[c] < Deadline(f.by) => c \in f.copies
SetIsRecent ==
  \A f \in sets : \A c \in f.copies :
    arrived[c] >= arrived[f.by] \/
      \E d \in f.copies : arrived[d] > arrived[c] /\ arrived[d] < arrived[c] + Ttl

(* Why: a task with the lock came after the lock of the one before it had  *)
(* ended; the set holds every copy of the last Ttl, and each of its copies *)
(* is the latest or has a later one within Ttl; sets are of the past.      *)
Held(c) == pc[c] = "sleeping" \/ \E f \in sets : f.by = c
Apart(c, d) == arrived[c] >= arrived[d] + Ttl \/ arrived[d] >= arrived[c] + Ttl
LockInv ==
  /\ \A c \in Copy : Held(c) => arrived[c] + Ttl <= lockEnd
  /\ \A c, d \in Copy : Held(c) /\ Held(d) /\ c # d => Apart(c, d)
CollectInv ==
  /\ \A c \in Copy : arrived[c] >= 0 =>
       /\ arrived[c] <= now /\ arrived[c] + Ttl <= collectEnd
       /\ now < arrived[c] + Ttl => c \in collect
  /\ \A c \in collect :
       /\ arrived[c] >= 0
       /\ \/ arrived[c] + Ttl = collectEnd
          \/ \E d \in collect : arrived[d] > arrived[c] /\ arrived[d] < arrived[c] + Ttl
TaskInv ==
  /\ \A c \in Copy : /\ pc[c] = "new" <=> arrived[c] = -1
                     /\ pc[c] = "sleeping" => now <= Deadline(c) + Slack
  /\ \A f \in sets : /\ pc[f.by] = "done" /\ now >= Deadline(f.by)
                     /\ \A c \in f.copies : arrived[c] >= 0
DedupInv == LockInv /\ CollectInv /\ TaskInv

(* A task that wakes up in time does not find its own copy expired.        *)
NothingExpires == Slack < Ttl - Delay => \A c \in Copy : pc[c] # "failed"

(* A copy that is not handed on came between the collection and the end of *)
(* the lock of an earlier copy, or the task of that copy crashed.          *)
Winner(c, w) == pc[w] \in {"done", "crashed"} /\ arrived[w] <= arrived[c]
                /\ arrived[c] < arrived[w] + Ttl
HandedOn(c) == \E f \in sets : c \in f.copies
CopyAccountedFor ==
  \A c \in Copy :
    arrived[c] >= 0 ~>
      \/ HandedOn(c)
      \/ \E w \in Copy : /\ Winner(c, w)
                         /\ \/ pc[w] = "crashed"
                            \/ \E f \in sets : f.by = w /\ arrived[c] >= Deadline(w)
=============================================================================
