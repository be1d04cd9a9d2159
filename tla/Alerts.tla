--------------------------------- MODULE Alerts ---------------------------------
(***************************************************************************)
(* Inactivity alerts about one gateway or device (alert::reaper_loop).     *)
(*                                                                         *)
(* Every server runs a loop that reads, in one query, the stored alert     *)
(* state of all entities and whether they are inactive now, then works     *)
(* through that list: tenant lookup, e-mail, alert_event, new alert state. *)
(* The e-mails of the entities before it may take minutes, meanwhile the   *)
(* entity is heard or not and users toggle alert_enabled.  Entities do not *)
(* interact but by this delay.  Whether an e-mail is delivered changes     *)
(* nothing but a column of the alert_event.                                *)
(***************************************************************************)
EXTENDS Integers

CONSTANTS
  Replica,    \* the servers
  Failures    \* may a database call fail, or a server stop?

ASSUME AlertsAssumption == Failures \in BOOLEAN

VARIABLES
  running,    \* the servers of this deployment; it never changes
  activity,   \* what the query sees of the entity now; "unmonitored" when it
              \* was never seen or its device-profile has no uplink interval
  enabled,    \* alert_enabled of the row
  state,      \* alert_state of the row
  pc, scan,   \* per server: its next step for the entity, and its candidate
  told,       \* history: the state last reported, or recorded silently, since
              \* alerts were last enabled
  spoiled     \* history: told and state may differ, because the state could not
              \* be stored after an event, or alerts were enabled during a scan

vars == <<running, activity, enabled, state, pc, scan, told, spoiled>>

State == {"unknown", "active", "inactive"}
Known == State \ {"unknown"}
Candidate == [previous : State, new : Known]
NoCandidate == [previous |-> "unknown", new |-> "active"]

(* An alert is about an entity that changed from one known state to the    *)
(* other.                                                                  *)
Alerting(r) == pc[r] \in {"tenant", "mail", "insert", "advance"}

TypeOK ==
  /\ running \subseteq Replica
  /\ activity \in Known \union {"unmonitored"}
  /\ enabled \in BOOLEAN
  /\ state \in State
  /\ pc \in [Replica -> {"idle", "record", "tenant", "mail", "insert", "advance"}]
  /\ scan \in [Replica -> Candidate]
  /\ \A r \in Replica :
       /\ Alerting(r) => scan[r].previous \in Known \ {scan[r].new}
       /\ pc[r] = "record" => scan[r].previous = "unknown"
  /\ told \in State
  /\ spoiled \in BOOLEAN

Init ==
  /\ running \in SUBSET Replica \ {{}}
  /\ activity = "unmonitored"
  /\ enabled \in BOOLEAN
  /\ state = "unknown"
  /\ pc = [r \in Replica |-> "idle"]
  /\ scan = [r \in Replica |-> NoCandidate]
  /\ told = "unknown"
  /\ spoiled = FALSE

Goto(r, step) == pc' = [pc EXCEPT ![r] = step]
Finish(r) == Goto(r, "idle") /\ scan' = [scan EXCEPT ![r] = NoCandidate]

-----------------------------------------------------------------------------
(* Faulty variants, no part of the specification: an unknown state is left *)
(* unknown; the state advances although the event was not stored.          *)
ScanSkipsUnknown(r) ==
  /\ r \in running /\ pc[r] = "idle"
  /\ enabled /\ activity # "unmonitored"
  /\ state \notin {activity, "unknown"}
  /\ scan' = [scan EXCEPT ![r] = [previous |-> state, new |-> activity]]
  /\ Goto(r, "tenant")
  /\ UNCHANGED <<running, activity, enabled, state, told, spoiled>>

InsertIgnoresError(r) ==
  /\ pc[r] = "insert"
  /\ Goto(r, "advance")
  /\ \/ told' = scan[r].new
     \/ Failures /\ told' = told
  /\ UNCHANGED <<running, activity, enabled, state, scan, spoiled>>

-----------------------------------------------------------------------------
(* last_seen_at is set, the interval of the entity passes or is edited.    *)
Activity(a) ==
  /\ activity' = a
  /\ UNCHANGED <<running, enabled, state, pc, scan, told, spoiled>>

(* set_alert_enabled; going from disabled to enabled starts over.          *)
SetAlertEnabled(b) ==
  /\ enabled' = b
  /\ IF ~enabled /\ b
     THEN /\ state' = "unknown"
          /\ told' = "unknown"
          /\ spoiled' = \E r \in Replica : pc[r] # "idle"
     ELSE UNCHANGED <<state, told, spoiled>>
  /\ UNCHANGED <<running, activity, pc, scan>>

(* get_alert_candidates and evaluate: the first observation is recorded, a *)
(* change is alerted, anything else is no transition.                      *)
Scan(r) ==
  /\ r \in running /\ pc[r] = "idle"
  /\ enabled /\ activity # "unmonitored"
  /\ state # activity
  /\ scan' = [scan EXCEPT ![r] = [previous |-> state, new |-> activity]]
  /\ Goto(r, IF state = "unknown" THEN "record" ELSE "tenant")
  /\ UNCHANGED <<running, activity, enabled, state, told, spoiled>>

(* tenant::get; without the tenant the transition is left to the next scan.*)
GetTenant(r) ==
  /\ pc[r] = "tenant"
  /\ \/ Goto(r, "mail") /\ UNCHANGED scan
     \/ Failures /\ Finish(r)
  /\ UNCHANGED <<running, activity, enabled, state, told, spoiled>>

SendTransitionEmail(r) ==
  /\ pc[r] = "mail"
  /\ Goto(r, "insert")
  /\ UNCHANGED <<running, activity, enabled, state, scan, told, spoiled>>

(* alert_event::insert; without the event the state is not advanced.       *)
InsertEvent(r) ==
  /\ pc[r] = "insert"
  /\ \/ Goto(r, "advance") /\ told' = scan[r].new /\ UNCHANGED scan
     \/ Failures /\ Finish(r) /\ UNCHANGED told
  /\ UNCHANGED <<running, activity, enabled, state, spoiled>>

(* set_alert_state: silently, or after an alert.  The row is written       *)
(* whatever it holds now.                                                  *)
SetAlertState(r) ==
  /\ pc[r] \in {"record", "advance"}
  /\ \/ /\ state' = scan[r].new
        /\ told' = IF pc[r] = "record" THEN scan[r].new ELSE told
        /\ spoiled' = (spoiled /\ told' # scan[r].new)
     \/ /\ Failures
        /\ spoiled' = (spoiled \/ pc[r] = "advance")
        /\ UNCHANGED <<state, told>>
  /\ Finish(r)
  /\ UNCHANGED <<running, activity, enabled>>

(* The server stops during the scan.                                       *)
Stop(r) ==
  /\ Failures
  /\ pc[r] # "idle"
  /\ spoiled' = (spoiled \/ pc[r] = "advance")
  /\ Finish(r)
  /\ UNCHANGED <<running, activity, enabled, state, told>>

Next ==
  \/ \E a \in Known \union {"unmonitored"} : Activity(a)
  \/ \E b \in BOOLEAN : SetAlertEnabled(b)
  \/ \E r \in Replica : \/ Scan(r) \/ GetTenant(r) \/ SendTransitionEmail(r)
                        \/ InsertEvent(r) \/ SetAlertState(r) \/ Stop(r)

Spec == Init /\ [][Next]_vars

(* The loop scans again and again, and a call does not fail for ever.      *)
FairSpec ==
  /\ Spec
  /\ \A r \in Replica :
       /\ WF_vars(Scan(r))
       /\ SF_vars(GetTenant(r) /\ pc'[r] = "mail")
       /\ SF_vars(SendTransitionEmail(r))
       /\ SF_vars(InsertEvent(r) /\ pc'[r] = "advance")
       /\ SF_vars(SetAlertState(r) /\ state' = scan[r].new)

-----------------------------------------------------------------------------
SingleInstance == \A q, r \in running : q = r

(* With one server, between scans, the user knows the stored state: every  *)
(* change was reported or recorded silently, since alerts were enabled.    *)
ToldAgrees ==
  SingleInstance /\ ~spoiled /\ (\A r \in Replica : pc[r] = "idle") => told = state

(* Why: a server at work was started from what the user knew, which stays  *)
(* the stored state until the event is stored, and again after the new     *)
(* state is.  Two servers would each have such a starting point.           *)
OnlyRunningScan == \A r \in Replica : pc[r] # "idle" => r \in running
StoredIsTold == (\A r \in Replica : pc[r] # "advance") => told = state
StartedFromTold ==
  \A r \in Replica : /\ pc[r] \in {"record", "tenant", "mail", "insert"}
                         => told = scan[r].previous
                     /\ pc[r] = "advance" => told = scan[r].new
ScanInv ==
  /\ OnlyRunningScan
  /\ SingleInstance /\ ~spoiled => StoredIsTold /\ StartedFromTold

(* With one server the alert events of an entity form a chain: the         *)
(* previous state of an event is what the last one, or the silent record,  *)
(* left behind.  No transition is reported twice and none without a        *)
(* baseline, whatever the delay between query and event.                   *)
EventsChain ==
  [][\A r \in Replica : pc[r] = "insert" /\ pc'[r] = "advance" /\ SingleInstance
       => told = scan[r].previous \/ spoiled]_vars

(* However many servers scan, and however often calls fail, the stored     *)
(* state becomes that of an entity that stays as it is.                    *)
StateSettles ==
  \A a \in Known : <>[](enabled /\ activity = a) => <>[](state = a)
=============================================================================
