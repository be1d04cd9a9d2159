---------------------------------- MODULE Fuota ----------------------------------
(***************************************************************************)
(* A FUOTA deployment: the scheduler loops of the servers run its jobs one *)
(* after the other, each job works through the devices, stores itself and  *)
(* creates the next one; devices answer the requests of a job when they    *)
(* like, and every answer is stored in the row of the device.              *)
(*                                                                         *)
(* Of time only the order is kept: a retry is due at any moment, the lock  *)
(* of a selected job expires when its flow has ended, or once (Slow) while *)
(* the flow still runs.                                                    *)
(***************************************************************************)
EXTENDS Integers, FiniteSetsExt, Functions

CONSTANTS
  Device,      \* devices
  NFlows,      \* flows (Flow::handle_job) that run at the same time
  NFragments,  \* number of fragments
  Scenarios    \* the deployments to look at: their devices, the settings
               \* unicast_max_retry_count (retries) and
               \* request_fragmentation_session_status (request), and as a bound
               \* what goes wrong, once (trouble): "none", "fault": a call fails
               \* or a server stops, "slow": a flow takes longer than the lock of
               \* its job, "stale": an answer to an earlier deployment arrives

Request == {"NoRequest", "AfterFragEnqueue", "AfterSessTimeout"}
Trouble == {"none", "fault", "slow", "stale"}

ASSUME FuotaAssumption ==
  /\ NFlows \in Nat /\ NFragments \in Nat
  /\ Scenarios \subseteq [devices : (SUBSET Device) \ {{}}, retries : Nat, request : Request, trouble : Trouble]

VARIABLES
  config,      \* the scenario; it never changes
  started, completed,  \* started_at and completed_at of the deployment
  session,     \* multicast_session_start/end: "unset", then ahead, running, over
  jobs,        \* the job rows by name
  group,       \* how far the multicast-group is set up: 0 none .. 3 with gateways
  queue,       \* fragments in the queue of the multicast-group
  row,         \* fuota_deployment_device per device
  requests,    \* requests in the device-queue of each device
  answer,      \* per device: an answer being handled, with the row it loaded
  reached,     \* environment: what each device has set up
  got,         \* environment: the fragments each device has received
  flow,        \* the flows
  faults,      \* has the fault of the bound happened?
  copies,      \* history: how often each fragment was enqueued
  slow,        \* history: a flow took longer than the lock
  stopped,     \* history: a server stopped during a flow
  lost,        \* history: an answer overwrote a row changed since it loaded it
  stale        \* history: an answer to an earlier deployment arrived

deploymentVars == <<config, started, completed, session>>
deviceVars == <<row, requests, answer, reached, got>>
historyVars == <<copies, slow, stopped, lost, stale>>
vars == <<deploymentVars, jobs, group, queue, deviceVars, flow, faults, historyVars>>

GroupJobs == {"CreateMcGroup", "AddDevsToMcGroup", "AddGwsToMcGroup"}
UnicastJobs == {"McGroupSetup", "FragSessionSetup", "McSession"}
Jobs == GroupJobs \union UnicastJobs
          \union {"Enqueue", "FragStatus", "DeleteMcGroup", "Complete"}
Steps == {"McGroupSetup", "FragSessionSetup", "McSession", "FragStatus"}
Due == {"any", "start", "end", "locked"}
Fragment == 1 .. NFragments
Flow == 1 .. NFlows

Row == [done : SUBSET Steps, error : BOOLEAN, completed : BOOLEAN]
JobRow == [open : BOOLEAN, attempts : Nat, due : Due]
IdleFlow == [pc |-> "idle", job |-> "CreateMcGroup", attempts |-> 0, todo |-> {},
             next |-> "none", due |-> "any", unset |-> FALSE]
NoAnswer == [step |-> "none", ok |-> FALSE, row |-> [done |-> {}, error |-> FALSE, completed |-> FALSE]]

TypeOK ==
  /\ config \in Scenarios
  /\ started \in BOOLEAN /\ completed \in BOOLEAN
  /\ session \in {"unset", "ahead", "running", "over"}
  /\ DOMAIN jobs \subseteq Jobs /\ jobs \in [DOMAIN jobs -> JobRow]
  /\ group \in 0 .. 3 /\ queue \subseteq Fragment
  /\ row \in [Device -> Row]
  /\ requests \in [Device -> SUBSET Steps]
  /\ answer \in [Device -> [step : Steps \union {"none"}, ok : BOOLEAN, row : Row]]
  /\ reached \in [Device -> SUBSET Steps] /\ got \in [Device -> SUBSET Fragment]
  /\ flow \in [Flow -> [pc : {"idle", "body", "devices", "fragments", "close", "update", "create"},
                        job : Jobs, attempts : Nat, todo : SUBSET (Device \union Fragment),
                        next : Jobs \union {"none", "error"}, due : Due, unset : BOOLEAN]]
  /\ faults \in BOOLEAN
  /\ copies \in [Fragment -> Nat]
  /\ {slow, stopped, lost, stale} \subseteq BOOLEAN

Init ==
  /\ config \in Scenarios
  /\ started = FALSE /\ completed = FALSE /\ session = "unset"
  /\ jobs = <<>> /\ group = 0 /\ queue = {}
  /\ row = [d \in Device |-> [done |-> {}, error |-> FALSE, completed |-> FALSE]]
  /\ requests = [d \in Device |-> {}]
  /\ answer = [d \in Device |-> NoAnswer]
  /\ reached = [d \in Device |-> {}] /\ got = [d \in Device |-> {}]
  /\ flow = [w \in Flow |-> IdleFlow]
  /\ faults = FALSE
  /\ copies = [n \in Fragment |-> 0]
  /\ slow = FALSE /\ stopped = FALSE /\ lost = FALSE /\ stale = FALSE

NewJob(due) == [open |-> TRUE, attempts |-> 0, due |-> due]
Open == {j \in DOMAIN jobs : jobs[j].open}
Fault == config.trouble = "fault" /\ ~faults /\ faults' = TRUE
Done(step) == {d \in config.devices : step \in row[d].done}

-------------------------------------------------------------------------------
(* start_deployment stores started_at before it creates the first job.     *)
Start ==
  /\ ~started
  /\ started' = TRUE
  /\ \/ jobs' = [j \in {"CreateMcGroup"} |-> NewJob("any")] /\ UNCHANGED faults
     \/ Fault /\ UNCHANGED jobs
  /\ UNCHANGED <<config, completed, session, group, queue, deviceVars, flow, historyVars>>

-------------------------------------------------------------------------------
(* The flow of a job.                                                      *)

Idle(w) == flow[w].pc = "idle"
RunsOn(j) == {w \in Flow : ~Idle(w) /\ flow[w].job = j}

IsDue(j) ==
  CASE jobs[j].due = "any"    -> TRUE
    [] jobs[j].due = "start"  -> session \in {"running", "over"}
    [] jobs[j].due = "end"    -> session = "over"
    [] jobs[j].due = "locked" -> RunsOn(j) = {} \/ (config.trouble = "slow" /\ ~slow)

(* get_schedulable_jobs, and handle_job loads the deployment; any idle     *)
(* flow would do, the first one takes the job.                             *)
Select(w, j) ==
  /\ Idle(w) /\ \A v \in Flow : v < w => ~Idle(v)
  /\ j \in Open /\ IsDue(j)
  /\ jobs' = [jobs EXCEPT ![j].due = "locked"]
  /\ flow' = [flow EXCEPT ![w] = [IdleFlow EXCEPT !.pc = "body", !.job = j,
                !.attempts = jobs[j].attempts, !.due = "locked", !.unset = session = "unset"]]
  /\ slow' = (slow \/ RunsOn(j) # {})
  /\ UNCHANGED <<deploymentVars, group, queue, deviceVars, faults, copies, stopped, lost, stale>>

MaxRetryCount(j) == IF j \in UnicastJobs THEN config.retries ELSE 0
InBody(w, j) == flow[w].pc = "body" /\ flow[w].job = j
Exhausted(w) == flow[w].attempts > MaxRetryCount(flow[w].job)
AttemptsKept(w) == flow[w].attempts
Attempts(w) == IF Exhausted(w) THEN flow[w].attempts ELSE flow[w].attempts + 1

(* The body ends with the next job, or none, or an error.                  *)
EndBody(w, next, due) ==
  flow' = [flow EXCEPT ![w] = [@ EXCEPT !.pc = "update", !.attempts = Attempts(w),
                                        !.next = next, !.due = due]]
GoOver(w, pc, todo) ==
  flow' = [flow EXCEPT ![w] = [@ EXCEPT !.pc = pc, !.attempts = Attempts(w), !.todo = todo]]

(* create_mc_group, add_devices_to_multicast_group, add_gateways_to_       *)
(* multicast_group: what exists already is not created twice.              *)
GroupStep(j) == CASE j = "CreateMcGroup" -> 1 [] j = "AddDevsToMcGroup" -> 2 [] OTHER -> 3
AfterGroupStep(j) ==
  CASE j = "CreateMcGroup" -> "AddDevsToMcGroup"
    [] j = "AddDevsToMcGroup" -> "AddGwsToMcGroup"
    [] OTHER -> "McGroupSetup"

SetupGroup(w) ==
  /\ \E j \in GroupJobs :
       /\ InBody(w, j)
       /\ IF Exhausted(w) THEN EndBody(w, "none", "any") /\ UNCHANGED group
          ELSE IF group = GroupStep(j) - 1
            THEN EndBody(w, AfterGroupStep(j), "any") /\ group' = group + 1
            ELSE EndBody(w, "error", "any") /\ UNCHANGED group
  /\ UNCHANGED <<deploymentVars, jobs, queue, deviceVars, faults, historyVars>>

(* As if the flags of set_device_timeout_error were always those of the    *)
(* first step.                                                             *)
TimedOutFirst(step) ==
  [d \in Device |-> IF d \notin config.devices \/ "McGroupSetup" \in row[d].done
                      THEN row[d] ELSE [row[d] EXCEPT !.error = TRUE]]

(* set_device_timeout_error                                                *)
TimedOut(step) ==
  [d \in Device |-> IF d \notin config.devices \/ step \in row[d].done THEN row[d] ELSE [row[d] EXCEPT !.error = TRUE]]

(* Which devices a step asks: those that are done with the one before.     *)
Before(step) ==
  CASE step = "McGroupSetup"     -> config.devices
    [] step = "FragSessionSetup" -> Done("McGroupSetup")
    [] step = "McSession"        -> Done("FragSessionSetup")
    [] step = "FragStatus"       -> Done("McSession")

AfterStep(step) ==
  CASE step = "McGroupSetup"     -> "FragSessionSetup"
    [] step = "FragSessionSetup" -> "McSession"
    [] step = "McSession"        -> "Enqueue"
    [] step = "FragStatus"       -> "DeleteMcGroup"

(* When the job after a step is due; without a session, at once.           *)
DueAfter(step, exhausted, unset) ==
  CASE unset -> "any"
    [] ~unset /\ step = "McSession" -> "start"
    [] ~unset /\ step = "FragStatus" -> IF exhausted THEN "any" ELSE "end"
    [] OTHER -> "any"

(* multicast_group_setup, fragmentation_session_setup, multicast_session_  *)
(* setup and fragmentation_status: one request per device that has not     *)
(* answered yet, then the same job again; the next one when all answered,  *)
(* or with an error for the others after the last attempt.                 *)
Unicast(w) ==
  /\ \E step \in Steps :
       LET asked == Before(step) \ Done(step)
           unset == flow[w].unset /\ (Exhausted(w) \/ step # "McSession")
       IN /\ InBody(w, step)
          /\ IF Exhausted(w)
               THEN /\ row' = TimedOut(step)
                    /\ EndBody(w, AfterStep(step), DueAfter(step, TRUE, unset))
                    /\ UNCHANGED session
             ELSE IF Before(step) = {}
               THEN EndBody(w, "DeleteMcGroup", "any") /\ UNCHANGED <<row, session>>
             ELSE /\ session' = IF step = "McSession" /\ flow[w].unset THEN "ahead" ELSE session
                  /\ IF asked = {} THEN EndBody(w, AfterStep(step), DueAfter(step, FALSE, unset))
                                   ELSE GoOver(w, "devices", asked)
                  /\ UNCHANGED row
  /\ UNCHANGED <<config, started, completed, jobs, group, queue, requests, answer, reached, got,
                 faults, historyVars>>

AskDevice(w, d) ==
  /\ flow[w].pc = "devices" /\ d \in flow[w].todo
  /\ requests' = [requests EXCEPT ![d] = @ \union {flow[w].job}]
  /\ flow' = [flow EXCEPT ![w] =
       IF @.todo = {d} THEN [@ EXCEPT !.todo = {}, !.pc = "update", !.next = flow[w].job, !.due = "any"]
       ELSE [@ EXCEPT !.todo = flow[w].todo \ {d}]]
  /\ UNCHANGED <<deploymentVars, jobs, group, queue, row, answer, reached, got, faults, historyVars>>

AfterFragments(unset) ==
  CASE config.request = "NoRequest"        -> [next |-> "DeleteMcGroup", due |-> IF unset THEN "any" ELSE "end"]
    [] config.request = "AfterFragEnqueue" -> [next |-> "FragStatus", due |-> "any"]
    [] config.request = "AfterSessTimeout" -> [next |-> "FragStatus", due |-> IF unset THEN "any" ELSE "end"]

(* enqueue; an empty payload has no fragments.                             *)
Enqueue(w) ==
  /\ InBody(w, "Enqueue")
  /\ LET after == AfterFragments(flow[w].unset)
     IN IF Exhausted(w) THEN EndBody(w, "FragStatus", "any")
        ELSE IF Done("McSession") = {} THEN EndBody(w, "DeleteMcGroup", "any")
        ELSE IF Fragment = {} THEN EndBody(w, after.next, after.due)
        ELSE GoOver(w, "fragments", Fragment)
  /\ UNCHANGED <<deploymentVars, jobs, group, queue, deviceVars, faults, historyVars>>

(* downlink::multicast::enqueue fails without the group.                   *)
EnqueueFragment(w) ==
  /\ flow[w].pc = "fragments"
  /\ LET n == Min(flow[w].todo)
         after == AfterFragments(flow[w].unset)
     IN IF group = 0 THEN /\ flow' = [flow EXCEPT ![w] = [@ EXCEPT !.pc = "update", !.next = "error",
                                                                    !.due = "any", !.todo = {}]]
                          /\ UNCHANGED <<queue, copies>>
        ELSE /\ queue' = queue \union {n}
             /\ copies' = [copies EXCEPT ![n] = @ + 1]
             /\ flow' = [flow EXCEPT ![w] =
                  IF @.todo = {n} THEN [@ EXCEPT !.todo = {}, !.pc = "update", !.next = after.next,
                                                 !.due = after.due]
                  ELSE [@ EXCEPT !.todo = flow[w].todo \ {n}]]
  /\ UNCHANGED <<deploymentVars, jobs, group, deviceVars, faults, slow, stopped, lost, stale>>

(* delete_mc_group; the queue of the group goes with it.                   *)
DeleteMcGroup(w) ==
  /\ InBody(w, "DeleteMcGroup")
  /\ IF Exhausted(w) THEN EndBody(w, "Complete", "any") /\ UNCHANGED <<group, queue>>
     ELSE /\ EndBody(w, IF group = 0 THEN "error" ELSE "Complete", "any")
          /\ group' = 0 /\ queue' = {}
  /\ UNCHANGED <<deploymentVars, jobs, deviceVars, faults, historyVars>>

(* complete: first the devices (set_device_completed); then, when the tags *)
(* of those that are completed are set, the deployment.                    *)
Needed == IF config.request = "NoRequest" THEN Steps \ {"FragStatus"} ELSE Steps

Complete(w) ==
  /\ InBody(w, "Complete")
  /\ IF Exhausted(w) THEN EndBody(w, "none", "any") /\ UNCHANGED row
     ELSE /\ GoOver(w, "close", {})
          /\ row' = [d \in Device |-> IF d \in config.devices /\ Needed \subseteq row[d].done
                                        THEN [row[d] EXCEPT !.completed = TRUE] ELSE row[d]]
  /\ UNCHANGED <<deploymentVars, jobs, group, queue, requests, answer, reached, got,
                 faults, historyVars>>

CompleteDeployment(w) ==
  /\ flow[w].pc = "close"
  /\ completed' = TRUE
  /\ flow' = [flow EXCEPT ![w] = [@ EXCEPT !.pc = "update", !.next = "none", !.due = "any"]]
  /\ UNCHANGED <<config, started, session, jobs, group, queue, deviceVars, faults, historyVars>>

(* dispatch: update_job writes the flow's copy of the row, which was open. *)
UpdateJob(w) ==
  /\ flow[w].pc = "update"
  /\ LET f == flow[w]
         ends == f.next \in {"none", "error", f.job}
     IN /\ jobs' = [jobs EXCEPT ![f.job] =
             [open |-> f.next # "none", attempts |-> f.attempts,
              due |-> IF f.next \in {"error", f.job} THEN "any" ELSE "locked"]]
        /\ flow' = [flow EXCEPT ![w] = IF ends THEN IdleFlow ELSE [f EXCEPT !.pc = "create"]]
  /\ UNCHANGED <<deploymentVars, group, queue, deviceVars, faults, historyVars>>

(* As if create_job left the open jobs as they are.                        *)
CreateJobOnly(w) ==
  /\ flow[w].pc = "create"
  /\ LET next == flow[w].next
     IN jobs' = IF next \in DOMAIN jobs THEN jobs
                ELSE [j \in DOMAIN jobs \union {next} |->
                        IF j = next THEN NewJob(flow[w].due) ELSE jobs[j]]
  /\ flow' = [flow EXCEPT ![w] = IdleFlow]
  /\ UNCHANGED <<deploymentVars, group, queue, deviceVars, faults, historyVars>>

(* create_job: completes the open jobs and inserts the next one, unless it *)
(* is there already: then the transaction fails.                           *)
CreateJob(w) ==
  /\ flow[w].pc = "create"
  /\ LET next == flow[w].next
     IN jobs' = IF next \in DOMAIN jobs THEN jobs
                ELSE [j \in DOMAIN jobs \union {next} |->
                        IF j = next THEN NewJob(flow[w].due) ELSE [jobs[j] EXCEPT !.open = FALSE]]
  /\ flow' = [flow EXCEPT ![w] = IdleFlow]
  /\ UNCHANGED <<deploymentVars, group, queue, deviceVars, faults, historyVars>>

(* As if an attempt were counted only when the job is through.             *)
FailBodyUncounted(w) ==
  /\ flow[w].pc \in {"body", "devices", "fragments", "close"} /\ Fault
  /\ flow' = [flow EXCEPT ![w] = [@ EXCEPT !.pc = "update", !.next = "error", !.due = "any", !.todo = {},
                !.attempts = IF flow[w].pc = "body" THEN flow[w].attempts ELSE flow[w].attempts - 1]]
  /\ UNCHANGED <<deploymentVars, jobs, group, queue, deviceVars, historyVars>>

(* A call of the body fails; the attempt counts.                           *)
FailBody(w) ==
  /\ flow[w].pc \in {"body", "devices", "fragments", "close"} /\ Fault
  /\ flow' = [flow EXCEPT ![w] = [@ EXCEPT !.pc = "update", !.next = "error", !.due = "any", !.todo = {},
                !.attempts = IF flow[w].pc = "body" THEN Attempts(w) ELSE flow[w].attempts]]
  /\ UNCHANGED <<deploymentVars, jobs, group, queue, deviceVars, historyVars>>

(* The server stops, or one of the two calls of dispatch fails.            *)
Stop(w) ==
  /\ ~Idle(w) /\ Fault
  /\ stopped' = TRUE
  /\ flow' = [flow EXCEPT ![w] = IdleFlow]
  /\ UNCHANGED <<deploymentVars, jobs, group, queue, deviceVars, copies, slow, lost, stale>>

-------------------------------------------------------------------------------
(* The devices.                                                            *)

Image(d) == got[d] = Fragment

(* How a device may answer a request: it needs the group for the session,  *)
(* the fragmentation session for its status; it may refuse every setup.    *)
Outcomes(d, step) ==
  CASE step = "McGroupSetup"     -> {TRUE, FALSE}
    [] step = "FragSessionSetup" -> {TRUE, FALSE}
    [] step = "McSession"        -> {"McGroupSetup" \in reached[d], FALSE}
    [] step = "FragStatus"       -> {Image(d) : x \in {s \in reached[d] : s = "FragSessionSetup"}}

(* The answer arrives and its handler loads the row of the device.         *)
Answer(d, step) ==
  /\ step \in requests[d] /\ answer[d] = NoAnswer
  /\ requests' = [requests EXCEPT ![d] = @ \ {step}]
  /\ \E ok \in Outcomes(d, step) :
       /\ reached' = [reached EXCEPT ![d] = IF ok THEN @ \union {step} ELSE @]
       /\ answer' = [answer EXCEPT ![d] = [step |-> step, ok |-> ok, row |-> row[d]]]
  /\ UNCHANGED <<deploymentVars, jobs, group, queue, row, got, flow, faults, historyVars>>

(* An answer to an earlier deployment is credited to the latest one.       *)
StaleAnswer(d, step) ==
  /\ d \in config.devices /\ config.trouble = "stale" /\ ~stale /\ started /\ answer[d] = NoAnswer
  /\ stale' = TRUE
  /\ answer' = [answer EXCEPT ![d] = [step |-> step, ok |-> TRUE, row |-> row[d]]]
  /\ UNCHANGED <<deploymentVars, jobs, group, queue, row, requests, reached, got, flow, faults,
                 copies, slow, stopped, lost>>

(* As if missing_frag were not looked at.                                  *)
AnsweredAnyway(r, step, ok) ==
  IF ok \/ step = "FragStatus" THEN [r EXCEPT !.done = @ \union {step}] ELSE [r EXCEPT !.error = TRUE]

Answered(r, step, ok) ==
  IF ok THEN [r EXCEPT !.done = @ \union {step}] ELSE [r EXCEPT !.error = TRUE]

(* update_device writes every column of the row it loaded.                 *)
StoreAnswer(d) ==
  /\ answer[d] # NoAnswer
  /\ LET a == answer[d]
     IN /\ row' = [row EXCEPT ![d] = Answered(a.row, a.step, a.ok)]
        /\ lost' = (lost \/ a.row # row[d])
  /\ answer' = [answer EXCEPT ![d] = NoAnswer]
  /\ UNCHANGED <<deploymentVars, jobs, group, queue, requests, reached, got, flow, faults,
                 copies, slow, stopped, stale>>

(* The scheduler of the multicast-group sends a fragment (Multicast).      *)
Broadcast(n) ==
  /\ n \in queue
  /\ queue' = queue \ {n}
  /\ \E receivers \in SUBSET {d \in Device : {"FragSessionSetup", "McSession"} \subseteq reached[d]
                                             /\ session = "running"} :
       got' = [d \in Device |-> IF d \in receivers THEN got[d] \union {n} ELSE got[d]]
  /\ UNCHANGED <<deploymentVars, jobs, group, row, requests, answer, reached, flow, faults, historyVars>>

SessionStarts ==
  /\ session = "ahead" /\ session' = "running"
  /\ UNCHANGED <<config, started, completed, jobs, group, queue, deviceVars, flow, faults, historyVars>>

SessionEnds ==
  /\ session = "running" /\ session' = "over"
  /\ UNCHANGED <<config, started, completed, jobs, group, queue, deviceVars, flow, faults, historyVars>>

-------------------------------------------------------------------------------
FlowStep(w) ==
  \/ SetupGroup(w) \/ Unicast(w) \/ Enqueue(w) \/ EnqueueFragment(w) \/ DeleteMcGroup(w)
  \/ Complete(w) \/ CompleteDeployment(w) \/ UpdateJob(w) \/ CreateJob(w)
  \/ \E d \in Device : AskDevice(w, d)

Next ==
  \/ Start \/ SessionStarts \/ SessionEnds
  \/ \E w \in Flow : FlowStep(w) \/ FailBody(w) \/ Stop(w) \/ \E j \in Jobs : Select(w, j)
  \/ \E d \in Device : StoreAnswer(d) \/ \E s \in Steps : Answer(d, s) \/ StaleAnswer(d, s)
  \/ \E n \in Fragment : Broadcast(n)

(* The loops of the servers run, flows go on, the session comes and goes.  *)
(* Nothing is assumed of the devices.                                      *)
Fairness ==
  /\ WF_vars(SessionStarts) /\ WF_vars(SessionEnds)
  /\ \A w \in Flow : WF_vars(FlowStep(w)) 
  /\ \A j \in Jobs : WF_vars(\E w \in Flow : Select(w, j))

Spec == Init /\ [][Next]_vars
FairSpec == Spec /\ Fairness

-------------------------------------------------------------------------------
Ended == started /\ Open = {} /\ \A w \in Flow : Idle(w)

(* A deployment has one job that is not completed ("Creating a new job,    *)
(* will set any pending job(s) to completed"), unless a flow took longer   *)
(* than the lock of its job and stored its copy after its successor was    *)
(* created.                                                                *)
OneOpenJob == slow \/ Cardinality(Open) <= 1

(* No fragment is put into the queue of the group twice, unless the job of *)
(* Enqueue is run twice because it took too long or its server stopped.    *)
FragmentsOnce == slow \/ stopped \/ \A n \in Fragment : copies[n] <= 1

(* A device that is reported complete without an error has the image, if   *)
(* the status is requested and no answer was left from an earlier          *)
(* deployment.                                                             *)
CompletedHasImage ==
  \A d \in config.devices :
    row[d].completed /\ ~row[d].error /\ config.request # "NoRequest" /\ ~stale => Image(d)

(* When the deployment is complete, no device is left without a result,    *)
(* neither completed nor with an error, although its answers and the       *)
(* timeouts race; except where an answer overwrote a row that had changed. *)
EveryDeviceAccounted ==
  completed /\ ~lost => \A d \in config.devices : row[d].completed \/ row[d].error

(* A deployment that has started ends, whatever devices do, unless a flow  *)
(* took longer than its lock; and then it is complete and its group gone,  *)
(* if no call failed.                                                      *)
Ends == started ~> slow \/ (Ended /\ (~faults => completed /\ group = 0))
================================================================================
