----------------------------- MODULE Fuota_proofs -----------------------------
(***************************************************************************)
(* Proofs about Fuota for any devices, flows, number of fragments and      *)
(* deployments: type correctness, that a deployment has one open job, that *)
(* no fragment is enqueued twice, that a device reported complete has the  *)
(* image, and that no device is left without a result.                     *)
(***************************************************************************)
EXTENDS Fuota, FiniteSetTheorems, WellFoundedInduction, TLAPS

USE FuotaAssumption

After == Jobs \union {"none", "error"}
FlowRow == [pc : {"idle", "body", "devices", "fragments", "close", "update", "create"},
            job : Jobs, attempts : Nat, todo : SUBSET (Device \union Fragment),
            next : After, due : Due, unset : BOOLEAN]

(* What the fields of a flow have to do with each other.                   *)
Shape(w) ==
  /\ ~Idle(w) => flow[w].job \in DOMAIN jobs
  /\ flow[w].pc = "devices" => flow[w].job \in Steps /\ flow[w].todo \subseteq Device
  /\ flow[w].pc = "fragments" => flow[w].job = "Enqueue" /\ flow[w].todo \in (SUBSET Fragment) \ {{}}
  /\ flow[w].pc = "close" => flow[w].job = "Complete"
  /\ flow[w].pc = "create" => flow[w].next \in Jobs
FlowShape == \A w \in Flow : Shape(w)

TypeInv ==
  /\ TypeOK
  /\ FlowShape
  /\ ~started => DOMAIN jobs = {}
  /\ \A d \in Device : answer[d].ok => answer[d].step # "none"

-----------------------------------------------------------------------------
(* A set of naturals that is not empty has a least element.                *)
LEMMA LeastElement ==
  ASSUME NEW S \in SUBSET Nat, S # {}
  PROVE  Min(S) \in S /\ \A n \in S : Min(S) <= n
<1> DEFINE R == OpToRel(<, Nat)
<1>1. R = {ss \in Nat \X Nat : ss[1] < ss[2]}
  BY Zenon DEF OpToRel
<1>2. \A x, y \in Nat : <<y, x>> \in R <=> y < x
  BY <1>1, Zenon
<1>3. IsWellFoundedOn(R, Nat)
  BY NatLessThanWellFounded, Zenon
<1> HIDE DEF R
<1>4. \E x \in S : \A y \in S : <<y, x>> \notin R
  BY <1>3, WFMin, Zenon
<1>5. PICK x \in S : \A y \in S : <<y, x>> \notin R
  BY <1>4
<1>6. ASSUME NEW y \in S PROVE x <= y
  <2>1. x \in Nat /\ y \in Nat
    OBVIOUS
  <2>2. ~(y < x)
    BY <1>2, <1>5, <2>1
  <2> QED
    BY <2>1, <2>2
<1> QED
  BY <1>6 DEF Min

LEMMA JobNames ==
  /\ GroupJobs \subseteq Jobs /\ UnicastJobs \subseteq Jobs /\ Steps \subseteq Jobs
  /\ {"CreateMcGroup", "Enqueue", "FragStatus", "DeleteMcGroup", "Complete"} \subseteq Jobs
  /\ "none" \notin Jobs /\ "error" \notin Jobs
  BY DEF GroupJobs, UnicastJobs, Steps, Jobs

LEMMA NextJobs ==
  /\ \A s \in Steps : AfterStep(s) \in Jobs
  /\ \A j \in GroupJobs : AfterGroupStep(j) \in Jobs /\ GroupStep(j) \in 1 .. 3
  /\ \A s \in Steps, e, u \in BOOLEAN : DueAfter(s, e, u) \in Due
<1>1. ASSUME NEW s \in Steps PROVE AfterStep(s) \in Jobs
  BY DEF AfterStep, Steps, Jobs, GroupJobs, UnicastJobs
<1>2. ASSUME NEW j \in GroupJobs PROVE AfterGroupStep(j) \in Jobs /\ GroupStep(j) \in 1 .. 3
  BY DEF AfterGroupStep, GroupStep, Jobs, GroupJobs, UnicastJobs
<1>3. ASSUME NEW s \in Steps, NEW e \in BOOLEAN, NEW u \in BOOLEAN PROVE DueAfter(s, e, u) \in Due
  BY DEF DueAfter, Steps, Due
<1> QED
  BY <1>1, <1>2, <1>3

LEMMA FragmentsDone ==
  ASSUME NEW u \in BOOLEAN, TypeOK
  PROVE  AfterFragments(u).next \in {"DeleteMcGroup", "FragStatus"} /\ AfterFragments(u).due \in Due
<1>1. config.request \in Request
  BY DEF TypeOK
<1> QED
  BY <1>1 DEF AfterFragments, Request, Due

LEMMA FlowTyped ==
  ASSUME TypeOK
  PROVE  flow \in [Flow -> FlowRow]
  BY DEF TypeOK, FlowRow, After

LEMMA AttemptsTyped ==
  ASSUME TypeOK, NEW w \in Flow
  PROVE  Attempts(w) \in Nat /\ Attempts(w) > 0 /\ Exhausted(w) \in BOOLEAN
<1>1. flow[w].attempts \in Nat /\ config.retries \in Nat
  BY DEF TypeOK
<1>2. MaxRetryCount(flow[w].job) \in Nat
  BY <1>1 DEF MaxRetryCount
<1> QED
  BY <1>1, <1>2 DEF Attempts, Exhausted

(* Both ends of a body leave the other flows alone.                        *)
LEMMA BodyEnds ==
  ASSUME TypeOK, NEW w \in Flow, NEW next \in After, NEW due \in Due,
         EndBody(w, next, due)
  PROVE  /\ flow' \in [Flow -> FlowRow]
         /\ \A v \in Flow \ {w} : flow'[v] = flow[v]
         /\ flow'[w].pc = "update" /\ flow'[w].job = flow[w].job
         /\ flow'[w].attempts = Attempts(w) /\ flow'[w].next = next
<1> DEFINE f == [flow[w] EXCEPT !.pc = "update", !.attempts = Attempts(w), !.next = next, !.due = due]
<1>1. flow \in [Flow -> FlowRow] /\ Attempts(w) \in Nat
  BY FlowTyped, AttemptsTyped
<1>2. f \in FlowRow
  BY <1>1 DEF FlowRow
<1>3. flow' = [flow EXCEPT ![w] = f]
  BY DEF EndBody
<1> HIDE DEF f
<1>4. flow' \in [Flow -> FlowRow] /\ flow'[w] = f /\ \A v \in Flow \ {w} : flow'[v] = flow[v]
  BY <1>1, <1>2, <1>3
<1>5. flow[w] \in FlowRow
  BY <1>1
<1> QED
  BY <1>4, <1>5 DEF f, FlowRow

LEMMA BodyGoesOn ==
  ASSUME TypeOK, NEW w \in Flow, NEW pc \in {"devices", "fragments", "close"},
         NEW todo \in SUBSET (Device \union Fragment), GoOver(w, pc, todo)
  PROVE  /\ flow' \in [Flow -> FlowRow]
         /\ \A v \in Flow \ {w} : flow'[v] = flow[v]
         /\ flow'[w].pc = pc /\ flow'[w].job = flow[w].job
         /\ flow'[w].attempts = Attempts(w) /\ flow'[w].todo = todo
<1> DEFINE f == [flow[w] EXCEPT !.pc = pc, !.attempts = Attempts(w), !.todo = todo]
<1>1. flow \in [Flow -> FlowRow] /\ Attempts(w) \in Nat
  BY FlowTyped, AttemptsTyped
<1>2. f \in FlowRow
  BY <1>1 DEF FlowRow
<1>3. flow' = [flow EXCEPT ![w] = f]
  BY DEF GoOver
<1> HIDE DEF f
<1>4. flow' \in [Flow -> FlowRow] /\ flow'[w] = f /\ \A v \in Flow \ {w} : flow'[v] = flow[v]
  BY <1>1, <1>2, <1>3
<1>5. flow[w] \in FlowRow
  BY <1>1
<1> QED
  BY <1>4, <1>5 DEF f, FlowRow

(* A flow that ends is idle again.                                         *)
LEMMA FlowEnds ==
  ASSUME TypeOK, NEW w \in Flow, flow' = [flow EXCEPT ![w] = IdleFlow]
  PROVE  /\ flow' \in [Flow -> FlowRow]
         /\ \A v \in Flow \ {w} : flow'[v] = flow[v]
         /\ flow'[w] = IdleFlow
<1>1. IdleFlow \in FlowRow
  BY JobNames DEF IdleFlow, FlowRow, After, Due
<1> QED
  BY <1>1, FlowTyped

LEMMA ShapeKept ==
  ASSUME FlowShape, NEW w \in Flow, \A v \in Flow \ {w} : flow'[v] = flow[v],
         DOMAIN jobs \subseteq DOMAIN jobs', Shape(w)'
  PROVE  FlowShape'
<1>1. ASSUME NEW v \in Flow \ {w} PROVE Shape(v)'
  <2>1. Shape(v) /\ flow'[v] = flow[v]
    BY DEF FlowShape
  <2> QED
    BY <2>1 DEF Shape, Idle
<1> QED
  BY <1>1 DEF FlowShape

-----------------------------------------------------------------------------
(* What each step does to the flows and to the rows of the jobs; the steps *)
(* of the devices and of time touch neither.                               *)

LEMMA TypeInit == Init => TypeInv
<1> SUFFICES ASSUME Init PROVE TypeInv
  OBVIOUS
<1>1. flow \in [Flow -> FlowRow]
  BY JobNames DEF Init, IdleFlow, FlowRow, After, Due
<1>2. \A w \in Flow : flow[w].pc = "idle"
  BY DEF Init, IdleFlow
<1>3. NoAnswer \in [step : Steps \union {"none"}, ok : BOOLEAN, row : Row]
  BY DEF NoAnswer, Row
<1>4. DOMAIN jobs = {} /\ jobs \in [DOMAIN jobs -> JobRow] /\ DOMAIN jobs \subseteq Jobs
  BY DEF Init
<1>5. row \in [Device -> Row]
  BY DEF Init, Row
<1>6. answer \in [Device -> [step : Steps \union {"none"}, ok : BOOLEAN, row : Row]]
  BY <1>3 DEF Init
<1>7. copies \in [Fragment -> Nat] /\ got \in [Device -> SUBSET Fragment]
  BY DEF Init
<1>8. config \in Scenarios /\ {slow, stopped, lost, stale} \subseteq BOOLEAN
  BY DEF Init
<1>9. /\ started \in BOOLEAN /\ completed \in BOOLEAN /\ faults \in BOOLEAN
      /\ session \in {"unset", "ahead", "running", "over"}
      /\ queue \subseteq Fragment
  BY Zenon DEF Init
<1>10. group \in 0 .. 3 /\ requests \in [Device -> SUBSET Steps] /\ reached \in [Device -> SUBSET Steps]
  BY DEF Init
<1>11. TypeOK
  BY <1>1, <1>4, <1>5, <1>6, <1>7, <1>8, <1>9, <1>10 DEF TypeOK, FlowRow, After
<1> QED
  BY <1>2, <1>4, <1>11 DEF TypeInv, FlowShape, Shape, Idle, Init, NoAnswer

LEMMA TypeStart ==
  ASSUME TypeInv, Start PROVE TypeInv'
<1>1. NewJob("any") \in JobRow
  BY DEF NewJob, JobRow, Due
<1>2. DOMAIN jobs \subseteq DOMAIN jobs' /\ jobs' \in [DOMAIN jobs' -> JobRow] /\ DOMAIN jobs' \subseteq Jobs
  <2>1. CASE jobs' = [j \in {"CreateMcGroup"} |-> NewJob("any")]
    <3>1. DOMAIN jobs' = {"CreateMcGroup"} /\ jobs' \in [{"CreateMcGroup"} -> JobRow]
      BY <1>1, <2>1
    <3>2. DOMAIN jobs = {}
      BY DEF Start, TypeInv
    <3> QED
      BY <3>1, <3>2, JobNames
  <2>2. CASE jobs' = jobs
    BY <2>2 DEF TypeInv, TypeOK
  <2> QED
    BY <2>1, <2>2 DEF Start
<1>3. TypeOK'
  BY <1>2 DEF Start, Fault, TypeInv, TypeOK, deviceVars, historyVars
<1>4. FlowShape'
  BY <1>2 DEF Start, TypeInv, FlowShape, Shape, Idle
<1> QED
  BY <1>3, <1>4 DEF Start, TypeInv, deviceVars

-----------------------------------------------------------------------------
(* What the steps within a job have in common.                             *)
Working == {"body", "devices", "fragments", "close"}
Works(w) ==
  /\ flow[w].pc \in Working
  /\ flow' \in [Flow -> FlowRow] /\ \A v \in Flow \ {w} : flow'[v] = flow[v]
  /\ flow'[w].pc \in {"devices", "fragments", "close", "update"}
  /\ flow'[w].job = flow[w].job
  /\ flow'[w].attempts = IF flow[w].pc = "body" THEN Attempts(w) ELSE flow[w].attempts
  /\ flow'[w].pc = "devices" => flow[w].job \in Steps /\ flow'[w].todo \subseteq Device
  /\ flow'[w].pc = "fragments" =>
       /\ flow[w].job = "Enqueue" /\ flow'[w].todo \in (SUBSET Fragment) \ {{}}
       /\ flow[w].pc = "body" => flow[w].attempts = 0
       /\ flow[w].pc # "body" => flow'[w].todo \subseteq flow[w].todo
  /\ flow'[w].pc = "close" => flow[w].job = "Complete"
  /\ jobs' = jobs

LEMMA WorksToTheEnd ==
  ASSUME TypeOK, NEW w \in Flow, flow[w].pc = "body",
         NEW next \in After, NEW due \in Due,
         EndBody(w, next, due), jobs' = jobs
  PROVE  Works(w)
  BY BodyEnds DEF Works, Working

LEMMA SetupGroupWorks ==
  ASSUME TypeOK, NEW w \in Flow, SetupGroup(w)
  PROVE  Works(w)
<1>1. PICK j \in GroupJobs :
        /\ InBody(w, j)
        /\ IF Exhausted(w) THEN EndBody(w, "none", "any") /\ UNCHANGED group
           ELSE IF group = GroupStep(j) - 1
             THEN EndBody(w, AfterGroupStep(j), "any") /\ group' = group + 1
             ELSE EndBody(w, "error", "any") /\ UNCHANGED group
  BY DEF SetupGroup
<1>2. AfterGroupStep(j) \in Jobs /\ "any" \in Due
  BY NextJobs DEF Due
<1>3. \E next \in After : EndBody(w, next, "any")
  BY <1>1, <1>2 DEF After
<1>4. jobs' = jobs
  BY DEF SetupGroup
<1> QED
  BY <1>1, <1>2, <1>3, <1>4, WorksToTheEnd DEF InBody

LEMMA UnicastWorks ==
  ASSUME TypeOK, NEW w \in Flow, Unicast(w)
  PROVE  Works(w)
<1>1. jobs' = jobs
  BY DEF Unicast
<1>2. flow[w] \in FlowRow /\ Exhausted(w) \in BOOLEAN
  BY FlowTyped, AttemptsTyped
<1>3. PICK step \in Steps :
        /\ InBody(w, step)
        /\ \/ \E next \in Jobs, due \in Due : EndBody(w, next, due)
           \/ GoOver(w, "devices", Before(step) \ Done(step))
  <2>1. PICK step \in Steps :
          LET asked == Before(step) \ Done(step)
              unset == flow[w].unset /\ (Exhausted(w) \/ step # "McSession")
          IN /\ InBody(w, step)
             /\ IF Exhausted(w)
                  THEN EndBody(w, AfterStep(step), DueAfter(step, TRUE, unset))
                ELSE IF Before(step) = {}
                  THEN EndBody(w, "DeleteMcGroup", "any")
                ELSE IF asked = {} THEN EndBody(w, AfterStep(step), DueAfter(step, FALSE, unset))
                                   ELSE GoOver(w, "devices", asked)
    BY DEF Unicast
  <2> DEFINE unset == flow[w].unset /\ (Exhausted(w) \/ step # "McSession")
  <2>2. unset \in BOOLEAN
    OBVIOUS
  <2>3. /\ AfterStep(step) \in Jobs /\ "DeleteMcGroup" \in Jobs /\ "any" \in Due
        /\ DueAfter(step, TRUE, unset) \in Due /\ DueAfter(step, FALSE, unset) \in Due
    BY <2>2, NextJobs, JobNames DEF Due
  <2> HIDE DEF unset
  <2>4. \/ EndBody(w, AfterStep(step), DueAfter(step, TRUE, unset))
        \/ EndBody(w, "DeleteMcGroup", "any")
        \/ EndBody(w, AfterStep(step), DueAfter(step, FALSE, unset))
        \/ GoOver(w, "devices", Before(step) \ Done(step))
    BY <2>1 DEF unset
  <2> QED
    BY <2>1, <2>3, <2>4
<1>4. CASE \E next \in Jobs, due \in Due : EndBody(w, next, due)
  BY <1>1, <1>3, <1>4, WorksToTheEnd DEF InBody, After
<1>5. CASE GoOver(w, "devices", Before(step) \ Done(step))
  <2>1. config.devices \subseteq Device
    BY DEF TypeOK
  <2>2. Before(step) \ Done(step) \subseteq Device
    BY <2>1 DEF Before, Done, Steps
  <2> QED
    BY <1>1, <1>3, <1>5, <2>2, BodyGoesOn DEF Works, Working, InBody
<1> QED
  BY <1>3, <1>4, <1>5

LEMMA EnqueueWorks ==
  ASSUME TypeOK, NEW w \in Flow, Enqueue(w)
  PROVE  Works(w)
<1>1. jobs' = jobs /\ flow[w].pc = "body" /\ flow[w].job = "Enqueue"
  BY DEF Enqueue, InBody
<1>2. flow[w] \in FlowRow
  BY FlowTyped
<1>3. flow[w].unset \in BOOLEAN
  BY <1>2 DEF FlowRow
<1> DEFINE after == AfterFragments(flow[w].unset)
<1>4. after.next \in Jobs /\ after.due \in Due /\ "any" \in Due
  BY <1>3, FragmentsDone, JobNames DEF Due
<1> HIDE DEF after
<1>5. \/ EndBody(w, "FragStatus", "any")
      \/ EndBody(w, "DeleteMcGroup", "any")
      \/ EndBody(w, after.next, after.due)
      \/ ~Exhausted(w) /\ Fragment # {} /\ GoOver(w, "fragments", Fragment)
  BY DEF Enqueue, after
<1>6. CASE \E next \in Jobs, due \in Due : EndBody(w, next, due)
  BY <1>1, <1>6, WorksToTheEnd DEF After
<1>7. CASE ~Exhausted(w) /\ Fragment # {} /\ GoOver(w, "fragments", Fragment)
  <2>1. flow[w].attempts = 0
    <3>1. MaxRetryCount(flow[w].job) = 0
      BY <1>1 DEF MaxRetryCount, UnicastJobs
    <3> QED
      BY <1>2, <1>7, <3>1 DEF Exhausted, FlowRow
  <2> QED
    BY <1>1, <1>7, <2>1, BodyGoesOn DEF Works, Working
<1> QED
  BY <1>4, <1>5, <1>6, <1>7, JobNames

LEMMA DeleteMcGroupWorks ==
  ASSUME TypeOK, NEW w \in Flow, DeleteMcGroup(w)
  PROVE  Works(w)
<1>1. jobs' = jobs /\ flow[w].pc = "body" /\ "any" \in Due
  BY DEF DeleteMcGroup, InBody, Due
<1>2. \E next \in After : EndBody(w, next, "any")
  BY JobNames DEF DeleteMcGroup, After
<1> QED
  BY <1>1, <1>2, WorksToTheEnd

LEMMA CompleteWorks ==
  ASSUME TypeOK, NEW w \in Flow, Complete(w)
  PROVE  Works(w)
<1>1. /\ jobs' = jobs /\ flow[w].pc = "body" /\ flow[w].job = "Complete"
      /\ "any" \in Due /\ "none" \in After
  BY DEF Complete, InBody, Due, After
<1>2. CASE EndBody(w, "none", "any")
  BY <1>1, <1>2, WorksToTheEnd
<1>3. CASE GoOver(w, "close", {})
  BY <1>1, <1>3, BodyGoesOn DEF Works, Working
<1> QED
  BY <1>2, <1>3 DEF Complete

LEMMA CompleteDeploymentWorks ==
  ASSUME TypeInv, NEW w \in Flow, CompleteDeployment(w)
  PROVE  Works(w) /\ flow'[w].pc = "update" /\ flow'[w].next = "none"
<1>1. flow[w].pc = "close" /\ jobs' = jobs
  BY DEF CompleteDeployment
<1>2. flow \in [Flow -> FlowRow] /\ flow[w] \in FlowRow
  BY FlowTyped DEF TypeInv
<1> DEFINE f == [flow[w] EXCEPT !.pc = "update", !.next = "none", !.due = "any"]
<1>3. flow' = [flow EXCEPT ![w] = f]
  BY DEF CompleteDeployment
<1>4. f \in FlowRow
  BY <1>2 DEF FlowRow, After, Due
<1>5. f.pc = "update" /\ f.next = "none" /\ f.job = flow[w].job /\ f.attempts = flow[w].attempts
  BY <1>2 DEF FlowRow
<1> HIDE DEF f
<1>6. flow' \in [Flow -> FlowRow] /\ flow'[w] = f /\ \A v \in Flow \ {w} : flow'[v] = flow[v]
  BY <1>2, <1>3, <1>4
<1> QED
  BY <1>1, <1>5, <1>6 DEF Works, Working

LEMMA AskDeviceWorks ==
  ASSUME TypeInv, NEW w \in Flow, NEW d \in Device, AskDevice(w, d)
  PROVE  Works(w)
<1>1. flow[w].pc = "devices" /\ d \in flow[w].todo /\ jobs' = jobs
  BY DEF AskDevice
<1>2. flow[w].job \in Steps /\ flow[w].todo \subseteq Device
  BY <1>1 DEF TypeInv, FlowShape, Shape
<1>3. flow \in [Flow -> FlowRow] /\ flow[w] \in FlowRow
  BY FlowTyped DEF TypeInv
<1> DEFINE f == IF flow[w].todo = {d}
                  THEN [flow[w] EXCEPT !.todo = {}, !.pc = "update", !.next = flow[w].job, !.due = "any"]
                  ELSE [flow[w] EXCEPT !.todo = flow[w].todo \ {d}]
<1>4. flow' = [flow EXCEPT ![w] = f]
  BY DEF AskDevice
<1>5. f \in FlowRow
  BY <1>3, JobNames DEF FlowRow, After, Due
<1>6. /\ f.pc \in {"devices", "update"} /\ f.job = flow[w].job /\ f.attempts = flow[w].attempts
      /\ f.todo \subseteq flow[w].todo
  BY <1>1, <1>3 DEF FlowRow
<1> HIDE DEF f
<1>7. flow' \in [Flow -> FlowRow] /\ flow'[w] = f /\ \A v \in Flow \ {w} : flow'[v] = flow[v]
  BY <1>3, <1>4, <1>5
<1> QED
  BY <1>1, <1>2, <1>6, <1>7 DEF Works, Working

LEMMA EnqueueFragmentWorks ==
  ASSUME TypeInv, NEW w \in Flow, EnqueueFragment(w)
  PROVE  /\ Works(w)
         /\ \/ queue' = queue /\ copies' = copies /\ flow'[w].pc = "update"
            \/ \E n \in flow[w].todo :
                 /\ queue' = queue \union {n}
                 /\ copies' = [copies EXCEPT ![n] = @ + 1]
                 /\ flow'[w].pc = "update" \/ flow'[w].todo = flow[w].todo \ {n}
         /\ flow'[w].pc = "update" => flow'[w].next \in {"error", AfterFragments(flow[w].unset).next}
<1>1. flow[w].pc = "fragments" /\ jobs' = jobs
  BY DEF EnqueueFragment
<1>2. flow[w].job = "Enqueue" /\ flow[w].todo \in (SUBSET Fragment) \ {{}}
  BY <1>1 DEF TypeInv, FlowShape, Shape
<1>3. flow \in [Flow -> FlowRow] /\ flow[w] \in FlowRow /\ flow[w].unset \in BOOLEAN
  BY FlowTyped DEF TypeInv, FlowRow
<1> DEFINE n == Min(flow[w].todo)
           after == AfterFragments(flow[w].unset)
           stop == [flow[w] EXCEPT !.pc = "update", !.next = "error", !.due = "any", !.todo = {}]
           last == [flow[w] EXCEPT !.todo = {}, !.pc = "update", !.next = after.next, !.due = after.due]
           more == [flow[w] EXCEPT !.todo = flow[w].todo \ {n}]
<1>4. n \in flow[w].todo
  <2>1. flow[w].todo \in SUBSET Nat /\ flow[w].todo # {}
    BY <1>2 DEF Fragment
  <2> QED
    BY <2>1, LeastElement
<1>5. after.next \in After /\ after.due \in Due /\ "any" \in Due /\ "error" \in After
  BY <1>3, FragmentsDone, JobNames DEF After, Due, TypeInv
<1>6. \/ flow' = [flow EXCEPT ![w] = stop] /\ queue' = queue /\ copies' = copies
      \/ /\ queue' = queue \union {n} /\ copies' = [copies EXCEPT ![n] = @ + 1]
         /\ \/ flow' = [flow EXCEPT ![w] = last]
            \/ flow' = [flow EXCEPT ![w] = more] /\ flow[w].todo # {n}
  BY DEF EnqueueFragment
<1> HIDE DEF n, after
<1>7. stop \in FlowRow /\ last \in FlowRow /\ more \in FlowRow
  BY <1>3, <1>5 DEF FlowRow
<1>8. /\ stop.pc = "update" /\ stop.job = flow[w].job /\ stop.attempts = flow[w].attempts /\ stop.next = "error"
      /\ last.pc = "update" /\ last.job = flow[w].job /\ last.attempts = flow[w].attempts /\ last.next = after.next
      /\ more.pc = "fragments" /\ more.job = flow[w].job /\ more.attempts = flow[w].attempts
      /\ more.todo = flow[w].todo \ {n}
  BY <1>1, <1>3 DEF FlowRow
<1> HIDE DEF stop, last, more
<1>9. CASE flow' = [flow EXCEPT ![w] = stop] /\ queue' = queue /\ copies' = copies
  <2>1. flow' \in [Flow -> FlowRow] /\ flow'[w] = stop /\ \A v \in Flow \ {w} : flow'[v] = flow[v]
    BY <1>3, <1>7, <1>9
  <2> QED
    BY <1>1, <1>8, <1>9, <2>1 DEF Works, Working
<1>10. CASE flow' = [flow EXCEPT ![w] = last] /\ queue' = queue \union {n} /\ copies' = [copies EXCEPT ![n] = @ + 1]
  <2>1. flow' \in [Flow -> FlowRow] /\ flow'[w] = last /\ \A v \in Flow \ {w} : flow'[v] = flow[v]
    BY <1>3, <1>7, <1>10
  <2>2. Works(w)
    BY <1>1, <1>8, <2>1 DEF Works, Working
  <2>3. flow'[w].pc = "update" /\ flow'[w].next = AfterFragments(flow[w].unset).next
    BY <1>8, <2>1 DEF after
  <2> QED
    BY <1>4, <1>10, <2>2, <2>3
<1>11. CASE /\ flow' = [flow EXCEPT ![w] = more] /\ flow[w].todo # {n}
            /\ queue' = queue \union {n} /\ copies' = [copies EXCEPT ![n] = @ + 1]
  <2>1. flow' \in [Flow -> FlowRow] /\ flow'[w] = more /\ \A v \in Flow \ {w} : flow'[v] = flow[v]
    BY <1>3, <1>7, <1>11
  <2>2. flow'[w].todo \in (SUBSET Fragment) \ {{}} /\ flow'[w].todo \subseteq flow[w].todo
    BY <1>2, <1>4, <1>8, <1>11, <2>1
  <2>3. Works(w)
    BY <1>1, <1>2, <1>8, <2>1, <2>2 DEF Works, Working
  <2>4. flow'[w].pc = "fragments" /\ flow'[w].todo = flow[w].todo \ {n}
    BY <1>8, <2>1
  <2> QED
    BY <1>4, <1>11, <2>3, <2>4
<1> QED
  BY <1>6, <1>9, <1>10, <1>11

LEMMA FailBodyWorks ==
  ASSUME TypeOK, NEW w \in Flow, FailBody(w)
  PROVE  Works(w) /\ flow'[w].pc = "update" /\ flow'[w].next = "error"
<1>1. flow[w].pc \in Working /\ jobs' = jobs
  BY DEF FailBody, Working
<1>2. flow \in [Flow -> FlowRow] /\ flow[w] \in FlowRow /\ Attempts(w) \in Nat
  BY FlowTyped, AttemptsTyped
<1> DEFINE f == [flow[w] EXCEPT !.pc = "update", !.next = "error", !.due = "any", !.todo = {},
                   !.attempts = IF flow[w].pc = "body" THEN Attempts(w) ELSE flow[w].attempts]
<1>3. flow' = [flow EXCEPT ![w] = f]
  BY DEF FailBody
<1>4. f \in FlowRow
  BY <1>2 DEF FlowRow, After, Due
<1>5. /\ f.pc = "update" /\ f.next = "error" /\ f.job = flow[w].job
      /\ f.attempts = IF flow[w].pc = "body" THEN Attempts(w) ELSE flow[w].attempts
  BY <1>2 DEF FlowRow
<1> HIDE DEF f
<1>6. flow' \in [Flow -> FlowRow] /\ flow'[w] = f /\ \A v \in Flow \ {w} : flow'[v] = flow[v]
  BY <1>2, <1>3, <1>4
<1> QED
  BY <1>1, <1>5, <1>6 DEF Works

-----------------------------------------------------------------------------
(* The steps that write the rows of the jobs.                              *)

Closes(w) == flow[w].next \in {"none", "error", flow[w].job}

LEMMA UpdateJobWrites ==
  ASSUME TypeInv, NEW w \in Flow, UpdateJob(w)
  PROVE  /\ flow' \in [Flow -> FlowRow] /\ \A v \in Flow \ {w} : flow'[v] = flow[v]
         /\ flow[w].job \in DOMAIN jobs
         /\ DOMAIN jobs' = DOMAIN jobs /\ jobs' \in [DOMAIN jobs -> JobRow]
         /\ \A j \in DOMAIN jobs \ {flow[w].job} : jobs'[j] = jobs[j]
         /\ jobs'[flow[w].job].open = (flow[w].next # "none")
         /\ jobs'[flow[w].job].attempts = flow[w].attempts
         /\ jobs'[flow[w].job].due = IF flow[w].next \in {"error", flow[w].job} THEN "any" ELSE "locked"
         /\ Closes(w) => flow'[w] = IdleFlow
         /\ ~Closes(w) => /\ flow'[w].pc = "create" /\ flow'[w].job = flow[w].job
                          /\ flow'[w].attempts = flow[w].attempts
                          /\ flow'[w].next = flow[w].next /\ flow[w].next \in Jobs
                          /\ flow'[w].due = flow[w].due
<1>1. flow \in [Flow -> FlowRow] /\ flow[w] \in FlowRow /\ IdleFlow \in FlowRow
  BY FlowTyped, JobNames DEF TypeInv, IdleFlow, FlowRow, After, Due
<1>2. flow[w].pc = "update"
  BY DEF UpdateJob
<1>3. flow[w].job \in DOMAIN jobs
  BY <1>2 DEF TypeInv, FlowShape, Shape, Idle
<1> DEFINE r == [open |-> flow[w].next # "none", attempts |-> flow[w].attempts,
                 due |-> IF flow[w].next \in {"error", flow[w].job} THEN "any" ELSE "locked"]
           f == IF Closes(w) THEN IdleFlow ELSE [flow[w] EXCEPT !.pc = "create"]
<1>4. jobs' = [jobs EXCEPT ![flow[w].job] = r] /\ flow' = [flow EXCEPT ![w] = f]
  BY DEF UpdateJob, Closes
<1>5. r \in JobRow
  BY <1>1 DEF FlowRow, JobRow, Due
<1>6. f \in FlowRow
  BY <1>1 DEF FlowRow
<1>7. ~Closes(w) => /\ f.pc = "create" /\ f.job = flow[w].job /\ f.attempts = flow[w].attempts
                    /\ f.next = flow[w].next /\ f.due = flow[w].due
  BY <1>1 DEF FlowRow
<1>8. ~Closes(w) => flow[w].next \in Jobs
  BY <1>1 DEF Closes, FlowRow, After
<1>9. Closes(w) => f = IdleFlow
  OBVIOUS
<1> HIDE DEF f
<1>10. flow' \in [Flow -> FlowRow] /\ flow'[w] = f /\ \A v \in Flow \ {w} : flow'[v] = flow[v]
  BY <1>1, <1>4, <1>6
<1>11. r.open = (flow[w].next # "none") /\ r.attempts = flow[w].attempts
       /\ r.due = IF flow[w].next \in {"error", flow[w].job} THEN "any" ELSE "locked"
  OBVIOUS
<1> HIDE DEF r
<1>12. /\ DOMAIN jobs' = DOMAIN jobs /\ jobs' \in [DOMAIN jobs -> JobRow] /\ jobs'[flow[w].job] = r
       /\ \A j \in DOMAIN jobs \ {flow[w].job} : jobs'[j] = jobs[j]
  BY <1>3, <1>4, <1>5 DEF TypeInv, TypeOK
<1> QED
  BY <1>3, <1>7, <1>8, <1>9, <1>10, <1>11, <1>12

LEMMA CreateJobWrites ==
  ASSUME TypeInv, NEW w \in Flow, CreateJob(w)
  PROVE  /\ flow[w].pc = "create" /\ flow[w].next \in Jobs
         /\ flow' \in [Flow -> FlowRow] /\ \A v \in Flow \ {w} : flow'[v] = flow[v]
         /\ flow'[w] = IdleFlow
         /\ DOMAIN jobs' = DOMAIN jobs \union {flow[w].next} /\ jobs' \in [DOMAIN jobs' -> JobRow]
         /\ flow[w].next \in DOMAIN jobs => jobs' = jobs
         /\ flow[w].next \notin DOMAIN jobs =>
              /\ jobs'[flow[w].next] = NewJob(flow[w].due)
              /\ \A j \in DOMAIN jobs : ~jobs'[j].open /\ jobs'[j].attempts = jobs[j].attempts
<1>1. flow[w].pc = "create"
  BY DEF CreateJob
<1>2. flow[w].next \in Jobs
  BY <1>1 DEF TypeInv, FlowShape, Shape
<1>3. /\ flow' \in [Flow -> FlowRow] /\ \A v \in Flow \ {w} : flow'[v] = flow[v]
      /\ flow'[w] = IdleFlow
  BY FlowEnds DEF CreateJob, TypeInv
<1> DEFINE next == flow[w].next
<1>4. jobs \in [DOMAIN jobs -> JobRow]
  BY DEF TypeInv, TypeOK
<1>5. CASE next \in DOMAIN jobs
  <2>1. jobs' = jobs
    BY <1>5 DEF CreateJob
  <2> QED
    BY <1>1, <1>2, <1>3, <1>4, <1>5, <2>1
<1>6. CASE next \notin DOMAIN jobs
  <2>1. jobs' = [j \in DOMAIN jobs \union {next} |->
                   IF j = next THEN NewJob(flow[w].due) ELSE [jobs[j] EXCEPT !.open = FALSE]]
    BY <1>6 DEF CreateJob
  <2>2. NewJob(flow[w].due) \in JobRow
    BY FlowTyped DEF NewJob, JobRow, FlowRow, TypeInv
  <2>3. ASSUME NEW j \in DOMAIN jobs
        PROVE  /\ [jobs[j] EXCEPT !.open = FALSE] \in JobRow
               /\ ~[jobs[j] EXCEPT !.open = FALSE].open
               /\ [jobs[j] EXCEPT !.open = FALSE].attempts = jobs[j].attempts
    BY <1>4 DEF JobRow
  <2>4. DOMAIN jobs' = DOMAIN jobs \union {next} /\ jobs' \in [DOMAIN jobs' -> JobRow]
    BY <2>1, <2>2, <2>3
  <2>5. jobs'[next] = NewJob(flow[w].due)
    BY <2>1
  <2>6. \A j \in DOMAIN jobs : ~jobs'[j].open /\ jobs'[j].attempts = jobs[j].attempts
    BY <1>6, <2>1, <2>3
  <2> QED
    BY <1>1, <1>2, <1>3, <1>6, <2>4, <2>5, <2>6
<1> QED
  BY <1>5, <1>6

LEMMA SelectWrites ==
  ASSUME TypeInv, NEW w \in Flow, NEW j \in Jobs, Select(w, j)
  PROVE  /\ Idle(w) /\ j \in DOMAIN jobs /\ jobs[j].open
         /\ flow' \in [Flow -> FlowRow] /\ \A v \in Flow \ {w} : flow'[v] = flow[v]
         /\ flow'[w].pc = "body" /\ flow'[w].job = j /\ flow'[w].attempts = jobs[j].attempts
         /\ DOMAIN jobs' = DOMAIN jobs /\ jobs' \in [DOMAIN jobs -> JobRow]
         /\ \A i \in DOMAIN jobs : jobs'[i].open = jobs[i].open /\ jobs'[i].attempts = jobs[i].attempts
         /\ jobs'[j].due = "locked" /\ \A i \in DOMAIN jobs \ {j} : jobs'[i] = jobs[i]
<1>1. Idle(w) /\ j \in DOMAIN jobs /\ jobs[j].open
  BY DEF Select, Open
<1>2. jobs \in [DOMAIN jobs -> JobRow] /\ jobs[j] \in JobRow
  BY <1>1 DEF TypeInv, TypeOK
<1> DEFINE f == [IdleFlow EXCEPT !.pc = "body", !.job = j, !.attempts = jobs[j].attempts,
                                 !.due = "locked", !.unset = session = "unset"]
<1>3. flow' = [flow EXCEPT ![w] = f]
  BY DEF Select
<1>4. f \in FlowRow /\ f.pc = "body" /\ f.job = j /\ f.attempts = jobs[j].attempts
  BY <1>2, JobNames DEF FlowRow, IdleFlow, After, Due, JobRow
<1> HIDE DEF f
<1>5. /\ flow' \in [Flow -> FlowRow] /\ \A v \in Flow \ {w} : flow'[v] = flow[v]
      /\ flow'[w] = f
  BY <1>3, <1>4, FlowTyped DEF TypeInv
<1> DEFINE r == [jobs[j] EXCEPT !.due = "locked"]
<1>6. jobs' = [jobs EXCEPT ![j] = r]
  BY DEF Select
<1>7. r \in JobRow /\ r.due = "locked" /\ r.open = jobs[j].open /\ r.attempts = jobs[j].attempts
  BY <1>2 DEF JobRow, Due
<1> HIDE DEF r
<1>8. DOMAIN jobs' = DOMAIN jobs /\ jobs' \in [DOMAIN jobs -> JobRow] /\ jobs'[j] = r
      /\ \A i \in DOMAIN jobs \ {j} : jobs'[i] = jobs[i]
  BY <1>1, <1>2, <1>6, <1>7
<1> QED
  BY <1>1, <1>4, <1>5, <1>7, <1>8

-----------------------------------------------------------------------------
(* Type correctness.                                                       *)

LEMMA WorksShape ==
  ASSUME TypeInv, NEW w \in Flow, Works(w)
  PROVE  FlowShape'
<1>1. flow[w].job \in DOMAIN jobs
  BY DEF Works, Working, TypeInv, FlowShape, Shape, Idle
<1>2. Shape(w)'
  BY <1>1 DEF Works, Shape
<1> QED
  BY <1>2, ShapeKept DEF Works, TypeInv

LEMMA TypeSetupGroup ==
  ASSUME TypeInv, NEW w \in Flow, SetupGroup(w)
  PROVE  TypeInv'
<1>1. Works(w)
  BY SetupGroupWorks DEF TypeInv
<1>2. group' \in 0 .. 3
  <2>1. PICK j \in GroupJobs : group' = group \/ (group = GroupStep(j) - 1 /\ group' = group + 1)
    BY DEF SetupGroup
  <2>2. GroupStep(j) \in 1 .. 3 /\ group \in 0 .. 3
    BY NextJobs DEF TypeInv, TypeOK
  <2> QED
    BY <2>1, <2>2
<1>3. TypeOK'
  BY <1>1, <1>2 DEF SetupGroup, Works, TypeInv, TypeOK, FlowRow, After, deploymentVars, deviceVars, historyVars
<1> QED
  BY <1>1, <1>3, WorksShape DEF TypeInv, SetupGroup, deploymentVars, deviceVars

LEMMA TimedOutTyped ==
  ASSUME TypeOK, NEW step \in Steps
  PROVE  /\ TimedOut(step) \in [Device -> Row]
         /\ \A d \in Device : /\ TimedOut(step)[d].done = row[d].done
                              /\ TimedOut(step)[d].completed = row[d].completed
                              /\ row[d].error => TimedOut(step)[d].error
                              /\ d \in config.devices /\ step \notin row[d].done => TimedOut(step)[d].error
<1>1. ASSUME NEW d \in Device
      PROVE  /\ TimedOut(step)[d] \in Row /\ TimedOut(step)[d].done = row[d].done
             /\ TimedOut(step)[d].completed = row[d].completed
             /\ row[d].error => TimedOut(step)[d].error
             /\ d \in config.devices /\ step \notin row[d].done => TimedOut(step)[d].error
  <2>1. row[d] \in Row
    BY DEF TypeOK
  <2>2. TimedOut(step)[d] = IF d \notin config.devices \/ step \in row[d].done
                              THEN row[d] ELSE [row[d] EXCEPT !.error = TRUE]
    BY DEF TimedOut
  <2>3. CASE d \notin config.devices \/ step \in row[d].done
    BY <2>1, <2>2, <2>3
  <2>4. CASE ~(d \notin config.devices \/ step \in row[d].done)
    BY <2>1, <2>2, <2>4 DEF Row
  <2> QED
    BY <2>3, <2>4
<1> QED
  BY <1>1 DEF TimedOut

LEMMA TypeUnicast ==
  ASSUME TypeInv, NEW w \in Flow, Unicast(w)
  PROVE  TypeInv'
<1>1. Works(w)
  BY UnicastWorks DEF TypeInv
<1>2. /\ row' = row \/ \E step \in Steps : row' = TimedOut(step)
      /\ session' = session \/ session' = "ahead"
  BY DEF Unicast
<1>3. row' \in [Device -> Row]
  BY <1>2, TimedOutTyped DEF TypeInv, TypeOK
<1>4. session' \in {"unset", "ahead", "running", "over"}
  BY <1>2 DEF TypeInv, TypeOK
<1>5. TypeOK'
  BY <1>1, <1>3, <1>4 DEF Unicast, Works, TypeInv, TypeOK, FlowRow, After, historyVars
<1> QED
  BY <1>1, <1>5, WorksShape DEF TypeInv, Unicast

LEMMA TypeEnqueue ==
  ASSUME TypeInv, NEW w \in Flow, Enqueue(w)
  PROVE  TypeInv'
<1>1. Works(w)
  BY EnqueueWorks DEF TypeInv
<1>2. TypeOK'
  BY <1>1 DEF Enqueue, Works, TypeInv, TypeOK, FlowRow, After, deploymentVars, deviceVars, historyVars
<1> QED
  BY <1>1, <1>2, WorksShape DEF TypeInv, Enqueue, deploymentVars, deviceVars

LEMMA TypeEnqueueFragment ==
  ASSUME TypeInv, NEW w \in Flow, EnqueueFragment(w)
  PROVE  TypeInv'
<1>1. Works(w)
  BY EnqueueFragmentWorks
<1>2. flow[w].todo \subseteq Fragment
  BY DEF EnqueueFragment, TypeInv, FlowShape, Shape
<1>3. queue' \subseteq Fragment /\ copies' \in [Fragment -> Nat]
  <2>1. CASE queue' = queue /\ copies' = copies
    BY <2>1 DEF TypeInv, TypeOK
  <2>2. ASSUME NEW n \in flow[w].todo, queue' = queue \union {n}, copies' = [copies EXCEPT ![n] = @ + 1]
        PROVE  queue' \subseteq Fragment /\ copies' \in [Fragment -> Nat]
    BY <1>2, <2>2 DEF TypeInv, TypeOK
  <2> QED
    BY <2>1, <2>2, EnqueueFragmentWorks
<1>4. TypeOK'
  BY <1>1, <1>3 DEF EnqueueFragment, Works, TypeInv, TypeOK, FlowRow, After, deploymentVars, deviceVars
<1> QED
  BY <1>1, <1>4, WorksShape DEF TypeInv, EnqueueFragment, deploymentVars, deviceVars

LEMMA TypeDeleteMcGroup ==
  ASSUME TypeInv, NEW w \in Flow, DeleteMcGroup(w)
  PROVE  TypeInv'
<1>1. Works(w)
  BY DeleteMcGroupWorks DEF TypeInv
<1>2. group' \in 0 .. 3 /\ queue' \subseteq Fragment
  BY DEF DeleteMcGroup, TypeInv, TypeOK
<1>3. TypeOK'
  BY <1>1, <1>2 DEF DeleteMcGroup, Works, TypeInv, TypeOK, FlowRow, After, deploymentVars, deviceVars, historyVars
<1> QED
  BY <1>1, <1>3, WorksShape DEF TypeInv, DeleteMcGroup, deploymentVars, deviceVars

LEMMA CompleteWrites ==
  ASSUME TypeOK, NEW w \in Flow, Complete(w)
  PROVE  /\ row' \in [Device -> Row] /\ completed' = completed
         /\ \A d \in Device : /\ row'[d].done = row[d].done /\ row'[d].error = row[d].error
                              /\ row[d].completed => row'[d].completed
                              /\ row'[d].completed => row[d].completed \/ Needed \subseteq row[d].done
         /\ \/ row' = row /\ EndBody(w, "none", "any")
            \/ \A d \in config.devices : Needed \subseteq row[d].done => row'[d].completed
<1> completed' = completed
  BY DEF Complete, deploymentVars
<1>1. CASE row' = row /\ EndBody(w, "none", "any")
  BY <1>1 DEF TypeOK
<1>2. CASE /\ row' = [d \in Device |-> IF d \in config.devices /\ Needed \subseteq row[d].done
                                         THEN [row[d] EXCEPT !.completed = TRUE] ELSE row[d]]
  <2>1. ASSUME NEW d \in Device
        PROVE  /\ row'[d] \in Row /\ row'[d].done = row[d].done /\ row'[d].error = row[d].error
               /\ row[d].completed => row'[d].completed
               /\ row'[d].completed => row[d].completed \/ Needed \subseteq row[d].done
               /\ d \in config.devices /\ Needed \subseteq row[d].done => row'[d].completed
    <3>1. row[d] \in Row
      BY DEF TypeOK
    <3>2. CASE d \in config.devices /\ Needed \subseteq row[d].done
      BY <1>2, <3>1, <3>2 DEF Row
    <3>3. CASE ~(d \in config.devices /\ Needed \subseteq row[d].done)
      BY <1>2, <3>1, <3>3
    <3> QED
      BY <3>2, <3>3
  <2>2. row' \in [Device -> Row]
    BY <1>2, <2>1
  <2>3. config.devices \subseteq Device
    BY DEF TypeOK
  <2> QED
    BY <1>2, <2>1, <2>2, <2>3
<1> QED
  BY <1>1, <1>2 DEF Complete

LEMMA TypeComplete ==
  ASSUME TypeInv, NEW w \in Flow, Complete(w)
  PROVE  TypeInv'
<1>1. Works(w)
  BY CompleteWorks DEF TypeInv
<1>2. row' \in [Device -> Row]
  BY CompleteWrites DEF TypeInv
<1>3. TypeOK'
  BY <1>1, <1>2 DEF Complete, Works, TypeInv, TypeOK, FlowRow, After, deploymentVars, historyVars
<1> QED
  BY <1>1, <1>3, WorksShape DEF TypeInv, Complete, deploymentVars

LEMMA TypeCompleteDeployment ==
  ASSUME TypeInv, NEW w \in Flow, CompleteDeployment(w)
  PROVE  TypeInv'
<1>1. Works(w)
  BY CompleteDeploymentWorks
<1>2. TypeOK'
  BY <1>1 DEF CompleteDeployment, Works, TypeInv, TypeOK, FlowRow, After, deviceVars, historyVars
<1> QED
  BY <1>1, <1>2, WorksShape DEF TypeInv, CompleteDeployment, deviceVars

LEMMA TypeAskDevice ==
  ASSUME TypeInv, NEW w \in Flow, NEW d \in Device, AskDevice(w, d)
  PROVE  TypeInv'
<1>1. Works(w)
  BY AskDeviceWorks
<1>2. flow[w].job \in Steps
  BY DEF AskDevice, TypeInv, FlowShape, Shape
<1>3. requests' \in [Device -> SUBSET Steps]
  BY <1>2 DEF AskDevice, TypeInv, TypeOK
<1>4. TypeOK'
  BY <1>1, <1>3 DEF AskDevice, Works, TypeInv, TypeOK, FlowRow, After, deploymentVars, historyVars
<1> QED
  BY <1>1, <1>4, WorksShape DEF TypeInv, AskDevice, deploymentVars, deviceVars

LEMMA TypeFailBody ==
  ASSUME TypeInv, NEW w \in Flow, FailBody(w)
  PROVE  TypeInv'
<1>1. Works(w)
  BY FailBodyWorks DEF TypeInv
<1>2. TypeOK'
  BY <1>1 DEF FailBody, Fault, Works, TypeInv, TypeOK, FlowRow, After, deploymentVars, deviceVars, historyVars
<1> QED
  BY <1>1, <1>2, WorksShape DEF TypeInv, FailBody, deploymentVars, deviceVars

LEMMA TypeUpdateJob ==
  ASSUME TypeInv, NEW w \in Flow, UpdateJob(w)
  PROVE  TypeInv'
<1>1. Shape(w)'
  <2>1. CASE Closes(w)
    BY <2>1, UpdateJobWrites DEF Shape, Idle, IdleFlow
  <2>2. CASE ~Closes(w)
    BY <2>2, UpdateJobWrites DEF Shape, Idle
  <2> QED
    BY <2>1, <2>2
<1>2. FlowShape'
  BY <1>1, UpdateJobWrites, ShapeKept DEF TypeInv
<1>3. TypeOK'
  <2>1. flow' \in [Flow -> FlowRow] /\ DOMAIN jobs' \subseteq Jobs /\ jobs' \in [DOMAIN jobs' -> JobRow]
    BY UpdateJobWrites DEF TypeInv, TypeOK
  <2> QED
    BY <2>1 DEF UpdateJob, TypeInv, TypeOK, FlowRow, After, deploymentVars, deviceVars, historyVars
<1>4. DOMAIN jobs' = DOMAIN jobs
  BY UpdateJobWrites
<1> QED
  BY <1>2, <1>3, <1>4 DEF TypeInv, UpdateJob, deploymentVars, deviceVars

LEMMA TypeCreateJob ==
  ASSUME TypeInv, NEW w \in Flow, CreateJob(w)
  PROVE  TypeInv'
<1>1. Shape(w)'
  <2>1. flow'[w] = IdleFlow
    BY CreateJobWrites
  <2> QED
    BY <2>1 DEF Shape, Idle, IdleFlow
<1>2. FlowShape'
  BY <1>1, CreateJobWrites, ShapeKept DEF TypeInv
<1>3. TypeOK'
  <2>1. flow' \in [Flow -> FlowRow] /\ DOMAIN jobs' \subseteq Jobs /\ jobs' \in [DOMAIN jobs' -> JobRow]
    BY CreateJobWrites DEF TypeInv, TypeOK
  <2> QED
    BY <2>1 DEF CreateJob, TypeInv, TypeOK, FlowRow, After, deploymentVars, deviceVars, historyVars
<1>4. started'
  BY DEF CreateJob, TypeInv, FlowShape, Shape, Idle, deploymentVars
<1> QED
  BY <1>2, <1>3, <1>4 DEF TypeInv, CreateJob, deviceVars

LEMMA TypeSelect ==
  ASSUME TypeInv, NEW w \in Flow, NEW j \in Jobs, Select(w, j)
  PROVE  TypeInv'
<1>1. Shape(w)'
  <2>1. flow'[w].pc = "body" /\ flow'[w].job \in DOMAIN jobs'
    BY SelectWrites
  <2> QED
    BY <2>1 DEF Shape, Idle
<1>2. FlowShape'
  BY <1>1, SelectWrites, ShapeKept DEF TypeInv
<1>3. TypeOK'
  <2>1. flow' \in [Flow -> FlowRow] /\ DOMAIN jobs' \subseteq Jobs /\ jobs' \in [DOMAIN jobs' -> JobRow]
    BY SelectWrites DEF TypeInv, TypeOK
  <2>2. slow' \in BOOLEAN
    BY DEF Select
  <2> QED
    BY <2>1, <2>2 DEF Select, TypeInv, TypeOK, FlowRow, After, deploymentVars, deviceVars
<1>4. started'
  BY SelectWrites DEF Select, TypeInv, deploymentVars
<1> QED
  BY <1>2, <1>3, <1>4 DEF TypeInv, Select, deviceVars

LEMMA TypeStop ==
  ASSUME TypeInv, NEW w \in Flow, Stop(w)
  PROVE  TypeInv'
<1>1. /\ flow' \in [Flow -> FlowRow] /\ \A v \in Flow \ {w} : flow'[v] = flow[v]
      /\ flow'[w] = IdleFlow
  BY FlowEnds DEF Stop, TypeInv
<1>2. Shape(w)'
  BY <1>1 DEF Shape, Idle, IdleFlow
<1>3. FlowShape'
  BY <1>1, <1>2, ShapeKept DEF TypeInv, Stop
<1>4. TypeOK'
  BY <1>1 DEF Stop, Fault, TypeInv, TypeOK, FlowRow, After, deploymentVars, deviceVars
<1> QED
  BY <1>3, <1>4 DEF TypeInv, Stop, deploymentVars, deviceVars, deviceVars

(* The steps of the devices and of time leave jobs and flows alone.        *)
LEMMA ShapeElsewhere ==
  ASSUME TypeInv, UNCHANGED <<started, jobs, flow>>
  PROVE  FlowShape' /\ (~started' => DOMAIN jobs' = {})
<1>1. ASSUME NEW w \in Flow PROVE Shape(w)'
  BY DEF TypeInv, FlowShape, Shape, Idle
<1> QED
  BY <1>1 DEF TypeInv, FlowShape

AnswerRow == [step : Steps \union {"none"}, ok : BOOLEAN, row : Row]

LEMMA AnsweredTyped ==
  ASSUME NEW r \in Row, NEW step \in Steps \union {"none"}, NEW ok \in BOOLEAN, step \in Steps \/ ~ok
  PROVE  /\ Answered(r, step, ok) \in Row
         /\ Answered(r, step, ok).completed = r.completed
         /\ Answered(r, step, ok).done = IF ok THEN r.done \union {step} ELSE r.done
         /\ r.error => Answered(r, step, ok).error
<1>1. CASE ok
  <2>1. Answered(r, step, ok) = [r EXCEPT !.done = r.done \union {step}]
    BY <1>1 DEF Answered
  <2> QED
    BY <1>1, <2>1 DEF Row
<1>2. CASE ~ok
  <2>1. Answered(r, step, ok) = [r EXCEPT !.error = TRUE]
    BY <1>2 DEF Answered
  <2> QED
    BY <1>2, <2>1 DEF Row
<1> QED
  BY <1>1, <1>2

LEMMA TypeAnswer ==
  ASSUME TypeInv, NEW d \in Device, NEW s \in Steps, Answer(d, s)
  PROVE  TypeInv'
<1>1. PICK ok \in Outcomes(d, s) :
        /\ reached' = [reached EXCEPT ![d] = IF ok THEN @ \union {s} ELSE @]
        /\ answer' = [answer EXCEPT ![d] = [step |-> s, ok |-> ok, row |-> row[d]]]
  BY DEF Answer
<1>2. ok \in BOOLEAN
  <2>1. CASE s \in {"McGroupSetup", "FragSessionSetup"}
    BY <2>1 DEF Outcomes
  <2>2. CASE s = "McSession"
    <3>1. Outcomes(d, s) = {"McGroupSetup" \in reached[d], FALSE}
      BY <2>2 DEF Outcomes
    <3>2. ("McGroupSetup" \in reached[d]) \in BOOLEAN
      OBVIOUS
    <3> QED
      BY <1>1, <3>1, <3>2, Zenon
  <2>3. CASE s = "FragStatus"
    BY <2>3 DEF Outcomes, Image
  <2> QED
    BY <2>1, <2>2, <2>3 DEF Steps
<1>3. answer' \in [Device -> AnswerRow]
  BY <1>1, <1>2 DEF TypeInv, TypeOK, AnswerRow
<1>4. reached' \in [Device -> SUBSET Steps] /\ requests' \in [Device -> SUBSET Steps]
  BY <1>1 DEF TypeInv, TypeOK, Answer
<1>5. TypeOK'
  BY <1>3, <1>4 DEF Answer, TypeInv, TypeOK, AnswerRow, deploymentVars, historyVars
<1>6. \A e \in Device : answer'[e].ok => answer'[e].step # "none"
  BY <1>1 DEF Steps, TypeInv, TypeOK
<1> QED
  BY <1>5, <1>6, ShapeElsewhere DEF TypeInv, Answer, deploymentVars

LEMMA TypeStaleAnswer ==
  ASSUME TypeInv, NEW d \in Device, NEW s \in Steps, StaleAnswer(d, s)
  PROVE  TypeInv'
<1>1. answer' \in [Device -> AnswerRow]
  BY DEF StaleAnswer, TypeInv, TypeOK, AnswerRow
<1>2. TypeOK'
  BY <1>1 DEF StaleAnswer, TypeInv, TypeOK, AnswerRow, deploymentVars
<1>3. \A e \in Device : answer'[e].ok => answer'[e].step # "none"
  BY DEF StaleAnswer, Steps, TypeInv, TypeOK
<1> QED
  BY <1>2, <1>3, ShapeElsewhere DEF TypeInv, StaleAnswer, deploymentVars

LEMMA StoreAnswerWrites ==
  ASSUME TypeInv, NEW d \in Device, StoreAnswer(d)
  PROVE  /\ answer[d] \in AnswerRow
         /\ row' \in [Device -> Row] /\ answer' \in [Device -> AnswerRow]
         /\ \A e \in Device \ {d} : row'[e] = row[e] /\ answer'[e] = answer[e]
         /\ answer'[d] = NoAnswer
         /\ row'[d].completed = answer[d].row.completed
         /\ row'[d].done = IF answer[d].ok THEN answer[d].row.done \union {answer[d].step}
                                           ELSE answer[d].row.done
         /\ answer[d].row.error => row'[d].error
         /\ lost' = (lost \/ answer[d].row # row[d])
<1>1. answer \in [Device -> AnswerRow] /\ answer[d] \in AnswerRow
  BY DEF TypeInv, TypeOK, AnswerRow
<1>2. answer[d].row \in Row /\ answer[d].step \in Steps \union {"none"} /\ answer[d].ok \in BOOLEAN
  BY <1>1 DEF AnswerRow
<1>3. answer[d].step \in Steps \/ ~answer[d].ok
  BY <1>2 DEF TypeInv
<1> DEFINE r == Answered(answer[d].row, answer[d].step, answer[d].ok)
<1>4. /\ r \in Row /\ r.completed = answer[d].row.completed
      /\ r.done = IF answer[d].ok THEN answer[d].row.done \union {answer[d].step}
                                  ELSE answer[d].row.done
      /\ answer[d].row.error => r.error
  <2> DEFINE old == answer[d].row
             step == answer[d].step
             ok == answer[d].ok
  <2>1. old \in Row /\ step \in Steps \union {"none"} /\ ok \in BOOLEAN /\ (step \in Steps \/ ~ok)
    BY <1>2, <1>3
  <2> HIDE DEF old, step, ok
  <2>2. /\ Answered(old, step, ok) \in Row
        /\ Answered(old, step, ok).completed = old.completed
        /\ Answered(old, step, ok).done = IF ok THEN old.done \union {step} ELSE old.done
        /\ old.error => Answered(old, step, ok).error
    BY <2>1, AnsweredTyped
  <2> QED
    BY <2>2 DEF old, step, ok
<1>5. /\ row' = [row EXCEPT ![d] = r] /\ answer' = [answer EXCEPT ![d] = NoAnswer]
      /\ lost' = (lost \/ answer[d].row # row[d])
  BY DEF StoreAnswer
<1> HIDE DEF r
<1>6. NoAnswer \in AnswerRow
  BY DEF NoAnswer, AnswerRow, Row
<1>7. row \in [Device -> Row]
  BY DEF TypeInv, TypeOK
<1>8. /\ row' \in [Device -> Row] /\ row'[d] = r
      /\ \A e \in Device \ {d} : row'[e] = row[e]
  BY <1>4, <1>5, <1>7
<1>9. /\ answer' \in [Device -> AnswerRow] /\ answer'[d] = NoAnswer
      /\ \A e \in Device \ {d} : answer'[e] = answer[e]
  BY <1>1, <1>5, <1>6
<1> QED
  BY <1>1, <1>4, <1>5, <1>8, <1>9

LEMMA TypeStoreAnswer ==
  ASSUME TypeInv, NEW d \in Device, StoreAnswer(d)
  PROVE  TypeInv'
<1>1. row' \in [Device -> Row] /\ answer' \in [Device -> AnswerRow]
  BY StoreAnswerWrites
<1>2. lost' \in BOOLEAN
  BY DEF StoreAnswer
<1>3. TypeOK'
  BY <1>1, <1>2 DEF StoreAnswer, TypeInv, TypeOK, AnswerRow, deploymentVars
<1>4. ASSUME NEW e \in Device PROVE answer'[e].ok => answer'[e].step # "none"
  <2>1. CASE e = d
    <3>1. answer'[e] = NoAnswer
      BY <2>1, StoreAnswerWrites
    <3>2. NoAnswer.ok = FALSE
      BY DEF NoAnswer
    <3> QED
      BY <3>1, <3>2, Zenon
  <2>2. CASE e # d
    <3>1. answer'[e] = answer[e]
      BY <2>2, StoreAnswerWrites
    <3> QED
      BY <3>1 DEF TypeInv
  <2> QED
    BY <2>1, <2>2
<1> QED
  BY <1>3, <1>4, ShapeElsewhere DEF TypeInv, StoreAnswer, deploymentVars

LEMMA TypeBroadcast ==
  ASSUME TypeInv, NEW n \in Fragment, Broadcast(n)
  PROVE  TypeInv' /\ \A d \in Device : got[d] \subseteq got'[d]
<1>1. PICK receivers \in SUBSET {d \in Device : {"FragSessionSetup", "McSession"} \subseteq reached[d]
                                                /\ session = "running"} :
        got' = [d \in Device |-> IF d \in receivers THEN got[d] \union {n} ELSE got[d]]
  BY DEF Broadcast
<1>2. got' \in [Device -> SUBSET Fragment] /\ \A d \in Device : got[d] \subseteq got'[d]
  BY <1>1 DEF TypeInv, TypeOK
<1>3. queue' \subseteq Fragment
  BY DEF Broadcast, TypeInv, TypeOK
<1>4. TypeOK'
  BY <1>2, <1>3 DEF Broadcast, TypeInv, TypeOK, deploymentVars, historyVars
<1> QED
  BY <1>2, <1>4, ShapeElsewhere DEF TypeInv, Broadcast, deploymentVars

LEMMA TypeSession ==
  ASSUME TypeInv, SessionStarts \/ SessionEnds
  PROVE  TypeInv'
<1>1. session' \in {"unset", "ahead", "running", "over"}
  BY DEF SessionStarts, SessionEnds
<1>2. TypeOK'
  BY <1>1 DEF SessionStarts, SessionEnds, TypeInv, TypeOK, deviceVars, historyVars
<1> QED
  BY <1>2, ShapeElsewhere DEF TypeInv, SessionStarts, SessionEnds, deviceVars

LEMMA TypeStutter ==
  ASSUME TypeInv, UNCHANGED vars
  PROVE  TypeInv'
<1>1. TypeOK'
  BY DEF TypeInv, TypeOK, vars, deploymentVars, deviceVars, historyVars
<1> QED
  BY <1>1, ShapeElsewhere DEF TypeInv, vars, deploymentVars, deviceVars

LEMMA TypeNext == TypeInv /\ [Next]_vars => TypeInv'
<1> SUFFICES ASSUME TypeInv, [Next]_vars PROVE TypeInv'
  OBVIOUS
<1>1. CASE Start
  BY <1>1, TypeStart
<1>2. CASE SessionStarts \/ SessionEnds
  BY <1>2, TypeSession
<1>3. ASSUME NEW w \in Flow, FlowStep(w) PROVE TypeInv'
  BY <1>3, TypeSetupGroup, TypeUnicast, TypeEnqueue, TypeEnqueueFragment, TypeDeleteMcGroup,
     TypeComplete, TypeCompleteDeployment, TypeUpdateJob, TypeCreateJob, TypeAskDevice DEF FlowStep
<1>4. ASSUME NEW w \in Flow, FailBody(w) \/ Stop(w) \/ \E j \in Jobs : Select(w, j) PROVE TypeInv'
  BY <1>4, TypeFailBody, TypeStop, TypeSelect
<1>5. ASSUME NEW d \in Device, StoreAnswer(d) \/ \E s \in Steps : Answer(d, s) \/ StaleAnswer(d, s)
      PROVE  TypeInv'
  BY <1>5, TypeStoreAnswer, TypeAnswer, TypeStaleAnswer
<1>6. ASSUME NEW n \in Fragment, Broadcast(n) PROVE TypeInv'
  BY <1>6, TypeBroadcast
<1>7. CASE UNCHANGED vars
  BY <1>7, TypeStutter
<1> QED
  BY <1>1, <1>2, <1>3, <1>4, <1>5, <1>6, <1>7 DEF Next

(* Every variable has its type; in particular a flow that asks devices has *)
(* a job that does so, one that enqueues fragments has some left, and no   *)
(* job is there before the deployment has started.                         *)
THEOREM TypeCorrect == Spec => []TypeInv
<1>1. Init => TypeInv
  BY TypeInit
<1>2. TypeInv /\ [Next]_vars => TypeInv'
  BY TypeNext
<1> QED
  BY <1>1, <1>2, PTL DEF Spec

-----------------------------------------------------------------------------
(* One open job.  While no flow has taken longer than its lock, one flow   *)
(* runs at most, and its job is the one that is open; between two flows    *)
(* that job may be anyone's.                                               *)

OneFlow ==
  ~slow =>
    /\ \A i, j \in Open : i = j
    /\ \A v, w \in Flow : ~Idle(v) /\ ~Idle(w) => v = w
    /\ \A w \in Flow : ~Idle(w) => flow[w].job \in Open /\ jobs[flow[w].job].due = "locked"

LEMMA OneFlowElsewhere ==
  ASSUME OneFlow, UNCHANGED <<jobs, flow, slow>>
  PROVE  OneFlow'
  BY DEF OneFlow, Open, Idle

LEMMA OneFlowStart ==
  ASSUME TypeInv, OneFlow, Start
  PROVE  OneFlow'
<1>1. DOMAIN jobs = {} /\ flow' = flow /\ slow' = slow
  BY DEF Start, TypeInv, historyVars
<1>2. \A w \in Flow : Idle(w)'
  BY <1>1 DEF TypeInv, FlowShape, Shape, Idle
<1>3. \A i, j \in Open' : i = j
  <2>1. CASE jobs' = [j \in {"CreateMcGroup"} |-> NewJob("any")]
    <3>1. DOMAIN jobs' = {"CreateMcGroup"}
      BY <2>1
    <3> QED
      BY <3>1 DEF Open
  <2>2. CASE jobs' = jobs
    BY <1>1, <2>2 DEF Open
  <2> QED
    BY <2>1, <2>2 DEF Start
<1> QED
  BY <1>2, <1>3 DEF OneFlow

LEMMA OneFlowWorks ==
  ASSUME OneFlow, NEW w \in Flow, Works(w), slow' = slow
  PROVE  OneFlow'
<1>1. Open' = Open /\ jobs' = jobs
  BY DEF Works, Open
<1>2. ~Idle(w) /\ flow'[w].job = flow[w].job
  BY DEF Works, Working, Idle
<1>3. \A v \in Flow \ {w} : flow'[v] = flow[v]
  BY DEF Works
<1>4. \A v \in Flow : ~Idle(v)' => ~Idle(v) /\ flow'[v].job = flow[v].job
  BY <1>2, <1>3 DEF Idle
<1> QED
  BY <1>1, <1>4 DEF OneFlow

LEMMA OneFlowSelect ==
  ASSUME TypeInv, OneFlow, NEW w \in Flow, NEW j \in Jobs, Select(w, j)
  PROVE  OneFlow'
<1> SUFFICES ASSUME ~slow' PROVE OneFlow'
  BY DEF OneFlow
<1>1. ~slow /\ RunsOn(j) = {}
  BY DEF Select
<1>2. /\ Idle(w) /\ j \in DOMAIN jobs /\ jobs[j].open /\ flow'[w].job = j
      /\ \A v \in Flow \ {w} : flow'[v] = flow[v]
      /\ DOMAIN jobs' = DOMAIN jobs /\ \A i \in DOMAIN jobs : jobs'[i].open = jobs[i].open
      /\ jobs'[j].due = "locked"
  BY SelectWrites
<1>3. j \in Open /\ Open' = Open
  BY <1>2 DEF Open
<1>4. \A v \in Flow : Idle(v)
  <2> SUFFICES ASSUME NEW v \in Flow, ~Idle(v) PROVE FALSE
    OBVIOUS
  <2>1. flow[v].job = j
    BY <1>1, <1>3 DEF OneFlow
  <2> QED
    BY <1>1, <2>1 DEF RunsOn
<1>5. \A v \in Flow \ {w} : Idle(v)'
  BY <1>2, <1>4 DEF Idle
<1> QED
  BY <1>1, <1>2, <1>3, <1>5 DEF OneFlow

LEMMA OneFlowUpdate ==
  ASSUME TypeInv, OneFlow, NEW w \in Flow, UpdateJob(w)
  PROVE  OneFlow'
<1> SUFFICES ASSUME ~slow' PROVE OneFlow'
  BY DEF OneFlow
<1>1. ~slow /\ ~Idle(w)
  BY DEF UpdateJob, historyVars, Idle
<1> DEFINE j == flow[w].job
<1>2. j \in Open /\ \A i \in Open : i = j
  BY <1>1 DEF OneFlow
<1>3. \A v \in Flow \ {w} : Idle(v)'
  BY <1>1, UpdateJobWrites DEF OneFlow, Idle
<1>4. Open' \subseteq {j}
  <2> SUFFICES ASSUME NEW i \in Open', i # j PROVE FALSE
    OBVIOUS
  <2>1. i \in DOMAIN jobs \ {j} /\ jobs'[i].open
    BY UpdateJobWrites DEF Open
  <2>2. jobs'[i] = jobs[i]
    BY <2>1, UpdateJobWrites
  <2> QED
    BY <1>2, <2>1, <2>2 DEF Open
<1>5. CASE Closes(w)
  <2>1. flow'[w] = IdleFlow
    BY <1>5, UpdateJobWrites
  <2>2. Idle(w)'
    BY <2>1 DEF Idle, IdleFlow
  <2> QED
    BY <1>3, <1>4, <2>2 DEF OneFlow
<1>6. CASE ~Closes(w)
  <2>1. /\ flow'[w].job = j /\ jobs'[j].open = (flow[w].next # "none")
        /\ jobs'[j].due = IF flow[w].next \in {"error", j} THEN "any" ELSE "locked"
        /\ j \in DOMAIN jobs'
    BY <1>6, UpdateJobWrites
  <2>2. jobs'[j].open /\ jobs'[j].due = "locked"
    BY <1>6, <2>1 DEF Closes
  <2>3. j \in Open'
    BY <2>1, <2>2 DEF Open
  <2> QED
    BY <1>3, <1>4, <2>1, <2>2, <2>3 DEF OneFlow
<1> QED
  BY <1>5, <1>6

LEMMA OneFlowCreate ==
  ASSUME TypeInv, OneFlow, NEW w \in Flow, CreateJob(w)
  PROVE  OneFlow'
<1> SUFFICES ASSUME ~slow' PROVE OneFlow'
  BY DEF OneFlow
<1>1. ~slow /\ ~Idle(w)
  BY DEF CreateJob, historyVars, Idle
<1>2. flow'[w] = IdleFlow /\ \A v \in Flow \ {w} : flow'[v] = flow[v]
  BY CreateJobWrites
<1>3. \A v \in Flow : Idle(v)'
  BY <1>1, <1>2 DEF OneFlow, Idle, IdleFlow
<1>4. CASE flow[w].next \in DOMAIN jobs
  <2>1. Open' = Open
    BY <1>4, CreateJobWrites DEF Open
  <2> QED
    BY <1>1, <1>3, <2>1 DEF OneFlow
<1>5. CASE flow[w].next \notin DOMAIN jobs
  <2>1. Open' \subseteq {flow[w].next}
    BY <1>5, CreateJobWrites DEF Open
  <2> QED
    BY <1>3, <2>1 DEF OneFlow
<1> QED
  BY <1>4, <1>5

LEMMA OneFlowStop ==
  ASSUME TypeInv, OneFlow, NEW w \in Flow, Stop(w)
  PROVE  OneFlow'
<1>1. flow'[w] = IdleFlow /\ \A v \in Flow \ {w} : flow'[v] = flow[v]
  BY FlowEnds DEF Stop, TypeInv
<1>2. jobs' = jobs /\ slow' = slow /\ Open' = Open
  BY DEF Stop, Open
<1>3. \A v \in Flow : ~Idle(v)' => ~Idle(v) /\ flow'[v] = flow[v]
  BY <1>1 DEF Idle, IdleFlow
<1> QED
  BY <1>2, <1>3 DEF OneFlow

(* The steps within a job, and those that touch no job and no flow.        *)
WorkStep(w) ==
  \/ SetupGroup(w) \/ Unicast(w) \/ Enqueue(w) \/ EnqueueFragment(w) \/ DeleteMcGroup(w)
  \/ Complete(w) \/ CompleteDeployment(w) \/ FailBody(w)
  \/ \E d \in Device : AskDevice(w, d)
OtherStep ==
  \/ SessionStarts \/ SessionEnds \/ UNCHANGED vars
  \/ \E d \in Device : StoreAnswer(d) \/ \E s \in Steps : Answer(d, s) \/ StaleAnswer(d, s)
  \/ \E n \in Fragment : Broadcast(n)

LEMMA StepKinds ==
  ASSUME [Next]_vars
  PROVE  \/ Start \/ OtherStep
         \/ \E w \in Flow : \/ WorkStep(w) \/ UpdateJob(w) \/ CreateJob(w) \/ Stop(w)
                            \/ \E j \in Jobs : Select(w, j)
  BY DEF Next, FlowStep, WorkStep, OtherStep

LEMMA WorkStepWorks ==
  ASSUME TypeInv, NEW w \in Flow, WorkStep(w)
  PROVE  Works(w) /\ slow' = slow /\ stopped' = stopped
<1>1. Works(w)
  BY SetupGroupWorks, UnicastWorks, EnqueueWorks, EnqueueFragmentWorks, DeleteMcGroupWorks,
     CompleteWorks, CompleteDeploymentWorks, FailBodyWorks, AskDeviceWorks DEF WorkStep, TypeInv
<1>2. slow' = slow /\ stopped' = stopped
  BY DEF WorkStep, SetupGroup, Unicast, Enqueue, EnqueueFragment, DeleteMcGroup, Complete, CompleteDeployment, FailBody,
         AskDevice, historyVars
<1> QED
  BY <1>1, <1>2

LEMMA OtherStepWrites ==
  ASSUME OtherStep
  PROVE  UNCHANGED <<started, jobs, flow, copies, slow, stopped>>
  BY DEF OtherStep, SessionStarts, SessionEnds, vars, StoreAnswer, Answer, StaleAnswer, Broadcast,
         deploymentVars, historyVars

LEMMA OneFlowNext == TypeInv /\ OneFlow /\ [Next]_vars => OneFlow'
<1> SUFFICES ASSUME TypeInv, OneFlow, [Next]_vars PROVE OneFlow'
  OBVIOUS
<1>1. CASE Start
  BY <1>1, OneFlowStart
<1>2. CASE OtherStep
  BY <1>2, OtherStepWrites, OneFlowElsewhere
<1>3. ASSUME NEW w \in Flow, WorkStep(w) PROVE OneFlow'
  BY <1>3, WorkStepWorks, OneFlowWorks
<1>4. ASSUME NEW w \in Flow, UpdateJob(w) \/ CreateJob(w) \/ Stop(w) PROVE OneFlow'
  BY <1>4, OneFlowUpdate, OneFlowCreate, OneFlowStop
<1>5. ASSUME NEW w \in Flow, NEW j \in Jobs, Select(w, j) PROVE OneFlow'
  BY <1>5, OneFlowSelect
<1> QED
  BY <1>1, <1>2, <1>3, <1>4, <1>5, StepKinds

LEMMA OneFlowInit == Init => OneFlow
<1> SUFFICES ASSUME Init PROVE OneFlow
  OBVIOUS
<1>1. \A w \in Flow : Idle(w)
  BY DEF Init, Idle, IdleFlow
<1>2. Open = {}
  BY DEF Init, Open
<1> QED
  BY <1>1, <1>2 DEF OneFlow

(* A deployment has one job that is not completed, unless a flow took      *)
(* longer than the lock of its job.                                        *)
THEOREM OneJobAtATime == Spec => []OneOpenJob
<1>1. TypeInv /\ OneFlow => OneOpenJob
  <2> SUFFICES ASSUME OneFlow, ~slow PROVE Cardinality(Open) <= 1
    BY DEF OneOpenJob
  <2>1. CASE Open = {}
    BY <2>1, FS_EmptySet
  <2>2. CASE Open # {}
    <3>1. PICK j \in Open : TRUE
      BY <2>2
    <3>2. Open = {j}
      BY <3>1 DEF OneFlow
    <3>3. Cardinality({j}) = 1
      BY FS_Singleton
    <3> QED
      BY <3>2, <3>3
  <2> QED
    BY <2>1, <2>2
<1>2. Init => OneFlow
  BY OneFlowInit
<1>3. TypeInv /\ OneFlow /\ [Next]_vars => OneFlow'
  BY OneFlowNext
<1> QED
  BY <1>1, <1>2, <1>3, TypeCorrect, PTL DEF Spec

-----------------------------------------------------------------------------
(* No fragment twice.  Before the job of Enqueue has been tried, nothing   *)
(* is enqueued; once it has, its attempt is in the flow or in its row, and *)
(* a second one is beyond the maximum.                                     *)

Untouched == \A n \in Fragment : copies[n] = 0
EnqueueInv ==
  ~slow /\ ~stopped =>
    /\ \A n \in Fragment : copies[n] <= 1
    /\ "Enqueue" \notin DOMAIN jobs => Untouched
    /\ "Enqueue" \in DOMAIN jobs /\ jobs["Enqueue"].attempts = 0
         => Untouched \/ \E w \in RunsOn("Enqueue") : flow[w].pc \notin {"body", "create"}
    /\ \A w \in RunsOn("Enqueue") :
         IF flow[w].pc = "body" THEN flow[w].attempts = 0 => Untouched ELSE flow[w].attempts > 0
    /\ \A w \in Flow : flow[w].pc = "fragments" => \A n \in flow[w].todo : copies[n] = 0

LEMMA EnqueueElsewhere ==
  ASSUME EnqueueInv, UNCHANGED <<jobs, flow, slow, stopped, copies>>
  PROVE  EnqueueInv'
  BY DEF EnqueueInv, Untouched, RunsOn, Idle

LEMMA EnqueueStart ==
  ASSUME TypeInv, EnqueueInv, Start
  PROVE  EnqueueInv'
<1>1. DOMAIN jobs = {} /\ UNCHANGED <<flow, slow, stopped, copies>>
  BY DEF Start, TypeInv, historyVars
<1>2. RunsOn("Enqueue") = {} /\ \A w \in Flow : flow[w].pc = "idle"
  BY <1>1 DEF TypeInv, FlowShape, Shape, Idle, RunsOn
<1>3. "Enqueue" \notin DOMAIN jobs'
  <2>1. DOMAIN jobs' = {"CreateMcGroup"} \/ DOMAIN jobs' = {}
    BY <1>1 DEF Start
  <2> QED
    BY <2>1
<1>4. RunsOn("Enqueue")' = {}
  BY <1>1, <1>2 DEF RunsOn, Idle
<1> QED
  BY <1>1, <1>2, <1>3, <1>4 DEF EnqueueInv, Untouched

(* Only EnqueueFragment enqueues, a fragment it still has to.              *)
LEMMA WorkStepCopies ==
  ASSUME TypeInv, NEW w \in Flow, WorkStep(w)
  PROVE  \/ copies' = copies
         \/ /\ flow[w].pc = "fragments"
            /\ \E n \in flow[w].todo :
                 /\ copies' = [copies EXCEPT ![n] = @ + 1]
                 /\ flow'[w].pc = "update" \/ flow'[w].todo = flow[w].todo \ {n}
<1>1. CASE EnqueueFragment(w)
  BY <1>1, EnqueueFragmentWorks DEF EnqueueFragment
<1>2. CASE ~EnqueueFragment(w)
  BY <1>2 DEF WorkStep, SetupGroup, Unicast, Enqueue, DeleteMcGroup, Complete, CompleteDeployment, FailBody,
              AskDevice, historyVars
<1> QED
  BY <1>1, <1>2

LEMMA EnqueueWork ==
  ASSUME TypeInv, OneFlow, EnqueueInv, NEW w \in Flow, WorkStep(w)
  PROVE  EnqueueInv'
<1> SUFFICES ASSUME ~slow', ~stopped' PROVE EnqueueInv'
  BY DEF EnqueueInv
<1>1. ~slow /\ ~stopped /\ Works(w) /\ flow[w] \in FlowRow
  BY WorkStepWorks, FlowTyped DEF TypeInv
<1>2. ~Idle(w) /\ flow'[w].job = flow[w].job /\ jobs' = jobs
  BY <1>1 DEF Works, Working, Idle
<1>3. \A v \in Flow \ {w} : Idle(v) /\ Idle(v)'
  BY <1>1, <1>2 DEF OneFlow, Works, Idle
<1>4. flow'[w].pc \in {"devices", "fragments", "close", "update"} /\ ~Idle(w)'
  BY <1>1 DEF Works, Idle
<1>5. CASE flow[w].job # "Enqueue"
  <2>1. flow[w].pc # "fragments" /\ flow'[w].pc # "fragments"
    BY <1>1, <1>5 DEF Works, TypeInv, FlowShape, Shape
  <2>2. copies' = copies
    BY <2>1, WorkStepCopies
  <2>3. RunsOn("Enqueue") = {} /\ RunsOn("Enqueue")' = {}
    BY <1>2, <1>3, <1>5 DEF RunsOn
  <2>4. \A v \in Flow : flow'[v].pc # "fragments"
    BY <1>3, <2>1 DEF Idle
  <2> QED
    BY <1>1, <1>2, <2>2, <2>3, <2>4 DEF EnqueueInv, Untouched
<1>6. CASE flow[w].job = "Enqueue"
  <2>1. w \in RunsOn("Enqueue") /\ RunsOn("Enqueue") = {w} /\ RunsOn("Enqueue")' = {w}
    BY <1>2, <1>3, <1>4, <1>6 DEF RunsOn
  <2>2. flow'[w].attempts > 0
    <3>1. CASE flow[w].pc = "body"
      BY <1>1, <3>1, AttemptsTyped DEF Works, TypeInv
    <3>2. CASE flow[w].pc # "body"
      BY <1>1, <2>1, <3>2 DEF Works, EnqueueInv
    <3> QED
      BY <3>1, <3>2
  <2>3. /\ \A n \in Fragment : copies'[n] <= 1
        /\ flow'[w].pc = "fragments" => \A n \in flow'[w].todo : copies'[n] = 0
    <3>1. CASE copies' = copies
      <4>1. ASSUME flow'[w].pc = "fragments", NEW n \in flow'[w].todo PROVE copies[n] = 0
        <5>1. n \in Fragment
          BY <1>1, <4>1 DEF Works
        <5>2. CASE flow[w].pc = "body"
          <6>1. flow[w].attempts = 0
            BY <1>1, <4>1, <5>2 DEF Works
          <6> QED
            BY <1>1, <2>1, <5>1, <5>2, <6>1 DEF EnqueueInv, Untouched
        <5>3. CASE flow[w].pc # "body"
          <6>1. flow[w].pc = "fragments"
            BY <1>1, <1>6, <5>3, <4>1 DEF Works, Working, TypeInv, FlowShape, Shape, Steps
          <6>2. n \in flow[w].todo
            BY <1>1, <4>1, <5>3 DEF Works
          <6> QED
            BY <1>1, <6>1, <6>2 DEF EnqueueInv
        <5> QED
          BY <5>2, <5>3
      <4> QED
        BY <1>1, <3>1, <4>1 DEF EnqueueInv
    <3>2. ASSUME NEW n \in flow[w].todo, flow[w].pc = "fragments",
                 copies' = [copies EXCEPT ![n] = @ + 1],
                 flow'[w].pc = "update" \/ flow'[w].todo = flow[w].todo \ {n}
          PROVE  /\ \A m \in Fragment : copies'[m] <= 1
                 /\ flow'[w].pc = "fragments" => \A m \in flow'[w].todo : copies'[m] = 0
      <4>1. flow[w].todo \subseteq Fragment /\ copies \in [Fragment -> Nat]
        BY <3>2 DEF TypeInv, TypeOK, FlowShape, Shape
      <4>2. copies[n] = 0 /\ \A m \in flow[w].todo : copies[m] = 0
        BY <1>1, <3>2 DEF EnqueueInv
      <4>3. ASSUME NEW m \in Fragment PROVE copies'[m] <= 1
        BY <1>1, <3>2, <4>1, <4>2, <4>3 DEF EnqueueInv
      <4>4. ASSUME flow'[w].pc = "fragments", NEW m \in flow'[w].todo PROVE copies'[m] = 0
        BY <3>2, <4>1, <4>2, <4>4
      <4> QED
        BY <4>3, <4>4
    <3> QED
      BY <3>1, <3>2, WorkStepCopies
  <2>4. "Enqueue" \in DOMAIN jobs
    BY <1>2, <1>6 DEF TypeInv, FlowShape, Shape
  <2>5. \A v \in Flow \ {w} : flow'[v].pc # "fragments"
    BY <1>3 DEF Idle
  <2>6. flow'[w].pc \notin {"body", "create"}
    BY <1>4
  <2> QED
    BY <1>2, <2>1, <2>2, <2>3, <2>4, <2>5, <2>6 DEF EnqueueInv
<1> QED
  BY <1>5, <1>6

LEMMA EnqueueUpdate ==
  ASSUME TypeInv, OneFlow, EnqueueInv, NEW w \in Flow, UpdateJob(w)
  PROVE  EnqueueInv'
<1> SUFFICES ASSUME ~slow', ~stopped' PROVE EnqueueInv'
  BY DEF EnqueueInv
<1>1. ~slow /\ ~stopped /\ copies' = copies /\ flow[w].pc = "update" /\ ~Idle(w)
  BY DEF UpdateJob, historyVars, Idle
<1>2. \A v \in Flow \ {w} : Idle(v) /\ Idle(v)'
  BY <1>1, UpdateJobWrites DEF OneFlow, Idle
<1>3. flow'[w].pc \in {"idle", "create"}
  BY UpdateJobWrites DEF IdleFlow
<1>4. \A v \in Flow : flow'[v].pc # "fragments"
  BY <1>2, <1>3 DEF Idle
<1>5. CASE flow[w].job = "Enqueue"
  <2>1. w \in RunsOn("Enqueue")
    BY <1>1, <1>5 DEF RunsOn
  <2>2. flow[w].attempts > 0
    BY <1>1, <2>1 DEF EnqueueInv
  <2>3. "Enqueue" \in DOMAIN jobs' /\ jobs'["Enqueue"].attempts = flow[w].attempts
    BY <1>5, UpdateJobWrites
  <2>4. ASSUME NEW v \in RunsOn("Enqueue")' PROVE flow'[v].pc # "body" /\ flow'[v].attempts > 0
    <3>1. v = w /\ flow'[w].pc = "create"
      BY <1>2, <1>3, <2>4 DEF RunsOn, Idle
    <3>2. ~Closes(w)
      BY <3>1, UpdateJobWrites DEF IdleFlow
    <3>3. flow'[w].attempts = flow[w].attempts
      BY <3>2, UpdateJobWrites
    <3> QED
      BY <2>2, <3>1, <3>3
  <2>5. jobs'["Enqueue"].attempts # 0
    BY <2>2, <2>3 DEF TypeInv, TypeOK
  <2> QED
    BY <1>1, <1>4, <2>3, <2>4, <2>5 DEF EnqueueInv
<1>6. CASE flow[w].job # "Enqueue"
  <2>1. RunsOn("Enqueue") = {}
    BY <1>2, <1>6 DEF RunsOn
  <2>2. RunsOn("Enqueue")' = {}
    <3>1. ~Idle(w)' => flow'[w].job = flow[w].job
      BY UpdateJobWrites DEF IdleFlow, Idle
    <3> QED
      BY <1>2, <1>6, <3>1 DEF RunsOn
  <2>3. ("Enqueue" \in DOMAIN jobs') = ("Enqueue" \in DOMAIN jobs)
    BY UpdateJobWrites
  <2>4. "Enqueue" \in DOMAIN jobs => jobs'["Enqueue"] = jobs["Enqueue"]
    BY <1>6, UpdateJobWrites
  <2> QED
    BY <1>1, <1>4, <2>1, <2>2, <2>3, <2>4 DEF EnqueueInv, Untouched
<1> QED
  BY <1>5, <1>6

LEMMA EnqueueCreate ==
  ASSUME TypeInv, OneFlow, EnqueueInv, NEW w \in Flow, CreateJob(w)
  PROVE  EnqueueInv'
<1> SUFFICES ASSUME ~slow', ~stopped' PROVE EnqueueInv'
  BY DEF EnqueueInv
<1>1. ~slow /\ ~stopped /\ copies' = copies /\ ~Idle(w) /\ flow[w].pc = "create"
  BY DEF CreateJob, historyVars, Idle
<1>2. flow'[w] = IdleFlow /\ \A v \in Flow \ {w} : flow'[v] = flow[v]
  BY CreateJobWrites
<1>3. \A v \in Flow : flow'[v].pc = "idle"
  BY <1>1, <1>2 DEF OneFlow, Idle, IdleFlow
<1>4. RunsOn("Enqueue")' = {}
  BY <1>3 DEF RunsOn, Idle
<1>5. ASSUME Untouched PROVE EnqueueInv'
  <2>1. Untouched' /\ \A n \in Fragment : copies'[n] <= 1
    BY <1>1, <1>5 DEF Untouched
  <2> QED
    BY <1>3, <1>4, <2>1 DEF EnqueueInv
<1>6. ASSUME ~Untouched PROVE EnqueueInv'
  <2>1. "Enqueue" \in DOMAIN jobs
    BY <1>1, <1>6 DEF EnqueueInv
  <2>2. jobs["Enqueue"].attempts # 0
    <3> SUFFICES ASSUME jobs["Enqueue"].attempts = 0 PROVE FALSE
      OBVIOUS
    <3>1. PICK v \in RunsOn("Enqueue") : flow[v].pc \notin {"body", "create"}
      BY <1>1, <1>6, <2>1 DEF EnqueueInv
    <3>2. v = w
      BY <1>1, <3>1 DEF RunsOn, OneFlow
    <3> QED
      BY <1>1, <3>1, <3>2
  <2>3. "Enqueue" \in DOMAIN jobs' /\ jobs'["Enqueue"].attempts = jobs["Enqueue"].attempts
    BY <2>1, CreateJobWrites
  <2> QED
    BY <1>1, <1>3, <1>4, <2>2, <2>3 DEF EnqueueInv
<1> QED
  BY <1>5, <1>6

LEMMA EnqueueSelect ==
  ASSUME TypeInv, OneFlow, EnqueueInv, NEW w \in Flow, NEW j \in Jobs, Select(w, j)
  PROVE  EnqueueInv'
<1> SUFFICES ASSUME ~slow', ~stopped' PROVE EnqueueInv'
  BY DEF EnqueueInv
<1>1. ~slow /\ ~stopped /\ copies' = copies /\ RunsOn(j) = {}
  BY DEF Select
<1>2. /\ Idle(w) /\ j \in DOMAIN jobs /\ jobs[j].open
      /\ \A v \in Flow \ {w} : flow'[v] = flow[v]
      /\ flow'[w].pc = "body" /\ flow'[w].job = j /\ flow'[w].attempts = jobs[j].attempts
      /\ DOMAIN jobs' = DOMAIN jobs
      /\ \A i \in DOMAIN jobs : jobs'[i].attempts = jobs[i].attempts
  BY SelectWrites
<1>3. \A v \in Flow : Idle(v)
  <2> SUFFICES ASSUME NEW v \in Flow, ~Idle(v) PROVE FALSE
    OBVIOUS
  <2>1. j \in Open
    BY <1>2 DEF Open
  <2>2. flow[v].job = j
    BY <1>1, <2>1 DEF OneFlow
  <2> QED
    BY <1>1, <2>2 DEF RunsOn
<1>4. RunsOn("Enqueue") = {}
  BY <1>3 DEF RunsOn
<1>5. \A v \in RunsOn("Enqueue")' : v = w /\ j = "Enqueue"
  BY <1>2, <1>3 DEF RunsOn, Idle
<1>6. \A v \in Flow : flow'[v].pc # "fragments"
  BY <1>2, <1>3 DEF Idle
<1>7. "Enqueue" \in DOMAIN jobs /\ jobs["Enqueue"].attempts = 0 => Untouched
  BY <1>1, <1>4 DEF EnqueueInv
<1> QED
  BY <1>1, <1>2, <1>5, <1>6, <1>7 DEF EnqueueInv, Untouched

LEMMA EnqueueNext == TypeInv /\ OneFlow /\ EnqueueInv /\ [Next]_vars => EnqueueInv'
<1> SUFFICES ASSUME TypeInv, OneFlow, EnqueueInv, [Next]_vars PROVE EnqueueInv'
  OBVIOUS
<1>1. CASE Start
  BY <1>1, EnqueueStart
<1>2. CASE OtherStep
  BY <1>2, OtherStepWrites, EnqueueElsewhere
<1>3. ASSUME NEW w \in Flow, WorkStep(w) PROVE EnqueueInv'
  BY <1>3, EnqueueWork
<1>4. ASSUME NEW w \in Flow, UpdateJob(w) \/ CreateJob(w) PROVE EnqueueInv'
  BY <1>4, EnqueueUpdate, EnqueueCreate
<1>5. ASSUME NEW w \in Flow, Stop(w) PROVE EnqueueInv'
  BY <1>5 DEF Stop, EnqueueInv
<1>6. ASSUME NEW w \in Flow, NEW j \in Jobs, Select(w, j) PROVE EnqueueInv'
  BY <1>6, EnqueueSelect
<1> QED
  BY <1>1, <1>2, <1>3, <1>4, <1>5, <1>6, StepKinds

LEMMA EnqueueInit == Init => EnqueueInv
<1> SUFFICES ASSUME Init PROVE EnqueueInv
  OBVIOUS
<1>1. \A w \in Flow : flow[w].pc = "idle"
  BY DEF Init, IdleFlow
<1>2. DOMAIN jobs = {} /\ \A n \in Fragment : copies[n] = 0
  BY DEF Init
<1> QED
  BY <1>1, <1>2 DEF EnqueueInv, Untouched, RunsOn, Idle

(* No fragment is put into the queue of the group twice, unless the job of *)
(* Enqueue took too long or its server stopped.                            *)
THEOREM NoFragmentTwice == Spec => []FragmentsOnce
<1>1. EnqueueInv => FragmentsOnce
  BY DEF EnqueueInv, FragmentsOnce
<1>2. Init => OneFlow /\ EnqueueInv
  BY OneFlowInit, EnqueueInit
<1>3. TypeInv /\ OneFlow /\ EnqueueInv /\ [Next]_vars => OneFlow' /\ EnqueueInv'
  BY OneFlowNext, EnqueueNext
<1> QED
  BY <1>1, <1>2, <1>3, TypeCorrect, PTL DEF Spec

-----------------------------------------------------------------------------
(* Reported complete, has the image.  What a row says of the status holds  *)
(* for the copies of it that answers carry, too, and an answer to the      *)
(* status request says what the device has.                                *)

StatusIsKnown(d, r) ==
  /\ "FragStatus" \in r.done => Image(d)
  /\ r.completed /\ config.request # "NoRequest" => "FragStatus" \in r.done
ImageInv ==
  ~stale => \A d \in Device :
    /\ StatusIsKnown(d, row[d]) /\ StatusIsKnown(d, answer[d].row)
    /\ answer[d].step = "FragStatus" /\ answer[d].ok => Image(d)

LEMMA ImageInit == Init => ImageInv
<1> SUFFICES ASSUME Init, NEW d \in Device
    PROVE  /\ StatusIsKnown(d, row[d]) /\ StatusIsKnown(d, answer[d].row)
           /\ answer[d].step = "FragStatus" /\ answer[d].ok => Image(d)
  BY DEF ImageInv
<1>1. /\ row[d] = [done |-> {}, error |-> FALSE, completed |-> FALSE]
      /\ answer[d] = NoAnswer
  BY DEF Init
<1> QED
  BY <1>1 DEF StatusIsKnown, NoAnswer

(* What a step may do to the rows without touching the status.             *)
LEMMA ImageKept ==
  ASSUME ImageInv, config' = config, stale' = stale, answer' = answer,
         \A d \in Device : /\ Image(d) => Image(d)'
                           /\ row'[d].done = row[d].done
                           /\ row'[d].completed => row[d].completed \/ Needed \subseteq row[d].done
  PROVE  ImageInv'
<1> SUFFICES ASSUME ~stale, NEW d \in Device
    PROVE  /\ StatusIsKnown(d, row[d])' /\ StatusIsKnown(d, answer[d].row)'
           /\ answer[d].step = "FragStatus" /\ answer[d].ok => Image(d)'
  BY DEF ImageInv
<1>1. /\ StatusIsKnown(d, row[d]) /\ StatusIsKnown(d, answer[d].row)
      /\ answer[d].step = "FragStatus" /\ answer[d].ok => Image(d)
  BY DEF ImageInv
<1>2. config.request # "NoRequest" => "FragStatus" \in Needed
  BY DEF Needed, Steps
<1>3. StatusIsKnown(d, row[d])'
  BY <1>1, <1>2 DEF StatusIsKnown
<1>4. StatusIsKnown(d, answer[d].row)'
  BY <1>1 DEF StatusIsKnown
<1> QED
  BY <1>1, <1>3, <1>4

LEMMA ImageWork ==
  ASSUME TypeInv, ImageInv, NEW w \in Flow, WorkStep(w)
  PROVE  ImageInv'
<1>1. config' = config /\ stale' = stale /\ answer' = answer /\ got' = got
  BY DEF WorkStep, SetupGroup, Unicast, Enqueue, EnqueueFragment, DeleteMcGroup, Complete, CompleteDeployment, FailBody,
         AskDevice, deploymentVars, deviceVars, historyVars
<1>2. \A d \in Device : Image(d) => Image(d)'
  BY <1>1 DEF Image
<1>3. ASSUME NEW d \in Device
      PROVE  /\ row'[d].done = row[d].done
             /\ row'[d].completed => row[d].completed \/ Needed \subseteq row[d].done
  <2>1. CASE Complete(w)
    BY <2>1, CompleteWrites DEF TypeInv
  <2>2. CASE row' = row
    BY <2>2
  <2>3. ASSUME NEW step \in Steps, row' = TimedOut(step)
        PROVE  row'[d].done = row[d].done /\ row'[d].completed = row[d].completed
    BY <2>3, TimedOutTyped DEF TypeInv
  <2>4. CASE Unicast(w)
    <3>1. row' = row \/ \E step \in Steps : row' = TimedOut(step)
      BY <2>4 DEF Unicast
    <3> QED
      BY <2>2, <2>3, <3>1
  <2>5. CASE ~Complete(w) /\ ~Unicast(w)
    <3>1. row' = row
      BY <2>5 DEF WorkStep, SetupGroup, Enqueue, EnqueueFragment, DeleteMcGroup, CompleteDeployment, FailBody,
                  AskDevice, deviceVars
    <3> QED
      BY <3>1
  <2> QED
    BY <2>1, <2>4, <2>5
<1> QED
  BY <1>1, <1>2, <1>3, ImageKept

LEMMA ImageAnswer ==
  ASSUME TypeInv, ImageInv, NEW d \in Device, NEW s \in Steps, Answer(d, s)
  PROVE  ImageInv'
<1>1. PICK ok \in Outcomes(d, s) : answer' = [answer EXCEPT ![d] = [step |-> s, ok |-> ok, row |-> row[d]]]
  BY DEF Answer
<1>2. UNCHANGED <<config, row, got, stale>>
  BY DEF Answer, deploymentVars, historyVars
<1>3. s = "FragStatus" /\ ok => Image(d)
  BY <1>1 DEF Outcomes
<1>4. answer \in [Device -> AnswerRow]
  BY DEF TypeInv, TypeOK, AnswerRow
<1> SUFFICES ASSUME ~stale, NEW e \in Device
    PROVE  /\ StatusIsKnown(e, row[e])' /\ StatusIsKnown(e, answer[e].row)'
           /\ answer'[e].step = "FragStatus" /\ answer'[e].ok => Image(e)'
  BY <1>2 DEF ImageInv
<1>5. /\ StatusIsKnown(e, row[e]) /\ StatusIsKnown(e, answer[e].row)
      /\ answer[e].step = "FragStatus" /\ answer[e].ok => Image(e)
  BY DEF ImageInv
<1>6. Image(e)' = Image(e)
  BY <1>2 DEF Image
<1>7. StatusIsKnown(e, row[e])'
  BY <1>2, <1>5, <1>6 DEF StatusIsKnown
<1>8. CASE e = d
  <2>1. answer'[e].row = row[e] /\ answer'[e].step = s /\ answer'[e].ok = ok
    BY <1>1, <1>4, <1>8
  <2> QED
    BY <1>2, <1>3, <1>5, <1>6, <1>7, <1>8, <2>1 DEF StatusIsKnown
<1>9. CASE e # d
  <2>1. answer'[e] = answer[e]
    BY <1>1, <1>4, <1>9
  <2> QED
    BY <1>2, <1>5, <1>6, <1>7, <2>1 DEF StatusIsKnown
<1> QED
  BY <1>8, <1>9

LEMMA ImageStore ==
  ASSUME TypeInv, ImageInv, NEW d \in Device, StoreAnswer(d)
  PROVE  ImageInv'
<1>1. UNCHANGED <<config, got, stale>>
  BY DEF StoreAnswer, deploymentVars
<1> SUFFICES ASSUME ~stale, NEW e \in Device
    PROVE  /\ StatusIsKnown(e, row[e])' /\ StatusIsKnown(e, answer[e].row)'
           /\ answer'[e].step = "FragStatus" /\ answer'[e].ok => Image(e)'
  BY <1>1 DEF ImageInv
<1>2. /\ StatusIsKnown(e, row[e]) /\ StatusIsKnown(e, answer[e].row)
      /\ answer[e].step = "FragStatus" /\ answer[e].ok => Image(e)
  BY DEF ImageInv
<1>3. Image(e)' = Image(e)
  BY <1>1 DEF Image
<1>4. CASE e = d
  <2>1. answer'[e] = NoAnswer
    BY <1>4, StoreAnswerWrites
  <2>2. /\ NoAnswer.row.done = {} /\ NoAnswer.row.completed = FALSE /\ NoAnswer.ok = FALSE
    BY DEF NoAnswer
  <2>3. StatusIsKnown(e, answer[e].row)' /\ ~answer'[e].ok
    BY <2>1, <2>2 DEF StatusIsKnown
  <2>4. /\ row'[e].completed = answer[e].row.completed
        /\ row'[e].done = IF answer[e].ok THEN answer[e].row.done \union {answer[e].step}
                                          ELSE answer[e].row.done
    BY <1>4, StoreAnswerWrites
  <2>5. StatusIsKnown(e, row[e])'
    BY <1>1, <1>2, <1>3, <2>4 DEF StatusIsKnown
  <2> QED
    BY <2>3, <2>5
<1>5. CASE e # d
  <2>1. row'[e] = row[e] /\ answer'[e] = answer[e]
    BY <1>5, StoreAnswerWrites
  <2> QED
    BY <1>1, <1>2, <1>3, <2>1 DEF StatusIsKnown
<1> QED
  BY <1>4, <1>5

LEMMA ImageBroadcast ==
  ASSUME TypeInv, ImageInv, NEW n \in Fragment, Broadcast(n)
  PROVE  ImageInv'
<1>1. UNCHANGED <<config, row, answer, stale>>
  BY DEF Broadcast, deploymentVars, historyVars
<1>2. ASSUME NEW d \in Device, Image(d) PROVE Image(d)'
  <2>1. got[d] \subseteq got'[d] /\ got'[d] \subseteq Fragment
    BY TypeBroadcast DEF TypeInv, TypeOK
  <2> QED
    BY <1>2, <2>1 DEF Image
<1> QED
  BY <1>1, <1>2, ImageKept

LEMMA ImageElsewhere ==
  ASSUME ImageInv, UNCHANGED <<config, row, answer, got, stale>>
  PROVE  ImageInv'
<1>1. \A d \in Device : Image(d) => Image(d)'
  BY DEF Image
<1> QED
  BY <1>1, ImageKept

LEMMA ImageNext == TypeInv /\ ImageInv /\ [Next]_vars => ImageInv'
<1> SUFFICES ASSUME TypeInv, ImageInv, [Next]_vars PROVE ImageInv'
  OBVIOUS
<1>1. CASE Start \/ SessionStarts \/ SessionEnds \/ UNCHANGED vars
  BY <1>1, ImageElsewhere DEF Start, SessionStarts, SessionEnds, vars, deploymentVars, deviceVars, historyVars
<1>2. ASSUME NEW w \in Flow, WorkStep(w) PROVE ImageInv'
  BY <1>2, ImageWork
<1>3. ASSUME NEW w \in Flow, UpdateJob(w) \/ CreateJob(w) \/ Stop(w) \/ \E j \in Jobs : Select(w, j)
      PROVE  ImageInv'
  BY <1>3, ImageElsewhere DEF UpdateJob, CreateJob, Stop, Select, deploymentVars, deviceVars, historyVars
<1>4. ASSUME NEW d \in Device, NEW s \in Steps, Answer(d, s) PROVE ImageInv'
  BY <1>4, ImageAnswer
<1>5. ASSUME NEW d \in Device, NEW s \in Steps, StaleAnswer(d, s) PROVE ImageInv'
  BY <1>5 DEF StaleAnswer, ImageInv
<1>6. ASSUME NEW d \in Device, StoreAnswer(d) PROVE ImageInv'
  BY <1>6, ImageStore
<1>7. ASSUME NEW n \in Fragment, Broadcast(n) PROVE ImageInv'
  BY <1>7, ImageBroadcast
<1> QED
  BY <1>1, <1>2, <1>3, <1>4, <1>5, <1>6, <1>7, StepKinds DEF OtherStep

(* A device that is reported complete has the image, if the status is      *)
(* requested and no answer was left from an earlier deployment.            *)
THEOREM CompleteMeansImage == Spec => []CompletedHasImage
<1>1. TypeInv /\ ImageInv => CompletedHasImage
  <2> SUFFICES ASSUME TypeInv, ImageInv, NEW d \in config.devices,
                      row[d].completed, config.request # "NoRequest", ~stale
      PROVE  Image(d)
    BY DEF CompletedHasImage
  <2>1. d \in Device
    BY DEF TypeInv, TypeOK
  <2> QED
    BY <2>1 DEF ImageInv, StatusIsKnown
<1>2. Init => ImageInv
  BY ImageInit
<1>3. TypeInv /\ ImageInv /\ [Next]_vars => ImageInv'
  BY ImageNext
<1> QED
  BY <1>1, <1>2, <1>3, TypeCorrect, PTL DEF Spec

-----------------------------------------------------------------------------
(* A result for every device.  A job is created when the steps before it   *)
(* are settled: every device is done with them or has an error.  That      *)
(* lasts while no answer overwrites a row that has changed.                *)

Settled(step) == \A d \in config.devices : step \in row[d].done \/ row[d].error
Setups == {"McGroupSetup", "FragSessionSetup", "McSession"}
Prerequisites(j) ==
  CASE j = "FragSessionSetup" -> {"McGroupSetup"}
    [] j = "McSession" -> {"McGroupSetup", "FragSessionSetup"}
    [] j \in {"Enqueue", "FragStatus"} -> Setups
    [] j \in {"DeleteMcGroup", "Complete"} -> Needed
    [] OTHER -> {}
Ready(j) == \A s \in Prerequisites(j) : Settled(s)
Decided(w) == flow[w].pc \in {"update", "create"} /\ flow[w].next \in Jobs
Closing(w) == flow[w].pc = "close"
Accounted == \A d \in config.devices : row[d].completed \/ row[d].error
SettledInv ==
  ~lost =>
    /\ \A j \in DOMAIN jobs : Ready(j)
    /\ \A w \in Flow : Decided(w) => Ready(flow[w].next)
    /\ (completed \/ \E w \in Flow : Closing(w)) => Accounted

(* Rows that only gain steps, results and errors.                          *)
RowsGrow ==
  /\ config' = config
  /\ \A d \in Device : /\ row[d].done \subseteq row'[d].done
                       /\ row[d].error => row'[d].error
                       /\ row[d].completed => row'[d].completed

LEMMA Lasts ==
  ASSUME TypeInv, RowsGrow
  PROVE  /\ \A s : Settled(s) => Settled(s)'
         /\ \A j : Ready(j) => Ready(j)'
         /\ Accounted => Accounted'
<1>1. config.devices \subseteq Device
  BY DEF TypeInv, TypeOK
<1>2. ASSUME NEW s, Settled(s) PROVE Settled(s)'
  BY <1>1, <1>2 DEF Settled, RowsGrow
<1>3. ASSUME NEW j, Ready(j) PROVE Ready(j)'
  <2>1. Prerequisites(j)' = Prerequisites(j)
    BY DEF Prerequisites, Needed, RowsGrow
  <2> QED
    BY <1>2, <1>3, <2>1 DEF Ready
<1>4. Accounted => Accounted'
  BY <1>1 DEF Accounted, RowsGrow
<1> QED
  BY <1>2, <1>3, <1>4

(* Where every device has an error, everything is settled.                 *)
LEMMA AllFailed ==
  ASSUME \A d \in config.devices : row[d].error, NEW j
  PROVE  Ready(j)
  BY DEF Ready, Settled

LEMMA PrerequisitesOfSteps ==
  /\ \A j \in GroupJobs : Prerequisites(AfterGroupStep(j)) = {}
  /\ \A s \in Steps : Prerequisites(AfterStep(s)) \subseteq Prerequisites(s) \union {s}
  /\ Prerequisites("McGroupSetup") = {} /\ Prerequisites("FragSessionSetup") = {"McGroupSetup"}
  /\ "FragSessionSetup" \in Prerequisites("McSession")
  /\ Prerequisites("FragStatus") = Setups /\ Prerequisites("Enqueue") = Setups
  /\ Prerequisites("DeleteMcGroup") = Needed /\ Prerequisites("Complete") = Needed
<1>1. ASSUME NEW j \in GroupJobs PROVE Prerequisites(AfterGroupStep(j)) = {}
  BY DEF Prerequisites, AfterGroupStep, GroupJobs
<1>2. Needed \subseteq Steps
  BY DEF Needed
<1>3. ASSUME NEW s \in Steps PROVE Prerequisites(AfterStep(s)) \subseteq Prerequisites(s) \union {s}
  <2>1. CASE s = "McGroupSetup"
    BY <2>1 DEF Prerequisites, AfterStep
  <2>2. CASE s = "FragSessionSetup"
    BY <2>2 DEF Prerequisites, AfterStep
  <2>3. CASE s = "McSession"
    BY <2>3 DEF Prerequisites, AfterStep, Setups
  <2>4. CASE s = "FragStatus"
    BY <1>2, <2>4 DEF Prerequisites, AfterStep, Setups, Steps
  <2> QED
    BY <2>1, <2>2, <2>3, <2>4 DEF Steps
<1>4. /\ Prerequisites("McGroupSetup") = {} /\ Prerequisites("FragSessionSetup") = {"McGroupSetup"}
      /\ Prerequisites("McSession") = {"McGroupSetup", "FragSessionSetup"}
      /\ Prerequisites("FragStatus") = Setups /\ Prerequisites("Enqueue") = Setups
      /\ Prerequisites("DeleteMcGroup") = Needed /\ Prerequisites("Complete") = Needed
  BY DEF Prerequisites
<1> QED
  BY <1>1, <1>3, <1>4

(* What the body of a step decides on is ready.                            *)
LEMMA SettledUnicast ==
  ASSUME TypeInv, NEW w \in Flow, Unicast(w), Ready(flow[w].job)
  PROVE  RowsGrow /\ (Decided(w)' => Ready(flow[w].next)')
<1>1. PICK step \in Steps :
        LET asked == Before(step) \ Done(step)
            unset == flow[w].unset /\ (Exhausted(w) \/ step # "McSession")
        IN /\ InBody(w, step)
           /\ IF Exhausted(w)
                THEN /\ row' = TimedOut(step)
                     /\ EndBody(w, AfterStep(step), DueAfter(step, TRUE, unset))
              ELSE IF Before(step) = {}
                THEN EndBody(w, "DeleteMcGroup", "any") /\ row' = row
              ELSE /\ IF asked = {} THEN EndBody(w, AfterStep(step), DueAfter(step, FALSE, unset))
                                    ELSE GoOver(w, "devices", asked)
                   /\ row' = row
  BY DEF Unicast
<1>2. config' = config /\ config.devices \subseteq Device /\ config.devices # {}
  BY DEF Unicast, TypeInv, TypeOK
<1>3. Ready(step)
  BY <1>1 DEF InBody
<1>4. RowsGrow
  <2>1. CASE row' = row
    BY <1>2, <2>1 DEF RowsGrow
  <2>2. CASE row' = TimedOut(step)
    BY <1>2, <2>2, TimedOutTyped DEF RowsGrow, TypeInv
  <2> QED
    BY <1>1, <2>1, <2>2
<1>5. ASSUME Settled(step)' PROVE Ready(AfterStep(step))'
  <2>1. \A s \in Prerequisites(step) : Settled(s)'
    BY <1>3, <1>4, Lasts DEF Ready
  <2>2. Prerequisites(AfterStep(step))' = Prerequisites(AfterStep(step))
    BY <1>2 DEF Prerequisites, Needed
  <2>3. Prerequisites(AfterStep(step)) \subseteq Prerequisites(step) \union {step}
    BY PrerequisitesOfSteps
  <2> QED
    BY <1>5, <2>1, <2>2, <2>3 DEF Ready
(* The devices a step does not ask have an error.                          *)
<1>6. ASSUME NEW d \in config.devices, d \notin Before(step) PROVE row[d].error
  <2>1. CASE step = "McGroupSetup"
    BY <1>6, <2>1 DEF Before
  <2>2. CASE step = "FragSessionSetup"
    <3>1. Settled("McGroupSetup")
      BY <1>3, <2>2, PrerequisitesOfSteps DEF Ready
    <3> QED
      BY <1>6, <2>2, <3>1 DEF Before, Done, Settled
  <2>3. CASE step = "McSession"
    <3>1. Settled("FragSessionSetup")
      BY <1>3, <2>3, PrerequisitesOfSteps DEF Ready
    <3> QED
      BY <1>6, <2>3, <3>1 DEF Before, Done, Settled
  <2>4. CASE step = "FragStatus"
    <3>1. Settled("McSession")
      BY <1>3, <2>4, PrerequisitesOfSteps DEF Ready, Setups
    <3> QED
      BY <1>6, <2>4, <3>1 DEF Before, Done, Settled
  <2> QED
    BY <2>1, <2>2, <2>3, <2>4 DEF Steps
<1> DEFINE unset == flow[w].unset /\ (Exhausted(w) \/ step # "McSession")
<1>7. DueAfter(step, TRUE, unset) \in Due /\ DueAfter(step, FALSE, unset) \in Due
  BY NextJobs
<1>8. AfterStep(step) \in After /\ "DeleteMcGroup" \in After /\ "any" \in Due
  BY NextJobs, JobNames DEF After, Due
<1>9. CASE Exhausted(w)
  <2>1. EndBody(w, AfterStep(step), DueAfter(step, TRUE, unset)) /\ row' = TimedOut(step)
    BY <1>1, <1>9
  <2>2. flow'[w].next = AfterStep(step)
    BY <1>7, <1>8, <2>1, BodyEnds DEF TypeInv
  <2>3. Settled(step)'
    BY <1>2, <2>1, TimedOutTyped DEF Settled, TypeInv
  <2> QED
    BY <1>4, <1>5, <2>2, <2>3
<1>10. CASE ~Exhausted(w) /\ Before(step) = {}
  <2>1. EndBody(w, "DeleteMcGroup", "any") /\ row' = row
    BY <1>1, <1>10
  <2>2. \A d \in config.devices : row[d].error
    BY <1>6, <1>10
  <2>3. Ready(flow'[w].next)
    BY <2>2, AllFailed
  <2>4. Ready(flow[w].next)'
    BY <2>3, <1>4, Lasts
  <2> QED
    BY <1>4, <2>4
<1>11. CASE ~Exhausted(w) /\ Before(step) # {} /\ Before(step) \ Done(step) = {}
  <2>1. EndBody(w, AfterStep(step), DueAfter(step, FALSE, unset)) /\ row' = row
    BY <1>1, <1>11
  <2>2. flow'[w].next = AfterStep(step)
    BY <1>7, <1>8, <2>1, BodyEnds DEF TypeInv
  <2>3. Settled(step)
    BY <1>6, <1>11 DEF Settled, Done
  <2>4. Settled(step)'
    BY <1>4, <2>3, Lasts
  <2> QED
    BY <1>4, <1>5, <2>2, <2>4
<1>12. CASE ~Exhausted(w) /\ Before(step) # {} /\ Before(step) \ Done(step) # {}
  <2>1. GoOver(w, "devices", Before(step) \ Done(step))
    BY <1>1, <1>12
  <2>2. Before(step) \ Done(step) \in SUBSET (Device \union Fragment)
    BY <1>2 DEF Before, Done, Steps
  <2>3. flow'[w].pc = "devices"
    BY <2>1, <2>2, BodyGoesOn DEF TypeInv
  <2> QED
    BY <1>4, <2>3 DEF Decided
<1> QED
  BY <1>9, <1>10, <1>11, <1>12

LEMMA SettledWork ==
  ASSUME TypeInv, SettledInv, ~lost, NEW w \in Flow, WorkStep(w)
  PROVE  RowsGrow /\ (Decided(w)' => Ready(flow[w].next)')
<1>1. flow[w].job \in DOMAIN jobs /\ config' = config
  <2>1. flow[w].pc \in Working
    BY WorkStepWorks DEF Works
  <2>2. config' = config
    BY DEF WorkStep, SetupGroup, Unicast, Enqueue, EnqueueFragment, DeleteMcGroup, Complete, CompleteDeployment, FailBody,
           AskDevice, deploymentVars
  <2> QED
    BY <2>1, <2>2 DEF Working, TypeInv, FlowShape, Shape, Idle
<1>2. Ready(flow[w].job)
  BY <1>1 DEF SettledInv
<1>3. row' = row => RowsGrow
  BY <1>1 DEF RowsGrow
<1>4. ASSUME row' = row, Decided(w)' => Ready(flow'[w].next)
      PROVE  RowsGrow /\ (Decided(w)' => Ready(flow[w].next)')
  BY <1>3, <1>4, Lasts
<1>5. "any" \in Due /\ {"none", "error", "FragStatus", "DeleteMcGroup", "Complete"} \subseteq After
  BY JobNames DEF Due, After
<1>6. "none" \notin Jobs /\ "error" \notin Jobs
  BY JobNames
<1>7. CASE SetupGroup(w)
  <2>1. PICK j \in GroupJobs :
          \/ EndBody(w, AfterGroupStep(j), "any")
          \/ EndBody(w, "none", "any")
          \/ EndBody(w, "error", "any")
    BY <1>7 DEF SetupGroup
  <2>2. AfterGroupStep(j) \in After
    BY NextJobs DEF After
  <2>3. flow'[w].next \in {AfterGroupStep(j), "none", "error"}
    BY <1>5, <2>1, <2>2, BodyEnds DEF TypeInv
  <2>4. Ready(AfterGroupStep(j))
    BY PrerequisitesOfSteps DEF Ready
  <2>5. row' = row
    BY <1>7 DEF SetupGroup, deviceVars
  <2> QED
    BY <1>4, <1>6, <2>3, <2>4, <2>5 DEF Decided
<1>8. CASE Unicast(w)
  BY <1>2, <1>8, SettledUnicast
<1>9. CASE Enqueue(w)
  <2>1. flow[w].job = "Enqueue" /\ row' = row
    BY <1>9 DEF Enqueue, InBody, deviceVars
  <2>2. \A s \in Setups : Settled(s)
    BY <1>2, <2>1, PrerequisitesOfSteps DEF Ready
  <2>3. Ready("FragStatus")
    BY <2>2, PrerequisitesOfSteps DEF Ready
  <2> DEFINE after == AfterFragments(flow[w].unset)
  <2>4. flow[w].unset \in BOOLEAN
    BY FlowTyped DEF FlowRow, TypeInv
  <2>5. after.next \in {"FragStatus", "DeleteMcGroup"} /\ after.due \in Due
        /\ (after.next = "DeleteMcGroup" => config.request = "NoRequest")
    <3>1. config.request \in Request
      BY DEF TypeInv, TypeOK
    <3> QED
      BY <2>4, <3>1, FragmentsDone DEF AfterFragments, Request, TypeInv
  <2>6. after.next = "DeleteMcGroup" => Ready("DeleteMcGroup")
    <3>1. config.request = "NoRequest" => Needed \subseteq Setups
      BY DEF Needed, Setups, Steps
    <3> QED
      BY <2>2, <2>5, <3>1, PrerequisitesOfSteps DEF Ready
  <2> HIDE DEF after
  <2>7. \/ EndBody(w, "FragStatus", "any")
        \/ EndBody(w, "DeleteMcGroup", "any") /\ Done("McSession") = {}
        \/ EndBody(w, after.next, after.due)
        \/ GoOver(w, "fragments", Fragment)
    BY <1>9 DEF Enqueue, after
  <2>8. CASE EndBody(w, "FragStatus", "any")
    <3>1. flow'[w].next = "FragStatus"
      BY <1>5, <2>8, BodyEnds DEF TypeInv
    <3> QED
      BY <1>4, <2>1, <2>3, <3>1
  <2>9. CASE EndBody(w, "DeleteMcGroup", "any") /\ Done("McSession") = {}
    <3>1. \A d \in config.devices : row[d].error
      BY <2>2, <2>9 DEF Settled, Setups, Done
    <3> QED
      BY <1>4, <2>1, <3>1, AllFailed
  <2>10. CASE EndBody(w, after.next, after.due)
    <3>1. after.next \in After
      BY <1>5, <2>5
    <3>2. flow'[w].next = after.next
      BY <2>5, <2>10, <3>1, BodyEnds DEF TypeInv
    <3> QED
      BY <1>4, <2>1, <2>3, <2>5, <2>6, <3>2
  <2>11. CASE GoOver(w, "fragments", Fragment)
    <3>1. flow'[w].pc = "fragments"
      BY <2>11, BodyGoesOn DEF TypeInv
    <3> QED
      BY <1>4, <2>1, <3>1 DEF Decided
  <2> QED
    BY <2>7, <2>8, <2>9, <2>10, <2>11
<1>10. CASE EnqueueFragment(w)
  <2>1. flow[w].job = "Enqueue" /\ row' = row /\ flow[w].unset \in BOOLEAN
    BY <1>10, FlowTyped DEF EnqueueFragment, TypeInv, FlowShape, Shape, deviceVars, FlowRow
  <2>2. \A s \in Setups : Settled(s)
    BY <1>2, <2>1, PrerequisitesOfSteps DEF Ready
  <2> DEFINE next == AfterFragments(flow[w].unset).next
  <2>3. next = "FragStatus" \/ (next = "DeleteMcGroup" /\ config.request = "NoRequest")
    <3>1. config.request \in Request
      BY DEF TypeInv, TypeOK
    <3> QED
      BY <3>1 DEF AfterFragments, Request
  <2>4. Ready(next)
    <3>1. config.request = "NoRequest" => Needed \subseteq Setups
      BY DEF Needed, Setups, Steps
    <3> QED
      BY <2>2, <2>3, <3>1, PrerequisitesOfSteps DEF Ready
  <2>5. Decided(w)' => flow'[w].next = next
    <3>1. Works(w) /\ (flow'[w].pc = "update" => flow'[w].next \in {"error", next})
      BY <1>10, EnqueueFragmentWorks
    <3> QED
      BY <1>6, <3>1 DEF Decided, Works
  <2> QED
    BY <1>4, <2>1, <2>4, <2>5
<1>11. CASE DeleteMcGroup(w)
  <2>1. flow[w].job = "DeleteMcGroup" /\ row' = row
    BY <1>11 DEF DeleteMcGroup, InBody, deviceVars
  <2>2. flow'[w].next \in {"Complete", "error"}
    <3>1. EndBody(w, "Complete", "any") \/ EndBody(w, "error", "any")
      BY <1>11 DEF DeleteMcGroup
    <3> QED
      BY <1>5, <3>1, BodyEnds DEF TypeInv
  <2>3. Ready("Complete")
    BY <1>2, <2>1, PrerequisitesOfSteps DEF Ready
  <2> QED
    BY <1>4, <1>6, <2>1, <2>2, <2>3 DEF Decided
<1>12. CASE Complete(w)
  <2>1. EndBody(w, "none", "any") \/ GoOver(w, "close", {})
    BY <1>12 DEF Complete
  <2>2. flow'[w].next = "none" \/ flow'[w].pc = "close"
    BY <1>5, <2>1, BodyEnds, BodyGoesOn DEF TypeInv
  <2>3. RowsGrow
    BY <1>1, <1>12, CompleteWrites DEF RowsGrow, TypeInv
  <2> QED
    BY <1>6, <2>2, <2>3 DEF Decided
<1>13. CASE FailBody(w) \/ CompleteDeployment(w)
  <2>1. row' = row /\ flow'[w].next \in {"error", "none"}
    BY <1>13, FailBodyWorks, CompleteDeploymentWorks DEF FailBody, CompleteDeployment, deviceVars, TypeInv
  <2> QED
    BY <1>4, <1>6, <2>1 DEF Decided
<1>14. ASSUME NEW d \in Device, AskDevice(w, d)
       PROVE  RowsGrow /\ (Decided(w)' => Ready(flow[w].next)')
  <2>1. row' = row /\ flow[w] \in FlowRow /\ flow \in [Flow -> FlowRow]
    BY <1>14, FlowTyped DEF AskDevice, TypeInv
  <2>2. Decided(w)' => flow'[w].next = flow[w].job
    <3>1. CASE flow[w].todo = {d}
      <4>1. flow' = [flow EXCEPT ![w] = [flow[w] EXCEPT !.todo = {}, !.pc = "update",
                                           !.next = flow[w].job, !.due = "any"]]
        BY <1>14, <3>1 DEF AskDevice
      <4> QED
        BY <2>1, <4>1 DEF FlowRow
    <3>2. CASE flow[w].todo # {d}
      <4> DEFINE g == [flow[w] EXCEPT !.todo = flow[w].todo \ {d}]
      <4>1. flow' = [flow EXCEPT ![w] = g]
        BY <1>14, <3>2 DEF AskDevice
      <4>3. g.pc = "devices"
        BY <1>14, <2>1 DEF AskDevice, FlowRow
      <4> HIDE DEF g
      <4>2. flow'[w].pc = "devices"
        BY <2>1, <4>1, <4>3
      <4> QED
        BY <4>2 DEF Decided
    <3> QED
      BY <3>1, <3>2
  <2> QED
    BY <1>2, <1>4, <2>1, <2>2
<1> QED
  BY <1>7, <1>8, <1>9, <1>10, <1>11, <1>12, <1>13, <1>14 DEF WorkStep

(* No other step of the work comes to the point where the deployment is    *)
(* completed.                                                              *)
LEMMA OnlyCompleteCloses ==
  ASSUME TypeInv, NEW w \in Flow, WorkStep(w), ~Complete(w)
  PROVE  flow'[w].pc \in {"devices", "fragments", "update"}
<1>1. Works(w)
  BY WorkStepWorks
<1>2. flow'[w].pc = "close" => flow[w].job = "Complete"
  BY <1>1 DEF Works
<1>3. CASE FailBody(w) \/ CompleteDeployment(w)
  BY <1>3, FailBodyWorks, CompleteDeploymentWorks DEF TypeInv
<1>4. CASE ~(FailBody(w) \/ CompleteDeployment(w))
  <2>1. flow[w].job # "Complete"
    BY <1>4 DEF WorkStep, SetupGroup, Unicast, Enqueue, EnqueueFragment, DeleteMcGroup, AskDevice,
                InBody, GroupJobs, Steps, TypeInv, FlowShape, Shape
  <2> QED
    BY <1>1, <1>2, <2>1 DEF Works
<1> QED
  BY <1>3, <1>4

LEMMA SettledByWork ==
  ASSUME TypeInv, SettledInv, NEW w \in Flow, WorkStep(w)
  PROVE  SettledInv'
<1> SUFFICES ASSUME ~lost' PROVE SettledInv'
  BY DEF SettledInv
<1>1. lost' = lost
  BY DEF WorkStep, SetupGroup, Unicast, Enqueue, EnqueueFragment, DeleteMcGroup, Complete, CompleteDeployment, FailBody,
         AskDevice, historyVars
<1>2. RowsGrow /\ (Decided(w)' => Ready(flow[w].next)')
  BY <1>1, SettledWork
<1>3. jobs' = jobs /\ \A v \in Flow \ {w} : flow'[v] = flow[v]
  BY WorkStepWorks DEF Works
<1>4. \A j \in DOMAIN jobs' : Ready(j)'
  BY <1>1, <1>2, <1>3, Lasts DEF SettledInv
<1>5. ASSUME NEW v \in Flow, Decided(v)' PROVE Ready(flow[v].next)'
  <2>1. CASE v = w
    BY <1>2, <1>5, <2>1
  <2>2. CASE v # w
    <3>1. flow'[v] = flow[v] /\ Decided(v)
      BY <1>3, <1>5, <2>2 DEF Decided
    <3>2. Ready(flow[v].next)
      BY <1>1, <3>1 DEF SettledInv
    <3> DEFINE next == flow[v].next
    <3>3. Ready(next) /\ next' = next
      BY <3>1, <3>2
    <3> QED
      BY <1>2, <3>1, <3>2, Lasts
  <2> QED
    BY <2>1, <2>2
<1>6. completed' \/ (\E v \in Flow : Closing(v)') => Accounted'
  <2>1. CASE Complete(w)
    <3>1. Ready("Complete")
      BY <1>1, <2>1 DEF Complete, InBody, TypeInv, FlowShape, Shape, Idle, SettledInv
    <3>2. ASSUME NEW d \in config.devices PROVE Needed \subseteq row[d].done \/ row[d].error
      BY <3>1, PrerequisitesOfSteps DEF Ready, Settled
    <3>3. CASE row' = row /\ EndBody(w, "none", "any")
      <4>1. ~Closing(w)'
        BY <3>3, BodyEnds DEF TypeInv, Closing, After, Due
      <4>2. completed' = completed /\ \A v \in Flow : Closing(v)' => Closing(v)
        BY <1>3, <2>1, <4>1 DEF Closing, Complete, deploymentVars
      <4> QED
        BY <1>1, <1>2, <4>2, Lasts DEF SettledInv
    <3>4. CASE \A d \in config.devices : Needed \subseteq row[d].done => row'[d].completed
      <4>1. config' = config /\ \A d \in config.devices : row[d].error => row'[d].error
        BY <1>2 DEF RowsGrow, TypeInv, TypeOK
      <4> QED
        BY <3>2, <3>4, <4>1 DEF Accounted
    <3> QED
      BY <2>1, <3>3, <3>4, CompleteWrites DEF TypeInv
  <2>2. CASE CompleteDeployment(w)
    <3>1. Accounted
      BY <1>1, <2>2 DEF SettledInv, CompleteDeployment, Closing
    <3> QED
      BY <1>2, <3>1, Lasts
  <2>3. CASE ~Complete(w) /\ ~CompleteDeployment(w)
    <3>1. completed' = completed
      BY <2>3 DEF WorkStep, SetupGroup, Unicast, Enqueue, EnqueueFragment, DeleteMcGroup, FailBody,
                  AskDevice, deploymentVars
    <3>2. flow'[w].pc \in {"devices", "fragments", "update"}
      BY <2>3, OnlyCompleteCloses
    <3>3. \A v \in Flow : Closing(v)' => Closing(v)
      BY <1>3, <3>2 DEF Closing
    <3> QED
      BY <1>1, <1>2, <3>1, <3>3, Lasts DEF SettledInv
  <2> QED
    BY <2>1, <2>2, <2>3
<1> QED
  BY <1>4, <1>5, <1>6 DEF SettledInv

(* The rows, the deployment and the flows that have decided do not change, *)
(* what is new is ready.                                                   *)
LEMMA SettledKept ==
  ASSUME TypeInv, SettledInv, RowsGrow, completed' = completed, lost => lost',
         ~lost => \A j \in DOMAIN jobs' : j \in DOMAIN jobs \/ Ready(j),
         \A v \in Flow : /\ Decided(v)' => Decided(v) /\ flow'[v].next = flow[v].next
                         /\ Closing(v)' => Closing(v)
  PROVE  SettledInv'
<1> SUFFICES ASSUME ~lost' PROVE SettledInv'
  BY DEF SettledInv
<1>1. ~lost
  OBVIOUS
<1>2. \A j \in DOMAIN jobs' : Ready(j)'
  BY <1>1, Lasts DEF SettledInv
<1>3. ASSUME NEW v \in Flow, Decided(v)' PROVE Ready(flow[v].next)'
  <2>1. Ready(flow[v].next) /\ flow'[v].next = flow[v].next
    BY <1>1, <1>3 DEF SettledInv
  <2> QED
    BY <2>1, Lasts
<1>4. completed' \/ (\E v \in Flow : Closing(v)') => Accounted'
  BY <1>1, Lasts DEF SettledInv
<1> QED
  BY <1>2, <1>3, <1>4 DEF SettledInv

LEMMA SettledElsewhere ==
  ASSUME TypeInv, SettledInv, UNCHANGED <<config, completed, jobs, row, flow, lost>>
  PROVE  SettledInv'
<1>1. RowsGrow
  BY DEF RowsGrow
<1>2. \A v \in Flow : /\ Decided(v)' => Decided(v) /\ flow'[v].next = flow[v].next
                      /\ Closing(v)' => Closing(v)
  BY DEF Decided, Closing
<1> QED
  BY <1>1, <1>2, SettledKept

LEMMA SettledStart ==
  ASSUME TypeInv, SettledInv, Start
  PROVE  SettledInv'
<1>1. UNCHANGED <<config, completed, row, flow, lost>>
  BY DEF Start, deviceVars, historyVars
<1>2. RowsGrow
  BY <1>1 DEF RowsGrow
<1>3. \A j \in DOMAIN jobs' : j \in DOMAIN jobs \/ Ready(j)
  <2>1. Ready("CreateMcGroup")
    BY DEF Ready, Prerequisites
  <2>2. jobs' = [j \in {"CreateMcGroup"} |-> NewJob("any")] \/ jobs' = jobs
    BY DEF Start
  <2> QED
    BY <2>1, <2>2
<1>4. \A v \in Flow : /\ Decided(v)' => Decided(v) /\ flow'[v].next = flow[v].next
                      /\ Closing(v)' => Closing(v)
  BY <1>1 DEF Decided, Closing
<1> QED
  BY <1>1, <1>2, <1>3, <1>4, SettledKept

LEMMA SettledJobs ==
  ASSUME TypeInv, SettledInv, NEW w \in Flow,
         UpdateJob(w) \/ CreateJob(w) \/ Stop(w) \/ \E j \in Jobs : Select(w, j)
  PROVE  SettledInv'
<1>1. UNCHANGED <<config, completed, row, lost>>
  BY DEF UpdateJob, CreateJob, Stop, Select, deploymentVars, deviceVars, historyVars
<1>2. RowsGrow
  BY <1>1 DEF RowsGrow
<1>3. /\ \A v \in Flow \ {w} : flow'[v] = flow[v]
      /\ Decided(w)' => Decided(w) /\ flow'[w].next = flow[w].next
      /\ ~Closing(w)'
  <2>1. CASE UpdateJob(w)
    <3>1. CASE Closes(w)
      BY <2>1, <3>1, UpdateJobWrites DEF Decided, IdleFlow, Closing
    <3>2. CASE ~Closes(w)
      BY <2>1, <3>2, UpdateJobWrites DEF Decided, UpdateJob, Closing
    <3>3. \A v \in Flow \ {w} : flow'[v] = flow[v]
      BY <2>1, UpdateJobWrites
    <3> QED
      BY <3>1, <3>2, <3>3
  <2>2. CASE CreateJob(w)
    <3>1. flow'[w] = IdleFlow /\ \A v \in Flow \ {w} : flow'[v] = flow[v]
      BY <2>2, CreateJobWrites
    <3> QED
      BY <3>1 DEF Decided, IdleFlow, Closing
  <2>3. CASE Stop(w)
    <3>1. flow'[w] = IdleFlow /\ \A v \in Flow \ {w} : flow'[v] = flow[v]
      BY <2>3, FlowEnds DEF Stop, TypeInv
    <3> QED
      BY <3>1 DEF Decided, IdleFlow, Closing
  <2>4. ASSUME NEW j \in Jobs, Select(w, j)
        PROVE  /\ \A v \in Flow \ {w} : flow'[v] = flow[v]
               /\ Decided(w)' => Decided(w) /\ flow'[w].next = flow[w].next
               /\ ~Closing(w)'
    <3>1. flow'[w].pc = "body" /\ \A v \in Flow \ {w} : flow'[v] = flow[v]
      BY <2>4, SelectWrites
    <3> QED
      BY <3>1 DEF Decided, Closing
  <2> QED
    BY <2>1, <2>2, <2>3, <2>4
<1>4. \A v \in Flow : /\ Decided(v)' => Decided(v) /\ flow'[v].next = flow[v].next
                      /\ Closing(v)' => Closing(v)
  BY <1>3 DEF Decided, Closing
<1>5. ~lost => \A j \in DOMAIN jobs' : j \in DOMAIN jobs \/ Ready(j)
  <2>1. CASE CreateJob(w)
    <3>1. flow[w].pc = "create" /\ flow[w].next \in Jobs /\ DOMAIN jobs' = DOMAIN jobs \union {flow[w].next}
      BY <2>1, CreateJobWrites
    <3>2. ~lost => Ready(flow[w].next)
      BY <3>1 DEF SettledInv, Decided
    <3> QED
      BY <3>1, <3>2
  <2>2. CASE UpdateJob(w)
    BY <2>2, UpdateJobWrites
  <2>3. CASE Stop(w)
    BY <2>3 DEF Stop
  <2>4. ASSUME NEW j \in Jobs, Select(w, j) PROVE DOMAIN jobs' = DOMAIN jobs
    BY <2>4, SelectWrites
  <2> QED
    BY <2>1, <2>2, <2>3, <2>4
<1> QED
  BY <1>1, <1>2, <1>4, <1>5, SettledKept

LEMMA SettledStore ==
  ASSUME TypeInv, SettledInv, NEW d \in Device, StoreAnswer(d)
  PROVE  SettledInv'
<1> SUFFICES ASSUME ~lost' PROVE SettledInv'
  BY DEF SettledInv
<1>1. UNCHANGED <<config, completed, jobs, flow>>
  BY DEF StoreAnswer, deploymentVars
<1>2. ~lost /\ answer[d].row = row[d]
  BY StoreAnswerWrites
<1>3. RowsGrow
  <2>1. ASSUME NEW e \in Device
        PROVE  /\ row[e].done \subseteq row'[e].done /\ (row[e].error => row'[e].error)
               /\ (row[e].completed => row'[e].completed)
    <3>1. CASE e = d
      BY <1>2, <3>1, StoreAnswerWrites
    <3>2. CASE e # d
      BY <3>2, StoreAnswerWrites
    <3> QED
      BY <3>1, <3>2
  <2> QED
    BY <1>1, <2>1 DEF RowsGrow
<1>4. \A v \in Flow : /\ Decided(v)' => Decided(v) /\ flow'[v].next = flow[v].next
                      /\ Closing(v)' => Closing(v)
  BY <1>1 DEF Decided, Closing
<1> QED
  BY <1>1, <1>2, <1>3, <1>4, SettledKept

LEMMA SettledNext == TypeInv /\ SettledInv /\ [Next]_vars => SettledInv'
<1> SUFFICES ASSUME TypeInv, SettledInv, [Next]_vars PROVE SettledInv'
  OBVIOUS
<1>1. CASE Start
  BY <1>1, SettledStart
<1>2. CASE SessionStarts \/ SessionEnds \/ UNCHANGED vars
  BY <1>2, SettledElsewhere DEF SessionStarts, SessionEnds, vars, deploymentVars, deviceVars, historyVars
<1>3. ASSUME NEW d \in Device, NEW s \in Steps, Answer(d, s) \/ StaleAnswer(d, s) PROVE SettledInv'
  BY <1>3, SettledElsewhere DEF Answer, StaleAnswer, deploymentVars, historyVars
<1>4. ASSUME NEW n \in Fragment, Broadcast(n) PROVE SettledInv'
  BY <1>4, SettledElsewhere DEF Broadcast, deploymentVars, historyVars
<1>5. ASSUME NEW d \in Device, StoreAnswer(d) PROVE SettledInv'
  BY <1>5, SettledStore
<1>6. ASSUME NEW w \in Flow, WorkStep(w) PROVE SettledInv'
  BY <1>6, SettledByWork
<1>7. ASSUME NEW w \in Flow, UpdateJob(w) \/ CreateJob(w) \/ Stop(w) \/ \E j \in Jobs : Select(w, j)
      PROVE  SettledInv'
  BY <1>7, SettledJobs
<1> QED
  BY <1>1, <1>2, <1>3, <1>4, <1>5, <1>6, <1>7, StepKinds DEF OtherStep

LEMMA SettledInit == Init => SettledInv
<1> SUFFICES ASSUME Init PROVE SettledInv
  OBVIOUS
<1>1. DOMAIN jobs = {} /\ ~completed /\ \A w \in Flow : flow[w].pc = "idle"
  BY DEF Init, IdleFlow
<1> QED
  BY <1>1 DEF SettledInv, Decided, Closing

(* When the deployment is complete, every device is completed or has an    *)
(* error, unless an answer overwrote a row that had changed.               *)
THEOREM NoDeviceForgotten == Spec => []EveryDeviceAccounted
<1>1. SettledInv => EveryDeviceAccounted
  BY DEF SettledInv, EveryDeviceAccounted, Accounted
<1>2. Init => SettledInv
  BY SettledInit
<1>3. TypeInv /\ SettledInv /\ [Next]_vars => SettledInv'
  BY SettledNext
<1> QED
  BY <1>1, <1>2, <1>3, TypeCorrect, PTL DEF Spec
=============================================================================
