------------------------------ MODULE UplinkFCnt ------------------------------
(***************************************************************************)
(* The uplink frame-counter of one activated device.                       *)
(*                                                                         *)
(* Every de-duplicated frame-set starts its own run of                     *)
(* uplink::data::Data::_handle.  Such a handler reads the device row,      *)
(* derives the full frame-counter and checks the MIC, claims the counter   *)
(* with a conditional UPDATE, filters the receiving gateways by tenant,    *)
(* emits the uplink event and finally writes the device row back.  Nothing *)
(* locks the row between these steps, so handlers interleave: copies of    *)
(* one frame that were not de-duplicated together (a second region         *)
(* configuration, a re-transmission, a copy after the de-duplication lock  *)
(* expired) and, when Pipelined, handlers of different frames.             *)
(*                                                                         *)
(* A frame is its full frame-counter.  The radio carries that counter      *)
(* modulo FCntModulus (2^16), the MIC is computed over the full counter.   *)
(***************************************************************************)
EXTENDS Integers, FiniteSets

CONSTANTS
  Handler,        \* concurrent runs of uplink::data::Data::_handle
  MaxFCnt,        \* bound: the device sends the counters 0 .. MaxFCnt
  FCntModulus,    \* 2^16, the part of the counter that is transmitted
  U32,            \* 2^32, the width of the server's counter
  SkipSession,    \* DeviceSession.skip_f_cnt_check
  SkipDevice,     \* Device.skip_fcnt_check
  Pipelined,      \* may a frame arrive while another one is handled?
  PrivateGateways,\* may a frame be seen by other tenants' gateways only?
  Failures        \* may a handler end early (an error, the server stops)?

ASSUME FCntAssumption ==
  /\ MaxFCnt \in Nat
  /\ FCntModulus \in Nat /\ FCntModulus > 1
  /\ U32 \in Nat /\ U32 > MaxFCnt + 1
  /\ {SkipSession, SkipDevice, Pipelined, PrivateGateways, Failures} \subseteq BOOLEAN

Frame == 0 .. MaxFCnt

VARIABLES
  fCntUp,    \* device.f_cnt_up: the next expected full counter
  pc,        \* pc[h]: the next step of handler h
  task,      \* task[h]: the local data of handler h
  delivered, \* history: how often an uplink event was sent (0, 1, 2 = "more")
  last,      \* history: the counter of the last uplink event, or -1
  reopened   \* history: counters below which another handler's write moved
             \* fCntUp back after they had been passed

vars == <<fCntUp, pc, task, delivered, last, reopened>>

Status == {"none", "ok", "retransmission", "reset"}

Task == [fCnt    : Frame,         \* the frame handled
         matches : BOOLEAN,       \* some gateway of the set may serve the tenant
         read    : 0 .. MaxFCnt + 1,  \* f_cnt_up of the row that was loaded
         status  : Status,        \* storage::device::ValidationStatus
         devFCnt : 0 .. MaxFCnt + 1]  \* f_cnt_up of the returned Device

NoTask == [fCnt |-> 0, matches |-> TRUE, read |-> 0, status |-> "none", devFCnt |-> 0]

TypeOK ==
  /\ fCntUp \in 0 .. MaxFCnt + 1
  /\ pc \in [Handler -> {"idle", "get", "incr", "filter", "event", "update"}]
  /\ task \in [Handler -> Task]
  /\ delivered \in [Frame -> 0 .. 2]
  /\ last \in -1 .. MaxFCnt
  /\ reopened \subseteq Frame

Init ==
  /\ fCntUp = 0
  /\ pc = [h \in Handler |-> "idle"]
  /\ task = [h \in Handler |-> NoTask]
  /\ delivered = [c \in Frame |-> 0]
  /\ last = -1
  /\ reopened = {}

-----------------------------------------------------------------------------
(* Faulty variant: the last counter is not taken for a re-transmission.    *)
FaultyFullFCntUp(expected, truncated) ==
  (expected + ((truncated - (expected % FCntModulus)) % FCntModulus)) % U32

(* get_full_f_cnt_up: the full counter for the transmitted 16 bits, given  *)
(* the next expected one.  next_expected - 1 wraps in a release build.     *)
FullFCntUp(expected, truncated) ==
  IF truncated = ((expected % FCntModulus) - 1) % FCntModulus
  THEN (expected - 1) % U32
  ELSE (expected + ((truncated - (expected % FCntModulus)) % FCntModulus)) % U32

(* The MIC is tried with the full counter and, for a counter that was      *)
(* reset, with the transmitted bits alone.  It is valid for the counter    *)
(* the device used, so a valid MIC also settles which counter that was.    *)
MicOk(expected, c) ==
  \/ FullFCntUp(expected, c % FCntModulus) = c
  \/ c % FCntModulus = c

(* A blind write of fCntUp by the handler of frame c lets the counters     *)
(* from the new value up to the old one in again.                          *)
Reopens(newFCntUp, c) == {d \in Frame : newFCntUp <= d /\ d < fCntUp} \ {c}

Finish(h) ==
  /\ pc' = [pc EXCEPT ![h] = "idle"]
  /\ task' = [task EXCEPT ![h] = NoTask]

Busy(h) == pc[h] # "idle"

-----------------------------------------------------------------------------
(* Faulty variants of the actions below, in the way a change to the code   *)
(* might break it.  They are no part of the specification: each shows that *)
(* a property notices the fault.                                           *)

(* The counter is claimed if wins(f_cnt_up, c) instead of f_cnt_up <= c.   *)
FaultyIncr(h, wins(_, _)) ==
  /\ pc[h] = "incr"
  /\ LET c == task[h].fCnt
     IN \/ /\ wins(fCntUp, c)
           /\ fCntUp' = c + 1
           /\ task' = [task EXCEPT ![h] = [@ EXCEPT !.status = "ok", !.devFCnt = c]]
           /\ pc' = [pc EXCEPT ![h] = "filter"]
        \/ /\ ~wins(fCntUp, c)
           /\ UNCHANGED fCntUp
           /\ Finish(h)
  /\ UNCHANGED <<delivered, last, reopened>>
IncrUnconditionally(h) == LET Any(f, c) == TRUE IN FaultyIncr(h, Any)
IncrOnlyAbove(h) == LET Strict(f, c) == f < c IN FaultyIncr(h, Strict)

(* update_device without sync_uplink_f_cnt.                                *)
UpdateWithoutSync(h) ==
  /\ pc[h] = "update"
  /\ fCntUp' = task[h].devFCnt
  /\ reopened' = reopened \cup Reopens(task[h].devFCnt, task[h].fCnt)
  /\ Finish(h)
  /\ UNCHANGED <<delivered, last>>

-----------------------------------------------------------------------------
(* A frame-set of a frame of the device reaches handle_uplink: late, out   *)
(* of order, any number of times, or never.                                *)
Receive(h, c, matches) ==
  /\ ~Busy(h)
  /\ ~Pipelined => \A g \in Handler : Busy(g) => task[g].fCnt = c
  /\ ~PrivateGateways => matches
  /\ pc' = [pc EXCEPT ![h] = "get"]
  /\ task' = [task EXCEPT ![h] = [NoTask EXCEPT !.fCnt = c, !.matches = matches]]
  /\ UNCHANGED <<fCntUp, delivered, last, reopened>>

(* get_for_phypayload_and_incr_f_cnt_up up to its UPDATE: load the row,    *)
(* derive the counter, classify the frame.                                 *)
GetDevice(h) ==
  /\ pc[h] = "get"
  /\ LET c == task[h].fCnt
         Classify(status, devFCnt, next) ==
           /\ task' = [task EXCEPT ![h] = [@ EXCEPT !.read = fCntUp,
                                                    !.status = status,
                                                    !.devFCnt = devFCnt]]
           /\ pc' = [pc EXCEPT ![h] = next]
     IN \/ ~MicOk(fCntUp, c) /\ Finish(h)
        \/ MicOk(fCntUp, c) /\ c >= fCntUp /\ Classify("none", fCntUp, "incr")
        \/ /\ MicOk(fCntUp, c) /\ c < fCntUp
           /\ \/ SkipSession /\ Classify("ok", 0, "filter")
              \/ /\ ~SkipSession /\ c = fCntUp - 1
                 /\ Classify("retransmission", fCntUp, "filter")
              \/ /\ ~SkipSession /\ c # fCntUp - 1
                 /\ Classify("reset", fCntUp, "filter")
  /\ UNCHANGED <<fCntUp, delivered, last, reopened>>

(* UPDATE device SET f_cnt_up = full + 1 WHERE f_cnt_up <= full.  Without  *)
(* an updated row the handler ends with FCntUpAlreadyUpdated.              *)
IncrFCntUp(h) ==
  /\ pc[h] = "incr"
  /\ LET c == task[h].fCnt
     IN \/ /\ fCntUp <= c
           /\ fCntUp' = c + 1
           /\ task' = [task EXCEPT ![h] = [@ EXCEPT !.status = "ok", !.devFCnt = c]]
           /\ pc' = [pc EXCEPT ![h] = "filter"]
        \/ /\ fCntUp > c
           /\ UNCHANGED fCntUp
           /\ Finish(h)
  /\ UNCHANGED <<delivered, last, reopened>>

(* filter_rx_info_by_tenant when no gateway is left: "restore" f_cnt_up.   *)
FilterFails(h) ==
  /\ pc[h] = "filter"
  /\ ~task[h].matches
  /\ fCntUp' = task[h].devFCnt
  /\ reopened' = reopened \cup Reopens(task[h].devFCnt, task[h].fCnt)
  /\ Finish(h)
  /\ UNCHANGED <<delivered, last>>

(* filter_rx_info_by_tenant with a gateway left, then                      *)
(* handle_retransmission_reset, which ends the flow of a frame that is a   *)
(* re-transmission or a counter reset.                                     *)
FilterPasses(h) ==
  /\ pc[h] = "filter"
  /\ task[h].matches
  /\ \/ /\ task[h].status = "ok" \/ SkipDevice
        /\ pc' = [pc EXCEPT ![h] = "event"]
        /\ UNCHANGED task
     \/ /\ task[h].status # "ok" /\ ~SkipDevice
        /\ Finish(h)
  /\ UNCHANGED <<fCntUp, delivered, last, reopened>>

(* send_uplink_event.                                                      *)
SendUplinkEvent(h) ==
  /\ pc[h] = "event"
  /\ LET c == task[h].fCnt
     IN /\ delivered' = [delivered EXCEPT ![c] = IF @ < 2 THEN @ + 1 ELSE 2]
        /\ last' = c
  /\ pc' = [pc EXCEPT ![h] = "update"]
  /\ UNCHANGED <<fCntUp, task, reopened>>

(* sync_uplink_f_cnt and update_device: the row is written unconditionally.*)
UpdateDevice(h) ==
  /\ pc[h] = "update"
  /\ LET c == task[h].fCnt
     IN /\ fCntUp' = c + 1
        /\ reopened' = reopened \cup Reopens(c + 1, c)
  /\ Finish(h)
  /\ UNCHANGED <<delivered, last>>

(* A call between two steps returns an error (decryption, Redis, region    *)
(* configuration), which ends the handler; when the process stops all of   *)
(* them end.  The database row stays as it is.                             *)
Abort(h) ==
  /\ Failures
  /\ Busy(h)
  /\ Finish(h)
  /\ UNCHANGED <<fCntUp, delivered, last, reopened>>

HandlerStep(h) ==
  \/ GetDevice(h)
  \/ IncrFCntUp(h)
  \/ FilterFails(h)
  \/ FilterPasses(h)
  \/ SendUplinkEvent(h)
  \/ UpdateDevice(h)

Next ==
  \/ \E h \in Handler, c \in Frame, matches \in BOOLEAN : Receive(h, c, matches)
  \/ \E h \in Handler : HandlerStep(h) \/ Abort(h)

Spec == Init /\ [][Next]_vars

(* tokio keeps polling a spawned handler until it returns.                 *)
FairSpec == Spec /\ \A h \in Handler : WF_vars(HandlerStep(h))

-----------------------------------------------------------------------------
(* The frame-counter is validated: neither skip flag is set.               *)
StrictFCnt == ~SkipSession /\ ~SkipDevice

(* Two uplink events for one frame have exactly one cause: an              *)
(* unconditional write of f_cnt_up by the handler of another frame moved   *)
(* the counter back.  The conditional UPDATE alone lets no frame through   *)
(* twice, whatever the copies of that frame do.                            *)
RedeliveryNeedsReopen ==
  StrictFCnt => \A c \in Frame : delivered[c] > 1 => c \in reopened

(* Why RedeliveryNeedsReopen holds: a handler that won the conditional     *)
(* UPDATE claims its counter until it sent the event.  A counter that is   *)
(* claimed or delivered was passed by f_cnt_up, so only a reopened counter *)
(* is claimed by two handlers, or claimed after it was delivered.          *)
Claims(h, c) == pc[h] \in {"filter", "event"} /\ task[h].status = "ok" /\ task[h].fCnt = c
Passed(c) == fCntUp > c \/ c \in reopened

WorkIsValid ==
  \A h \in Handler :
    /\ pc[h] = "event" => task[h].status = "ok"
    /\ pc[h] = "filter" => IF task[h].status = "ok" THEN task[h].devFCnt = task[h].fCnt
                                                   ELSE task[h].devFCnt > task[h].fCnt
ClaimedIsPassed == \A h \in Handler, c \in Frame : Claims(h, c) => Passed(c)
DeliveredIsPassed == \A c \in Frame : delivered[c] > 0 => Passed(c)
ClaimedIsNew ==
  \A h \in Handler, c \in Frame : Claims(h, c) /\ delivered[c] > 0 => c \in reopened
ClaimedOnce ==
  \A g, h \in Handler, c \in Frame : g # h /\ Claims(g, c) /\ Claims(h, c) => c \in reopened
SentOnce == \A c \in Frame : delivered[c] > 1 => c \in reopened
ClaimInv ==
  StrictFCnt => /\ WorkIsValid /\ ClaimedIsPassed /\ DeliveredIsPassed
                /\ ClaimedIsNew /\ ClaimedOnce /\ SentOnce

(* While every frame is handled before the next one arrives, uplink events *)
(* are in strictly increasing counter order (no frame twice, none late),   *)
(* whatever copies, gateway filters and failures do.                       *)
Abstract == INSTANCE InOrderUplink
RefinesInOrderUplink == Abstract!Spec

(* Why that refinement holds: the handlers at work are all about one       *)
(* counter c.  The one that claimed it (if any) is alone, has f_cnt_up at  *)
(* c + 1 and, until it sends, a larger counter than the last event; what a *)
(* copy may write back is the value it was classified with.  No frame      *)
(* above the last event was delivered.                                     *)
Holds(h) == pc[h] \in {"filter", "event", "update"} /\ task[h].status = "ok"
OneFrame == \A g, h \in Handler : Busy(g) /\ Busy(h) => task[g].fCnt = task[h].fCnt
OneHolder == \A g, h \in Handler : Holds(g) /\ Holds(h) => g = h
HolderIsNext ==
  \A h \in Handler : Holds(h) => /\ fCntUp = task[h].fCnt + 1
                                 /\ task[h].devFCnt = task[h].fCnt
                                 /\ pc[h] # "update" => last < task[h].fCnt
CopyIsHarmless ==
  \A h \in Handler :
    /\ pc[h] \in {"event", "update"} => Holds(h)
    /\ pc[h] = "filter" /\ ~Holds(h) =>
         \/ /\ task[h].devFCnt = task[h].fCnt + 1
            /\ fCntUp \in {task[h].fCnt, task[h].fCnt + 1}
         \/ /\ task[h].devFCnt = fCntUp
            /\ fCntUp > task[h].fCnt + 1
NoneAhead == \A c \in Frame : delivered[c] > 0 => c <= last
OrderInv ==
  StrictFCnt /\ ~Pipelined => /\ last < fCntUp
                             /\ OneFrame /\ OneHolder /\ HolderIsNext /\ CopyIsHarmless
                             /\ NoneAhead

(* As long as the device is at most FCntModulus - 2 counters ahead of the  *)
(* row, or repeats its last counter, the full counter is recovered from    *)
(* the transmitted bits.                                                   *)
WindowRecovered ==
  \A c \in Frame : fCntUp - 1 <= c /\ c <= fCntUp + FCntModulus - 2
                     => FullFCntUp(fCntUp, c % FCntModulus) = c

(* A new frame leads to its uplink event although copies of it compete for *)
(* the counter.  Only a copy that no gateway of the tenant received can    *)
(* take it away: it claims the counter, and is filtered out.               *)
Fresh(c) == \E h \in Handler : /\ pc[h] = "get"
                               /\ task[h].fCnt = c
                               /\ c >= fCntUp
                               /\ MicOk(fCntUp, c)
PrivateCopy(c) == \E h \in Handler : Busy(h) /\ task[h].fCnt = c /\ ~task[h].matches
FreshUplinkDelivered ==
  \A c \in Frame : Fresh(c) ~> delivered[c] > 0 \/ PrivateCopy(c)

(* The comment in filter_rx_info_by_tenant: a frame-set without a gateway  *)
(* of the tenant restores the original f_cnt_up of the device.             *)
FilterRestoresFCntUp ==
  [][\A h \in Handler : FilterFails(h) => fCntUp' = task[h].read]_vars
=============================================================================
