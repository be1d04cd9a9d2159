----------------------------- MODULE MacCommands -----------------------------
(***************************************************************************)
(* The MAC-commands the network-server exchanges with one device: what it  *)
(* asks for with each downlink, what it remembers as pending, and what it  *)
(* makes of the answers.  Uplinks and downlinks may be lost, and a server  *)
(* may stop before it sends, so the server's belief (the device-session)   *)
(* and the device drift apart and have to find each other again.           *)
(*                                                                         *)
(* One exchange at a time: an uplink is handled, and its response sent,    *)
(* before the device transmits again (DeviceDownlink has the overlapping   *)
(* flows).  Abstractions: the parameters that are set by a request of one  *)
(* value (Param) carry that value as a number; a user-defined channel is   *)
(* its frequency and data-rates; SNR is what Adr says; the device is the   *)
(* LoRaWAN specification's.  The lists of a relay are in RelayLists.       *)
(***************************************************************************)
EXTENDS ChannelMask, Adr, RelayLists

CONSTANTS
  Scenarios,    \* the networks and devices of a run, see Init
  RegionMaxTx,  \* largest power index of the region
  MaxErrors,    \* network.max_mac_command_error_count
  MaxChannels   \* channels in one NewChannelReq block; 3 in the code

ASSUME MacAssumption == RegionMaxTx \in Nat \ {0} /\ {MaxErrors, MaxChannels} \subseteq Nat

Sticky == {"RxParam", "RxTiming"}   \* answered until a downlink arrives
Counted == {"RxParam", "PingSlot"}  \* refusals are counted
Checked == Counted \cup {"RelayConf", "EndDeviceConf"}  \* they change nothing
Param == {"Rejoin", "PingSlot", "RxParam", "RxTiming", "TxParam",
          "RelayConf", "FwdLimit", "EndDeviceConf"}
ListCid == {"FilterList", "UpdateUplinkList", "CtrlUplinkList"}
Cid == {"NewChannel", "LinkADR"} \cup Param \cup ListCid

(* A scenario is a network (first), what it may become (later, and so on;  *)
(* networks has all of these) and a device.  The channels every device     *)
(* knows are the region's: no configuration changes them.  A device can    *)
(* refuse only the parameters whose answer has a status.                   *)
IsNetwork(n) ==
  /\ IsPlan(n.plan) /\ n.maxDr \in Nat
  /\ DOMAIN n.members \subseteq Nat \ {0}

IsScenario(sc) ==
  /\ sc.first \in sc.networks
  /\ \A n \in sc.networks :
       IsNetwork(n) /\ n.later \subseteq sc.networks /\ Default(n.plan) = Default(sc.first.plan)
  /\ sc.adr \in BOOLEAN /\ sc.powers \subseteq Nat /\ sc.refuses \subseteq Checked
  /\ sc.link \subseteq Int /\ sc.moves \in Nat /\ sc.maxLost \in Nat

ASSUME ScenariosAssumption == \A sc \in Scenarios : IsScenario(sc)

VARIABLES
  scenario,  \* what the network and the device are like; it never changes
  config,    \* what the network wants: channel-plan, parameters, ADR, relay
  session,   \* the device-session: what the server believes and waits for
  phase,     \* "idle", "respond" (an uplink was handled) or "air"
  must,      \* the response must be sent even if there is nothing to ask
  air,       \* the requests of the downlink that is on its way, by command
  device,    \* the device: what it uses and what it has to answer
  refused,   \* power indices the device was heard to refuse (an observer)
  mismatch   \* an answer was taken for that to a later request (an observer)

vars == <<scenario, config, session, phase, must, air, device, refused, mismatch>>

----------------------------------------------------------------------------
(* Data-rates of a NewChannelReq.  Where the region has gaps, sets with a   *)
(* gap have codes of their own, and those that have no code are an error.  *)

GapSets == [k \in 1 .. 6 |-> (k - 1) .. 5 \cup {12, 13}]

Consecutive(drs) == drs = Min(drs) .. Max(drs)

Encodable(plan, drs) == plan.gaps => Consecutive(drs) \/ \E k \in 1 .. 6 : drs = GapSets[k]

DrRange(plan, drs) ==
  IF plan.gaps /\ ~Consecutive(drs)
  THEN <<CHOOSE k \in 1 .. 6 : drs = GapSets[k], 0>>
  ELSE <<Min(drs), Max(drs)>>

DataRates(range) ==
  IF range[2] < range[1] THEN GapSets[range[1]] ELSE range[1] .. range[2]

(* The user-defined channels of the plan that device and channel share a   *)
(* data-rate on, with those data-rates.                                    *)
WantedChannels(cfg) ==
  [c \in {c \in cfg.plan.user : cfg.user[c].drs \cap cfg.supported # {}} |->
     [freq |-> cfg.user[c].freq, drs |-> cfg.user[c].drs \cap cfg.supported]]

----------------------------------------------------------------------------
(* The requests of a downlink: a function from the commands, of which each *)
(* is asked for at most once, to what is asked.                            *)

CidOrder == <<"NewChannel", "LinkADR", "Rejoin", "PingSlot", "RxParam", "RxTiming", "TxParam",
              "RelayConf", "FilterList", "UpdateUplinkList", "CtrlUplinkList", "FwdLimit",
              "EndDeviceConf">>

Places(reqs) == {i \in DOMAIN CidOrder : CidOrder[i] \in DOMAIN reqs}

(* As many of the requests, in the order they are sent, as there is room.  *)
FirstOf(reqs, n) == [c \in {CidOrder[i] : i \in 1 .. n} \cap DOMAIN reqs |-> reqs[c]]

Restricted(reqs, cids) == [c \in DOMAIN reqs \cap cids |-> reqs[c]]

Lowest(S, n) == {c \in S : Cardinality({d \in S : d < c}) < n}

(* Channels that are not wanted any more are forgotten; the mask request   *)
(* disables them.                                                          *)
DropChannels(cfg, s) ==
  [s EXCEPT !.extra = [c \in DOMAIN s.extra \cap DOMAIN WantedChannels(cfg) |-> s.extra[c]]]

AddChannels(cfg, s, missing) ==
  LET wanted  == WantedChannels(cfg)
      items   == [c \in Lowest(missing, MaxChannels) |->
                    [freq |-> wanted[c].freq, range |-> DrRange(cfg.plan, wanted[c].drs)]]
  IN IF missing = {} THEN << >> ELSE [NewChannel |-> items]

(* A faulty form: channels whose data-rates changed are not asked for.     *)
NewChannelReqOnce(cfg, s) == AddChannels(cfg, s, DOMAIN WantedChannels(cfg) \ DOMAIN s.extra)

NewChannelReq(cfg, s) ==
  LET wanted == WantedChannels(cfg)
  IN AddChannels(cfg, s, {c \in DOMAIN wanted : c \notin DOMAIN s.extra \/ s.extra[c] # wanted[c]})

AdrRequest(cfg, s, uplinkDr) ==
  [adr |-> s.adr, dr |-> uplinkDr, txPower |-> s.txPower, nbTrans |-> s.nbTrans,
   maxTxPower |-> IF s.maxTx # 0 THEN s.maxTx ELSE RegionMaxTx,
   maxDr |-> cfg.maxDr, history |-> s.history]

FirstBlock(s) ==
  LET b == Block(Min(s.enabled)) IN [k \in {b} |-> {c \in s.enabled : Block(c) = b}]

LinkADRReq(cfg, s, uplinkDr) ==
  LET masks  == Payloads(cfg.plan, s.enabled)
      resp   == DefaultAdr(AdrRequest(cfg, s, uplinkDr))
      change == cfg.adr /\ resp # [dr |-> uplinkDr, txPower |-> s.txPower, nbTrans |-> s.nbTrans]
      ask(m, r) == [LinkADR |-> [masks |-> m, dr |-> r.dr, txPower |-> r.txPower, nbTrans |-> r.nbTrans]]
  IN IF masks # << >> /\ change THEN ask(masks, resp)
     ELSE IF masks # << >> THEN ask(masks, s)
     ELSE IF change THEN ask(FirstBlock(s), resp)
     ELSE << >>

ParamReqs(cfg, s) == [p \in {p \in Param : s.param[p] # cfg.param[p]} |-> cfg.param[p]]

ListReq(cfg, s) ==
  IF cfg.isRelay THEN RelayReq(cfg.members, s.relay) ELSE NoRelayReq(s.relay)

(* All requests: those the device has refused too often are left out, and  *)
(* a LinkADRReq does not go together with a NewChannelReq.                 *)
SetMacCommands(cfg, s, new, link, lists) ==
  LET asked      == Over(new, Over(link, Over(lists, ParamReqs(cfg, s))))
      allowed(c) == s.errors[c] <= MaxErrors
      together   == IF "NewChannel" \in DOMAIN new /\ allowed("NewChannel")
                    THEN Cid \ {"LinkADR"} ELSE Cid
  IN Restricted(asked, {c \in together : allowed(c)})

SetPending(s, reqs) == [s EXCEPT !.pending = Over(reqs, @)]

----------------------------------------------------------------------------
(* The answers of an uplink.  Each handler looks at the request that is     *)
(* pending for the answer; without one it changes nothing.                 *)

Answered(s, answers) == DOMAIN answers \cap DOMAIN s.pending

Refusal(s, c) == [s EXCEPT !.errors[c] = @ + 1]

ChannelsAcked(s, req, ans, acked) ==
  LET trailing == {c \in DOMAIN req \ acked : \A a \in acked : a < c}
  IN IF DOMAIN ans # DOMAIN req THEN s
     ELSE [s EXCEPT
             !.errors["NewChannel"] = Cardinality(trailing) + (IF acked = {} THEN @ ELSE 0),
             !.enabled = @ \cup acked,
             !.extra = [c \in DOMAIN @ \cup acked |->
                          IF c \in acked
                          THEN [freq |-> req[c].freq, drs |-> DataRates(req[c].range)]
                          ELSE @[c]]]

(* A faulty form: one channel that is accepted stands for all of them.     *)
HandleNewChannelAsOne(s, req, ans) ==
  ChannelsAcked(s, req, ans, IF \E c \in DOMAIN req : ans[c] THEN DOMAIN req ELSE {})

HandleNewChannel(s, req, ans) == ChannelsAcked(s, req, ans, {c \in DOMAIN req : ans[c]})

LinkADRAcked(cfg, s, req, ans) ==
  LET all     == ans.dr /\ ans.power
      changed == <<s.dr, s.txPower, s.nbTrans>> # <<req.dr, req.txPower, req.nbTrans>>
      cleared == [s EXCEPT !.errors["LinkADR"] = 0]
  IN IF ~MaskFits(cfg.plan, req.masks) THEN cleared
     ELSE [cleared EXCEPT
             !.enabled = Applied(cfg.plan.channels, @, req.masks),
             !.history = IF all /\ changed THEN <<>> ELSE @,
             !.nbTrans = req.nbTrans,
             !.dr      = IF ans.dr THEN req.dr ELSE @,
             !.txPower = IF ans.power THEN req.txPower ELSE @]

(* A refused power is learned from and is no error: index 0 is avoided,    *)
(* any other index lowers the largest one that is asked for.               *)
LearnPower(s, req, ans, max) ==
  LET avoidsZero == ~ans.power /\ req.txPower = 0
      minTx      == IF avoidsZero THEN 1 ELSE s.minTx
      lowersMax  == ~ans.power /\ req.txPower > minTx
  IN IF ~(avoidsZero \/ lowersMax) THEN Refusal(s, "LinkADR")
     ELSE [s EXCEPT !.txPower = IF avoidsZero THEN 1 ELSE @,
                    !.minTx   = minTx,
                    !.maxTx   = IF lowersMax THEN max ELSE @]

LinkADRRefusedKeepsMax(s, req, ans) == LearnPower(s, req, ans, req.txPower)   \* faulty

LinkADRRefused(s, req, ans) == LearnPower(s, req, ans, req.txPower - 1)

HandleLinkADR(cfg, s, req, ans) ==
  IF ans.mask /\ (~s.adr \/ (ans.dr /\ ans.power))
  THEN LinkADRAcked(cfg, s, req, ans)
  ELSE LinkADRRefused(s, req, ans)

(* RxTimingSetupAns, TxParamSetupAns, RejoinParamSetupAns and              *)
(* ConfigureFwdLimitAns are an acknowledgement whatever they say.          *)
ParamsAcked(s, answers, refusals) ==
  LET got   == Param \cap Answered(s, answers)
      acked == got \ refusals
  IN [s EXCEPT
        !.param  = [p \in Param |-> IF p \in acked THEN s.pending[p] ELSE @[p]],
        !.errors = [c \in Cid |-> IF c \notin got \cap Counted THEN @[c]
                                 ELSE IF c \in acked THEN 0 ELSE @[c] + 1]]

HandleParamsUnchecked(s, answers) == ParamsAcked(s, answers, {})   \* faulty

HandleParams(s, answers) ==
  ParamsAcked(s, answers, {p \in Checked \cap DOMAIN answers : ~answers[p]})

HandleAnswers(cfg, s, answers) ==
  LET handled ==
        IF "LinkADR" \in Answered(s, answers)
        THEN HandleLinkADR(cfg, s, s.pending["LinkADR"], answers["LinkADR"])
        ELSE IF "NewChannel" \in Answered(s, answers)
        THEN HandleNewChannel(s, s.pending["NewChannel"], answers["NewChannel"])
        ELSE s
  IN [HandleParams(handled, answers) EXCEPT
        !.relay   = RelayAnswered(@, s.pending, ListCid \cap Answered(s, answers)),
        !.pending = [c \in DOMAIN @ \ DOMAIN answers |-> @[c]]]

----------------------------------------------------------------------------
(* The rest of what an uplink does to the device-session.                  *)

SetUplinkDataRate(s, dr) ==
  IF s.dr = dr THEN s ELSE [s EXCEPT !.dr = dr, !.txPower = 0, !.history = <<>>]

ResetChannels(cfg, s, ackReq) ==
  IF ackReq \/ s.enabled = {}
  THEN [s EXCEPT !.enabled = Default(cfg.plan), !.extra = << >>]
  ELSE s

AppendHistory(s, snr, lost) ==
  LET longer == Append(s.history, [snr |-> snr, txPower |-> s.txPower, lost |-> lost])
  IN [s EXCEPT !.history = SubSeq(longer, Max({1, Len(longer) - HistorySize + 1}), Len(longer))]

----------------------------------------------------------------------------
(* The device.  What it answers to a request, and what the request changes. *)

Knows(d, cfg) == Default(cfg.plan) \cup DOMAIN d.known

NewMask(d, cfg, masks) == Applied(Knows(d, cfg), d.enabled, masks)

DeviceLinkADR(d, cfg, req) ==
  LET mask  == NewMask(d, cfg, req.masks)
      known == \A b \in DOMAIN req.masks : req.masks[b] \subseteq Knows(d, cfg)
      ok    == known /\ mask # {}
      dr    == scenario.adr \/ req.dr = d.dr
      power == IF scenario.adr THEN req.txPower \in scenario.powers ELSE req.txPower = d.txPower
      d2    == [d EXCEPT !.once = Over([LinkADR |-> [mask |-> ok, dr |-> dr, power |-> power]], @)]
  IN IF ok /\ (~scenario.adr \/ (dr /\ power))
     THEN [d2 EXCEPT !.enabled = mask, !.dr = IF dr THEN req.dr ELSE @,
                     !.txPower = IF power THEN req.txPower ELSE @]
     ELSE d2

DeviceNewChannel(d, req) ==
  LET ok(c) == req[c].freq \in scenario.freqs
      added == {c \in DOMAIN req : ok(c)}
  IN [d EXCEPT
        !.once    = Over([NewChannel |-> [c \in DOMAIN req |-> ok(c)]], @),
        !.enabled = @ \cup added,
        !.known   = [c \in DOMAIN @ \cup added |->
                       IF c \in added THEN [freq |-> req[c].freq, drs |-> DataRates(req[c].range)]
                                      ELSE @[c]]]

DeviceParams(d, reqs) ==
  LET set   == Param \cap DOMAIN reqs
      ok(p) == p \notin scenario.refuses
  IN [d EXCEPT
        !.param  = [p \in Param |-> IF p \in set /\ ok(p) THEN reqs[p] ELSE @[p]],
        !.sticky = [p \in set \cap Sticky |-> [ok |-> ok(p), req |-> reqs[p]]],
        !.once   = Over([p \in set \ Sticky |-> ok(p)], @)]

DeviceDownlink(d, cfg, reqs) ==
  LET heard == [d EXCEPT !.ackReq = FALSE,
                         !.relay  = RelayReceives(@, reqs),
                         !.once   = Over([c \in ListCid \cap DOMAIN reqs |-> TRUE], @)]
      first == IF "LinkADR" \in DOMAIN reqs THEN DeviceLinkADR(heard, cfg, reqs["LinkADR"])
               ELSE IF "NewChannel" \in DOMAIN reqs THEN DeviceNewChannel(heard, reqs["NewChannel"])
               ELSE heard
  IN DeviceParams(first, reqs)

Answers(d) == Over([p \in DOMAIN d.sticky |-> d.sticky[p].ok], d.once)

----------------------------------------------------------------------------

Init ==
  /\ scenario \in Scenarios
  /\ config = scenario.first
  /\ session = [adr |-> scenario.adr, enabled |-> Default(config.plan), extra |-> << >>,
                dr |-> 0, txPower |-> 0, nbTrans |-> 1, minTx |-> 0, maxTx |-> 0,
                param |-> scenario.boot, history |-> <<>>,
                relay |-> NoLists, errors |-> [c \in Cid |-> 0], pending |-> << >>]
  /\ device = [enabled |-> Default(config.plan), known |-> << >>, dr |-> 0, txPower |-> 0,
               param |-> scenario.boot, relay |-> NoLists, ackReq |-> FALSE, once |-> << >>, sticky |-> << >>,
               lost |-> 0, moves |-> scenario.moves]
  /\ phase = "idle" /\ must = FALSE /\ air = << >>
  /\ refused = {} /\ mismatch = FALSE

(* The operator changes the network or device-profile configuration, or    *)
(* the devices under a relay; such a device activates.                     *)
Reconfigure ==
  /\ phase = "idle"
  /\ config' \in config.later
  /\ UNCHANGED <<scenario, session, phase, must, air, device, refused, mismatch>>

(* The device got no downlink for long: it falls back to more power, to a  *)
(* lower data-rate, at last to the default channels, and asks for a sign.  *)
Backoff ==
  /\ phase = "idle" /\ device.moves > 0 /\ DOMAIN device.once = {}
  /\ \/ device.txPower > 0 /\ device' = [device EXCEPT !.txPower = 0, !.ackReq = TRUE, !.moves = @ - 1]
     \/ device.txPower = 0 /\ device.dr > 0
        /\ device' = [device EXCEPT !.dr = @ - 1, !.ackReq = TRUE, !.moves = @ - 1]
     \/ device.txPower = 0 /\ device.dr = 0
        /\ \E known \in {device.known, << >>} :
             device' = [device EXCEPT !.enabled = Default(config.plan), !.known = known,
                                      !.ackReq = TRUE, !.moves = @ - 1]
  /\ UNCHANGED <<scenario, config, session, phase, must, air, refused, mismatch>>

UplinkLost ==
  /\ phase = "idle"
  /\ device' = [device EXCEPT !.once = << >>, !.lost = Min({scenario.maxLost, @ + 1})]
  /\ UNCHANGED <<scenario, config, session, phase, must, air, refused, mismatch>>

(* An uplink is handled up to the point where the session is saved.        *)
UplinkReceived ==
  /\ phase = "idle" /\ phase' = "respond"
  /\ \E budget \in scenario.link,
        seen \in {SetUplinkDataRate([session EXCEPT !.adr = scenario.adr], device.dr)} :
     \E answered \in {HandleAnswers(config, ResetChannels(config, seen, device.ackReq),
                                     Answers(device))} :
       session' = AppendHistory(answered, budget - 4 * device.txPower, device.lost)
  /\ must' = (device.ackReq \/ DOMAIN device.sticky # {})
  /\ device' = [device EXCEPT !.once = << >>, !.lost = 0]
  /\ refused' = IF "LinkADR" \in DOMAIN device.once \cap DOMAIN session.pending
                   /\ ~device.once["LinkADR"].power
                THEN refused \cup {session.pending["LinkADR"].txPower} ELSE refused
  /\ mismatch' = (mismatch \/ \E p \in DOMAIN device.sticky \cap DOMAIN session.pending :
                                device.sticky[p].req # session.pending[p])
  /\ UNCHANGED <<scenario, config, air>>

(* The response: the requests up to the k-th command fit the larger of the *)
(* two receive-windows, up to the j-th the one the gateway transmits in;   *)
(* if the first does not fit, the response goes out without requests.      *)
Respond ==
  /\ phase = "respond" /\ phase' = "air" /\ must' = FALSE
  /\ \A c \in DOMAIN WantedChannels(config) :
       Encodable(config.plan, WantedChannels(config)[c].drs)
  /\ \E s \in {DropChannels(config, session)}, asked \in {ListReq(config, session)} :
     \E new \in {NewChannelReq(config, s)}, link \in {LinkADRReq(config, s, device.dr)},
        lists \in {ListCommands(asked)} :
     \E reqs \in {SetMacCommands(config, s, new, link, lists)} :
     \E k \in {0} \cup Places(reqs), j \in {0} \cup Places(reqs) :
       /\ j <= k
       /\ DOMAIN reqs # {} \/ must
       /\ session' = SetPending([s EXCEPT !.relay = ListRows(asked)], FirstOf(reqs, k))
       /\ air' = FirstOf(reqs, j)
  /\ UNCHANGED <<scenario, config, device, refused, mismatch>>

(* Nothing to send; or the flow fails or the server stops before it saves. *)
NoResponse ==
  /\ phase = "respond"
  /\ phase' = "idle" /\ must' = FALSE
  /\ UNCHANGED <<scenario, config, session, air, device, refused, mismatch>>

(* The device listens where its own RX1 delay says; a server that believes *)
(* in another delay is not heard.                                          *)
DownlinkReceived ==
  /\ phase = "air" /\ phase' = "idle" /\ air' = << >>
  /\ session.param["RxTiming"] = device.param["RxTiming"]
  /\ device' = DeviceDownlink(device, config, air)
  /\ UNCHANGED <<scenario, config, session, must, refused, mismatch>>

DownlinkLost ==   \* or the server stops between update_device and send
  /\ phase = "air"
  /\ phase' = "idle" /\ air' = << >>
  /\ UNCHANGED <<scenario, config, session, must, device, refused, mismatch>>

Next ==
  \/ Reconfigure \/ Backoff
  \/ UplinkLost \/ UplinkReceived
  \/ Respond \/ NoResponse
  \/ DownlinkReceived \/ DownlinkLost

Spec == Init /\ [][Next]_vars

(* The device keeps transmitting, every uplink is dealt with and every     *)
(* downlink arrives or is lost (a phase that is left in another way is     *)
(* left, too); losses do not pick out the uplinks that carry answers; not  *)
(* every response with requests fails and not every such downlink is lost, *)
(* and the first request fits the receive-window again and again.          *)
AnswersReceived == DOMAIN device.once # {} /\ UplinkReceived

RequestsSent == Respond /\ air' # << >>

RequestsReceived == air # << >> /\ DownlinkReceived

FairSpec ==
  /\ Spec
  /\ WF_vars(UplinkReceived) /\ WF_vars(NoResponse) /\ WF_vars(DownlinkLost)
  /\ SF_vars(AnswersReceived) /\ SF_vars(RequestsSent) /\ SF_vars(RequestsReceived)

----------------------------------------------------------------------------
(* Properties.                                                             *)

TypeOK ==
  /\ phase \in {"idle", "respond", "air"} /\ must \in BOOLEAN /\ mismatch \in BOOLEAN
  /\ session.enabled \subseteq Nat /\ DOMAIN session.extra \subseteq Nat
  /\ session.dr \in Nat /\ session.txPower \in 0 .. RegionMaxTx /\ session.nbTrans \in 1 .. 3
  /\ session.minTx \in 0 .. 1 /\ session.maxTx \in 0 .. RegionMaxTx
  /\ Len(session.history) <= HistorySize
  /\ session.errors \in [Cid -> Nat] /\ DOMAIN session.pending \subseteq Cid
  /\ refused \subseteq 0 .. RegionMaxTx

(* A LinkADRReq never enables a channel the device has not been given,     *)
(* although the answers that say what it was given get lost and it may     *)
(* fall back to its default channels.  Nor does it ever leave the device   *)
(* without a channel, if the network wants one of the default channels and *)
(* its channel-plan stays what it is: a change of the plan while the       *)
(* answer to the last request is lost can.                                 *)
PlanStays ==
  /\ \A n \in scenario.networks : n.plan = config.plan
  /\ config.plan.enabled \cap Default(config.plan) # {}

MasksAreKnown ==
  "LinkADR" \in DOMAIN air =>
    LET masks == air["LinkADR"].masks
    IN /\ \A b \in DOMAIN masks : masks[b] \subseteq Knows(device, config)
       /\ PlanStays => NewMask(device, config, masks) # {}

(* A power index that was refused is not asked for again: the largest index *)
(* that is asked for only goes down (link_adr::handle).  This is so if the *)
(* device supports the indices from 0 to some index above 0: index 0 is    *)
(* asked for again after every change of the data-rate, and a largest      *)
(* index of 0 stands for none.                                             *)
ContiguousPowers ==
  /\ {0, 1} \subseteq scenario.powers
  /\ \A p \in scenario.powers : 0 .. p \subseteq scenario.powers

NeverAsksRefused ==
  ContiguousPowers /\ "LinkADR" \in DOMAIN air => air["LinkADR"].txPower \notin refused

(* Server and device agree on a receive parameter unless the device is     *)
(* still repeating its answer, or the answer was taken for one to a later  *)
(* request.                                                                *)
ReceiveParamsAgree ==
  \A p \in Sticky : session.param[p] = device.param[p] \/ p \in DOMAIN device.sticky \/ mismatch

(* A relay has every list entry the server takes for acknowledged, unless  *)
(* it was told to remove it, although an answer names no entry, slots are  *)
(* used again and answers get lost.                                        *)
RelayKnows == Holds(device.relay, session.relay)

(* When the link is steady, the device ends with the channels, data-rates  *)
(* and parameters the network wants, as far as it supports them, and the   *)
(* requests that still go out ask for what it already has, or refuses: a   *)
(* refused RelayConfReq is not counted and asked for ever (relay_conf.rs). *)
InPlace ==
  /\ device.enabled = Wanted(config.plan, DOMAIN device.known)
  /\ \A c \in DOMAIN WantedChannels(config) :
       WantedChannels(config)[c].freq \in scenario.freqs
         => c \in DOMAIN device.known /\ device.known[c] = WantedChannels(config)[c]
  /\ \A p \in Param \ scenario.refuses : device.param[p] = config.param[p]
  /\ config.isRelay => InList(device.relay, config.members)
  /\ \A c \in DOMAIN air \ scenario.refuses :
       c = "LinkADR" /\ air[c].dr = device.dr /\ air[c].txPower = device.txPower
Settles == (scenario.steady => <>[](InPlace \/ mismatch))

(* A device that is activated again ends in the relay's list with its new  *)
(* key: "The device has not yet been provisioned, or the settings must be  *)
(* updated" (data.rs, _update_uplink_list).  The code compares all that    *)
(* the entry holds but the key.                                            *)
KeysSettle ==
  scenario.steady => <>[](config.isRelay => HasKeys(device.relay, config.members))
==============================================================================
