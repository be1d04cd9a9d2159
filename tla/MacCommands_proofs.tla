------------------------- MODULE MacCommands_proofs --------------------------
(***************************************************************************)
(* What is proved of MacCommands, for every network and device: first what *)
(* the channel-mask requests achieve, then that the session and the device *)
(* stay consistent while uplinks and downlinks get lost.                   *)
(***************************************************************************)
EXTENDS MacCommands, FiniteSetTheorems, SequenceTheorems, NaturalsInduction,
        WellFoundedInduction, TLAPS

-----------------------------------------------------------------------------
(* Channel-masks.                                                          *)

(* Blocks are numbered from 0, so the control that is no block differs.    *)
LEMMA AllOffIsNoBlock ==
  ASSUME NEW c \in Nat
  PROVE  Block(c) \in Nat /\ Block(c) # AllOff
BY BlockSizeAssumption DEF Block, AllOff

(* The payloads for the changed blocks bring the device to exactly the    *)
(* channels it may use (RegionBaseConfig, both directions).                *)
THEOREM BlocksReachWanted ==
  ASSUME NEW plan, IsPlan(plan), NEW used \in SUBSET Nat
  PROVE  Applied(plan.channels, used, BlockPayloads(plan, used)) = Wanted(plan, used)
<1> DEFINE B == ChangedBlocks(plan, used)
           P == BlockPayloads(plan, used)
           W == Wanted(plan, used)
<1>1. DOMAIN P = B /\ \A b \in B : P[b] = {c \in W : Block(c) = b}
  BY DEF BlockPayloads
<1>2. \A c \in Nat : Block(c) # AllOff
  BY AllOffIsNoBlock
<1>3. AllOff \notin B
  <2>1. ToChange(plan, used) \subseteq Nat
    BY DEF ToChange, IsPlan
  <2> QED  BY <2>1, <1>2 DEF ChangedBlocks
<1>4. ASSUME NEW c \in Nat PROVE c \in Applied(plan.channels, used, P) <=> c \in W
  <2>1. CASE Block(c) \in B
    BY <2>1, <1>1, <1>2, <1>3 DEF Applied
  <2>2. CASE Block(c) \notin B
    <3>1. c \in Applied(plan.channels, used, P) <=> c \in used \cap plan.channels
      BY <2>2, <1>1, <1>3 DEF Applied
    <3>2. CASE B = {}
      <4>1. \A d \in ToChange(plan, used) : d \notin used /\ d \in plan.user
        BY <3>2 DEF ChangedBlocks
      <4> QED  BY <4>1, <3>1 DEF ToChange, Wanted, IsPlan
    <3>3. CASE B # {}
      <4>1. c \notin ToChange(plan, used)
        BY <3>3, <2>2 DEF ChangedBlocks
      <4> QED  BY <4>1, <3>1 DEF ToChange, Wanted, IsPlan
    <3> QED  BY <3>2, <3>3
  <2> QED  BY <2>1, <2>2
<1>5. Applied(plan.channels, used, P) \subseteq Nat /\ W \subseteq Nat
  BY <1>1, <1>3 DEF Applied, Wanted, IsPlan
<1> QED  BY <1>4, <1>5

(* So do the payloads that start from no narrow channels.                  *)
THEOREM ResetReachesWanted ==
  ASSUME NEW plan, IsPlan(plan), plan.wide # {}, NEW used \in SUBSET Nat
  PROVE  Applied(plan.channels, used, ResetPayloads(plan)) = Wanted(plan, used)
<1> DEFINE N == NarrowBlocks(plan)
           P == ResetPayloads(plan)
<1>1. AllOff \notin N /\ \A c \in Nat : Block(c) # AllOff
  BY AllOffIsNoBlock DEF NarrowBlocks, IsPlan
<1>2. /\ DOMAIN P = N \cup {AllOff}
      /\ P[AllOff] = plan.enabled \cap plan.wide
      /\ \A b \in N : P[b] = {c \in plan.enabled : Block(c) = b}
  BY <1>1 DEF ResetPayloads
<1>3. Wanted(plan, used) = plan.enabled /\ plan.enabled \subseteq Nat
  BY DEF Wanted, IsPlan
<1>4. \A c \in plan.enabled \cap plan.wide : Block(c) \notin N
  BY DEF NarrowBlocks, IsPlan
<1>5. \A c \in plan.enabled \ plan.wide : Block(c) \in N
  BY DEF NarrowBlocks
<1>6. DOMAIN P \ {AllOff} = N
  BY <1>1, <1>2
<1>7. Applied(plan.channels, used, P)
        = {c \in plan.enabled \cap plan.wide : Block(c) \notin N} \cup UNION {P[b] : b \in N}
  BY <1>2, <1>6 DEF Applied
<1>8. UNION {P[b] : b \in N} = {c \in plan.enabled : Block(c) \in N}
  BY <1>2
<1> QED  BY <1>3, <1>4, <1>5, <1>7, <1>8

(* Whichever way is chosen, the acknowledged channels are the wanted ones. *)
THEOREM PayloadsReachWanted ==
  ASSUME NEW plan, IsPlan(plan), NEW used \in SUBSET Nat
  PROVE  Applied(plan.channels, used, Payloads(plan, used)) = Wanted(plan, used)
BY BlocksReachWanted, ResetReachesWanted DEF Payloads, ResetIsShorter

(* A device that has the wanted channels is asked for nothing: one       *)
(* acknowledged request settles the channels.                              *)
THEOREM WantedIsSettled ==
  ASSUME NEW plan, IsPlan(plan), NEW used \in SUBSET Nat
  PROVE  DOMAIN Payloads(plan, Wanted(plan, used)) = {}
<1> DEFINE W == Wanted(plan, used)
<1>1. \A c \in ToChange(plan, W) : c \notin W /\ c \in plan.user
  BY DEF ToChange, Wanted
<1>2. ChangedBlocks(plan, W) = {}
  BY <1>1 DEF ChangedBlocks
<1>3. Cardinality(ChangedBlocks(plan, W)) = 0
  BY <1>2, FS_EmptySet
<1>4. IsFiniteSet(plan.enabled \ plan.wide)
  BY FS_Subset DEF IsPlan
<1>5. IsFiniteSet(NarrowBlocks(plan))
  <2> DEFINE f == [c \in plan.enabled \ plan.wide |-> Block(c)]
  <2>1. f \in Surjection(plan.enabled \ plan.wide, NarrowBlocks(plan))
    BY DEF Surjection, NarrowBlocks
  <2> QED  BY <2>1, <1>4, FS_Surjection
<1>6. /\ IsFiniteSet(NarrowBlocks(plan) \cup {AllOff})
      /\ NarrowBlocks(plan) \cup {AllOff} # {}
  BY <1>5, FS_AddElement
<1>7. Cardinality(NarrowBlocks(plan) \cup {AllOff}) \in Nat \ {0}
  BY <1>6, FS_EmptySet, FS_CardinalityType
<1>8. ~ResetIsShorter(plan, W)
  BY <1>3, <1>7 DEF ResetIsShorter
<1> QED  BY <1>2, <1>8 DEF Payloads, BlockPayloads

(* No request, whatever the device uses, enables a user-defined channel  *)
(* that it does not use.                                                   *)
THEOREM PayloadsEnableKnown ==
  ASSUME NEW plan, IsPlan(plan), NEW used \in SUBSET Nat,
         NEW b \in DOMAIN Payloads(plan, used)
  PROVE  Payloads(plan, used)[b] \subseteq (plan.channels \ plan.user) \cup used
<1>1. CASE ResetIsShorter(plan, used)
  BY <1>1 DEF Payloads, ResetPayloads, ResetIsShorter, IsPlan
<1>2. CASE ~ResetIsShorter(plan, used)
  BY <1>2 DEF Payloads, BlockPayloads, Wanted, IsPlan
<1> QED  BY <1>1, <1>2

-----------------------------------------------------------------------------
(* Session and device are records; an update of some fields keeps the rest. *)

SessionFields == {"adr", "enabled", "extra", "dr", "txPower", "nbTrans", "minTx", "maxTx",
                  "param", "history", "relay", "errors", "pending"}

IsSession(s) == DOMAIN s = SessionFields

DeviceFields == {"enabled", "known", "dr", "txPower", "param", "relay", "ackReq", "once",
                 "sticky", "lost", "moves"}

IsDevice(d) == DOMAIN d = DeviceFields

(* What the handlers of a LinkADRAns and a NewChannelAns leave alone.       *)
SameBeliefs(t, s) ==
  /\ IsSession(t)
  /\ t.param = s.param /\ t.relay = s.relay /\ t.pending = s.pending /\ t.adr = s.adr

LEMMA LinkADRAckedKeeps ==
  ASSUME NEW cfg, NEW s, IsSession(s), NEW req, NEW ans
  PROVE  SameBeliefs(LinkADRAcked(cfg, s, req, ans), s)
BY DEF LinkADRAcked, SameBeliefs, IsSession, SessionFields

LEMMA LearnPowerKeeps ==
  ASSUME NEW s, IsSession(s), NEW req, NEW ans, NEW max
  PROVE  SameBeliefs(LearnPower(s, req, ans, max), s)
BY DEF LearnPower, Refusal, SameBeliefs, IsSession, SessionFields

LEMMA HandleLinkADRKeeps ==
  ASSUME NEW cfg, NEW s, IsSession(s), NEW req, NEW ans
  PROVE  SameBeliefs(HandleLinkADR(cfg, s, req, ans), s)
BY LinkADRAckedKeeps, LearnPowerKeeps DEF HandleLinkADR, LinkADRRefused

LEMMA HandleNewChannelKeeps ==
  ASSUME NEW s, IsSession(s), NEW req, NEW ans
  PROVE  SameBeliefs(HandleNewChannel(s, req, ans), s)
BY DEF HandleNewChannel, ChannelsAcked, SameBeliefs, IsSession, SessionFields

(* The session once the answer to a LinkADRReq or NewChannelReq was taken. *)
Handled(cfg, s, answers) ==
  IF "LinkADR" \in Answered(s, answers)
  THEN HandleLinkADR(cfg, s, s.pending["LinkADR"], answers["LinkADR"])
  ELSE IF "NewChannel" \in Answered(s, answers)
  THEN HandleNewChannel(s, s.pending["NewChannel"], answers["NewChannel"])
  ELSE s

LEMMA HandledKeeps ==
  ASSUME NEW cfg, NEW s, IsSession(s), NEW answers
  PROVE  SameBeliefs(Handled(cfg, s, answers), s)
BY HandleLinkADRKeeps, HandleNewChannelKeeps DEF Handled, SameBeliefs, IsSession

Acked(s, answers) ==
  (Param \cap Answered(s, answers)) \ {p \in Checked \cap DOMAIN answers : ~answers[p]}

(* What the answers change, by field; h is the session in between.         *)
AnswersTaken(t, s, h, answers) ==
  /\ IsSession(t)
  /\ t.adr = s.adr
  /\ t.param = [p \in Param |-> IF p \in Acked(s, answers) THEN s.pending[p] ELSE s.param[p]]
  /\ t.relay = RelayAnswered(s.relay, s.pending, ListCid \cap Answered(s, answers))
  /\ t.pending = [c \in DOMAIN s.pending \ DOMAIN answers |-> s.pending[c]]
  /\ t.enabled = h.enabled /\ t.extra = h.extra /\ t.dr = h.dr
  /\ t.txPower = h.txPower /\ t.nbTrans = h.nbTrans /\ t.history = h.history
  /\ t.minTx = h.minTx /\ t.maxTx = h.maxTx
  /\ t.errors = [c \in Cid |->
                   IF c \notin Param \cap Answered(s, answers) \cap Counted THEN h.errors[c]
                   ELSE IF c \in Acked(s, answers) THEN 0 ELSE h.errors[c] + 1]

LEMMA HandleAnswersFields ==
  ASSUME NEW cfg, NEW s, IsSession(s), NEW answers
  PROVE  AnswersTaken(HandleAnswers(cfg, s, answers), s, Handled(cfg, s, answers), answers)
<1> DEFINE h == Handled(cfg, s, answers)
           got == Param \cap Answered(h, answers)
           p == HandleParams(h, answers)
<1>1. SameBeliefs(h, s)
  BY HandledKeeps
<1>2. Answered(h, answers) = Answered(s, answers)
  BY <1>1 DEF Answered, SameBeliefs
<1>3. HandleAnswers(cfg, s, answers)
        = [p EXCEPT !.relay   = RelayAnswered(@, s.pending, ListCid \cap Answered(s, answers)),
                    !.pending = [c \in DOMAIN @ \ DOMAIN answers |-> @[c]]]
  BY DEF HandleAnswers, Handled
<1> HIDE DEF h
<1>4. /\ IsSession(p)
      /\ p.relay = h.relay /\ p.pending = h.pending /\ p.adr = h.adr
      /\ p.enabled = h.enabled /\ p.extra = h.extra /\ p.dr = h.dr
      /\ p.txPower = h.txPower /\ p.nbTrans = h.nbTrans /\ p.history = h.history
      /\ p.minTx = h.minTx /\ p.maxTx = h.maxTx
  BY <1>1 DEF HandleParams, ParamsAcked, SameBeliefs, IsSession, SessionFields
<1>5. p.param = [q \in Param |-> IF q \in Acked(s, answers) THEN s.pending[q] ELSE s.param[q]]
  BY <1>1, <1>2 DEF HandleParams, ParamsAcked, SameBeliefs, IsSession, SessionFields, Acked
<1>6. p.errors = [c \in Cid |->
                    IF c \notin Param \cap Answered(s, answers) \cap Counted THEN h.errors[c]
                    ELSE IF c \in Acked(s, answers) THEN 0 ELSE h.errors[c] + 1]
  BY <1>1, <1>2 DEF HandleParams, ParamsAcked, SameBeliefs, IsSession, SessionFields, Acked
<1> HIDE DEF p
<1>7. SameBeliefs(p, s) \/ (p.relay = s.relay /\ p.pending = s.pending /\ p.adr = s.adr)
  BY <1>1, <1>4 DEF SameBeliefs
<1> QED
  BY <1>3, <1>4, <1>5, <1>6, <1>7 DEF h, IsSession, SessionFields, SameBeliefs, AnswersTaken

(* What an uplink does before its answers are looked at.                   *)
BeforeAnswers ==
  ResetChannels(config, SetUplinkDataRate([session EXCEPT !.adr = scenario.adr], device.dr),
                device.ackReq)

LEMMA BeforeAnswersFields ==
  ASSUME IsSession(session)
  PROVE  LET b     == BeforeAnswers
             reset == device.ackReq \/ session.enabled = {}
             sameDr == session.dr = device.dr
         IN /\ IsSession(b)
            /\ b.adr = scenario.adr /\ b.dr = device.dr
            /\ b.param = session.param /\ b.relay = session.relay /\ b.pending = session.pending
            /\ b.errors = session.errors /\ b.nbTrans = session.nbTrans
            /\ b.minTx = session.minTx /\ b.maxTx = session.maxTx
            /\ b.txPower = IF sameDr THEN session.txPower ELSE 0
            /\ b.history = IF sameDr THEN session.history ELSE <<>>
            /\ b.enabled = IF reset THEN Default(config.plan) ELSE session.enabled
            /\ b.extra = IF reset THEN << >> ELSE session.extra
<1> DEFINE s1 == [session EXCEPT !.adr = scenario.adr]
           s2 == SetUplinkDataRate(s1, device.dr)
<1>1. /\ IsSession(s1) /\ s1.adr = scenario.adr
      /\ \A f \in SessionFields \ {"adr"} : s1[f] = session[f]
  BY DEF IsSession, SessionFields
<1>2. /\ IsSession(s2) /\ s2.dr = device.dr
      /\ \A f \in SessionFields \ {"adr", "dr", "txPower", "history"} : s2[f] = session[f]
      /\ s2.adr = scenario.adr
      /\ s2.txPower = IF session.dr = device.dr THEN session.txPower ELSE 0
      /\ s2.history = IF session.dr = device.dr THEN session.history ELSE <<>>
  BY <1>1 DEF SetUplinkDataRate, IsSession, SessionFields
<1>3. BeforeAnswers = ResetChannels(config, s2, device.ackReq)
  BY DEF BeforeAnswers
<1> HIDE DEF s2
<1> QED
  BY <1>2, <1>3 DEF ResetChannels, IsSession, SessionFields

LEMMA AppendHistoryFields ==
  ASSUME NEW s, IsSession(s), NEW snr, NEW lost
  PROVE  /\ IsSession(AppendHistory(s, snr, lost))
         /\ \A f \in SessionFields \ {"history"} : AppendHistory(s, snr, lost)[f] = s[f]
BY DEF AppendHistory, IsSession, SessionFields

(* The session after an uplink, by field.                                  *)
LEMMA UplinkReceivedFields ==
  ASSUME IsSession(session), UplinkReceived
  PROVE  LET b       == BeforeAnswers
             answers == Answers(device)
             h       == Handled(config, b, answers)
         IN /\ IsSession(session') /\ session'.adr = scenario.adr
            /\ session'.param = [p \in Param |-> IF p \in Acked(session, answers)
                                                THEN session.pending[p] ELSE session.param[p]]
            /\ session'.relay = RelayAnswered(session.relay, session.pending,
                                              ListCid \cap Answered(session, answers))
            /\ session'.pending
                 = [c \in DOMAIN session.pending \ DOMAIN answers |-> session.pending[c]]
            /\ session'.enabled = h.enabled /\ session'.extra = h.extra /\ session'.dr = h.dr
            /\ session'.txPower = h.txPower /\ session'.nbTrans = h.nbTrans
            /\ session'.minTx = h.minTx /\ session'.maxTx = h.maxTx
            /\ session'.errors
                 = [c \in Cid |->
                      IF c \notin Param \cap Answered(session, answers) \cap Counted THEN h.errors[c]
                      ELSE IF c \in Acked(session, answers) THEN 0 ELSE h.errors[c] + 1]
            /\ \E budget \in scenario.link :
                 session'.history
                   = AppendHistory(HandleAnswers(config, b, answers),
                                   budget - 4 * device.txPower, device.lost).history
<1> DEFINE b == BeforeAnswers
           answers == Answers(device)
           t == HandleAnswers(config, b, answers)
<1>1. PICK budget \in scenario.link :
        session' = AppendHistory(t, budget - 4 * device.txPower, device.lost)
  BY DEF UplinkReceived, BeforeAnswers
<1>2. /\ IsSession(b)
      /\ b.param = session.param /\ b.relay = session.relay /\ b.pending = session.pending
      /\ b.adr = scenario.adr
  BY BeforeAnswersFields
<1>3. /\ Acked(b, answers) = Acked(session, answers)
      /\ Answered(b, answers) = Answered(session, answers)
  BY <1>2 DEF Acked, Answered
<1> HIDE DEF b, answers
<1>4. AnswersTaken(t, b, Handled(config, b, answers), answers)
  BY <1>2, HandleAnswersFields DEF t
<1> HIDE DEF t
<1>5. IsSession(session') /\ \A f \in SessionFields \ {"history"} : session'[f] = t[f]
  BY <1>1, <1>4, AppendHistoryFields DEF AnswersTaken
<1> QED
  BY <1>1, <1>2, <1>3, <1>4, <1>5 DEF b, answers, t, SessionFields, AnswersTaken

-----------------------------------------------------------------------------
(* The requests of a downlink.                                             *)

LEMMA NewChannelReqDomain ==
  ASSUME NEW cfg, NEW s
  PROVE  DOMAIN NewChannelReq(cfg, s) \subseteq {"NewChannel"}
BY DEF NewChannelReq, AddChannels

LEMMA LinkADRReqDomain ==
  ASSUME NEW cfg, NEW s, NEW dr
  PROVE  DOMAIN LinkADRReq(cfg, s, dr) \subseteq {"LinkADR"}
BY DEF LinkADRReq

LEMMA FilterReqDomain ==
  ASSUME NEW members, NEW rows
  PROVE  DOMAIN UpdateFilterList(members, rows).req \subseteq {"FilterList"}
BY DEF UpdateFilterList

LEMMA UplinkReqDomain ==
  ASSUME NEW members, NEW rows
  PROVE  DOMAIN UpdateUplinkList(members, rows).req \subseteq {"UpdateUplinkList"}
BY DEF UpdateUplinkList, AskUplinkList

LEMMA CtrlReqDomain ==
  ASSUME NEW members, NEW rows
  PROVE  DOMAIN RequestCtrlUplinkList(members, rows) \subseteq {"CtrlUplinkList"}
BY DEF RequestCtrlUplinkList

LEMMA ListReqDomains ==
  ASSUME NEW cfg, NEW s
  PROVE  LET asked == ListReq(cfg, s)
         IN /\ DOMAIN asked.filter.req \subseteq {"FilterList"}
            /\ DOMAIN asked.uplink.req \subseteq {"UpdateUplinkList"}
            /\ DOMAIN asked.ctrl \subseteq {"CtrlUplinkList"}
BY FilterReqDomain, UplinkReqDomain, CtrlReqDomain DEF ListReq, RelayReq, NoRelayReq

LEMMA ListCommandsDomain ==
  ASSUME NEW cfg, NEW s
  PROVE  DOMAIN ListCommands(ListReq(cfg, s)) \subseteq ListCid
<1>1. DOMAIN ListCommands(ListReq(cfg, s))
        = DOMAIN ListReq(cfg, s).filter.req
            \cup (DOMAIN ListReq(cfg, s).uplink.req \cup DOMAIN ListReq(cfg, s).ctrl)
  BY DEF ListCommands, Over
<1> QED  BY <1>1, ListReqDomains DEF ListCid

(* Each request is that of its operator.                                   *)
LEMMA SetMacCommandsFrom ==
  ASSUME NEW cfg, NEW s,
         NEW new, DOMAIN new \subseteq {"NewChannel"},
         NEW link, DOMAIN link \subseteq {"LinkADR"},
         NEW lists, DOMAIN lists \subseteq ListCid,
         NEW c \in DOMAIN SetMacCommands(cfg, s, new, link, lists)
  PROVE  LET reqs == SetMacCommands(cfg, s, new, link, lists)
         IN /\ c \in Cid
            /\ c = "NewChannel" => c \in DOMAIN new /\ reqs[c] = new[c]
            /\ c = "LinkADR" => c \in DOMAIN link /\ reqs[c] = link[c]
            /\ c \in ListCid => c \in DOMAIN lists /\ reqs[c] = lists[c]
            /\ c \in Param => reqs[c] = cfg.param[c]
<1> DEFINE params == ParamReqs(cfg, s)
           asked == Over(new, Over(link, Over(lists, params)))
<1>1. DOMAIN params \subseteq Param /\ \A p \in DOMAIN params : params[p] = cfg.param[p]
  BY DEF ParamReqs
<1>2. DOMAIN asked = DOMAIN new \cup (DOMAIN link \cup (DOMAIN lists \cup DOMAIN params))
  BY DEF Over
<1>3. /\ c \in Cid /\ c \in DOMAIN asked
      /\ SetMacCommands(cfg, s, new, link, lists)[c] = asked[c]
  BY DEF SetMacCommands, Restricted
<1>4. /\ {"NewChannel", "LinkADR"} \cap (Param \cup ListCid) = {}
      /\ Param \cap ListCid = {}
  BY DEF Param, ListCid
<1>5. asked[c] = IF c \in DOMAIN new THEN new[c]
                 ELSE IF c \in DOMAIN link THEN link[c]
                 ELSE IF c \in DOMAIN lists THEN lists[c] ELSE params[c]
  BY <1>2, <1>3 DEF Over
<1> HIDE DEF asked, params
<1> QED  BY <1>1, <1>2, <1>3, <1>4, <1>5

LEMMA FirstOfPart ==
  ASSUME NEW reqs, NEW n
  PROVE  /\ DOMAIN FirstOf(reqs, n) \subseteq DOMAIN reqs
         /\ \A c \in DOMAIN FirstOf(reqs, n) : FirstOf(reqs, n)[c] = reqs[c]
BY DEF FirstOf

LEMMA FirstOfGrows ==
  ASSUME NEW reqs, NEW k \in Nat, NEW j \in Nat, j <= k
  PROVE  DOMAIN FirstOf(reqs, j) \subseteq DOMAIN FirstOf(reqs, k)
BY DEF FirstOf

(* The requests of the response that is being prepared.                    *)
Requests ==
  SetMacCommands(config, DropChannels(config, session),
                 NewChannelReq(config, DropChannels(config, session)),
                 LinkADRReq(config, DropChannels(config, session), device.dr),
                 ListCommands(ListReq(config, session)))

LEMMA DropChannelsFields ==
  ASSUME IsSession(session)
  PROVE  /\ IsSession(DropChannels(config, session))
         /\ \A f \in SessionFields \ {"extra"} : DropChannels(config, session)[f] = session[f]
         /\ DOMAIN DropChannels(config, session).extra \subseteq DOMAIN session.extra
BY DEF DropChannels, IsSession, SessionFields

LEMMA RequestsFrom ==
  ASSUME NEW c \in DOMAIN Requests
  PROVE  LET s == DropChannels(config, session)
         IN /\ c \in Cid
            /\ c = "NewChannel" => /\ c \in DOMAIN NewChannelReq(config, s)
                                   /\ Requests[c] = NewChannelReq(config, s)[c]
            /\ c = "LinkADR" => /\ c \in DOMAIN LinkADRReq(config, s, device.dr)
                                /\ Requests[c] = LinkADRReq(config, s, device.dr)[c]
            /\ c \in ListCid => /\ c \in DOMAIN ListCommands(ListReq(config, session))
                                /\ Requests[c] = ListCommands(ListReq(config, session))[c]
            /\ c \in Param => Requests[c] = config.param[c]
BY SetMacCommandsFrom, NewChannelReqDomain, LinkADRReqDomain, ListCommandsDomain DEF Requests

(* The session after a response, by field.                                 *)
LEMMA RespondFields ==
  ASSUME IsSession(session), Respond
  PROVE  /\ IsSession(session')
         /\ \A f \in SessionFields \ {"extra", "relay", "pending"} : session'[f] = session[f]
         /\ DOMAIN session'.extra \subseteq DOMAIN session.extra
         /\ session'.relay = ListRows(ListReq(config, session))
         /\ \E reqs : /\ session'.pending = Over(reqs, session.pending)
                      /\ DOMAIN reqs \subseteq DOMAIN Requests
                      /\ \A c \in DOMAIN reqs : reqs[c] = Requests[c]
                      /\ DOMAIN air' \subseteq DOMAIN reqs
         /\ \A c \in DOMAIN air' : c \in DOMAIN Requests /\ air'[c] = Requests[c]
<1> DEFINE s == DropChannels(config, session)
           asked == ListReq(config, session)
<1>1. PICK k \in {0} \cup Places(Requests), j \in {0} \cup Places(Requests) :
        /\ j <= k
        /\ session' = SetPending([s EXCEPT !.relay = ListRows(asked)], FirstOf(Requests, k))
        /\ air' = FirstOf(Requests, j)
  BY DEF Respond, Requests
<1>2. k \in Nat /\ j \in Nat
  BY DEF Places, CidOrder
<1> HIDE DEF asked
<1>3. /\ IsSession(s)
      /\ \A f \in SessionFields \ {"extra"} : s[f] = session[f]
      /\ DOMAIN s.extra \subseteq DOMAIN session.extra
  BY DropChannelsFields
<1> HIDE DEF s
<1>4. /\ IsSession(session')
      /\ \A f \in SessionFields \ {"relay", "pending"} : session'[f] = s[f]
      /\ session'.relay = ListRows(asked)
      /\ session'.pending = Over(FirstOf(Requests, k), s.pending)
  BY <1>1, <1>3 DEF SetPending, IsSession, SessionFields
<1>5. s.pending = session.pending
  BY <1>3 DEF SessionFields
<1>6. /\ \A f \in SessionFields \ {"extra", "relay", "pending"} : session'[f] = session[f]
      /\ DOMAIN session'.extra \subseteq DOMAIN session.extra
  BY <1>3, <1>4 DEF SessionFields
<1>7. /\ session'.pending = Over(FirstOf(Requests, k), session.pending)
      /\ DOMAIN FirstOf(Requests, k) \subseteq DOMAIN Requests
      /\ \A c \in DOMAIN FirstOf(Requests, k) : FirstOf(Requests, k)[c] = Requests[c]
      /\ DOMAIN air' \subseteq DOMAIN FirstOf(Requests, k)
  BY <1>1, <1>2, <1>4, <1>5, FirstOfPart, FirstOfGrows
<1>8. \A c \in DOMAIN air' : c \in DOMAIN Requests /\ air'[c] = Requests[c]
  BY <1>1, FirstOfPart
<1> QED  BY <1>4, <1>6, <1>7, <1>8 DEF asked, s

-----------------------------------------------------------------------------
(* What a downlink changes of the device.                                  *)

Heard(d, reqs) ==
  [d EXCEPT !.ackReq = FALSE,
            !.relay  = RelayReceives(@, reqs),
            !.once   = Over([c \in ListCid \cap DOMAIN reqs |-> TRUE], @)]

ChannelsSet(d, cfg, reqs) ==
  IF "LinkADR" \in DOMAIN reqs THEN DeviceLinkADR(Heard(d, reqs), cfg, reqs["LinkADR"])
  ELSE IF "NewChannel" \in DOMAIN reqs THEN DeviceNewChannel(Heard(d, reqs), reqs["NewChannel"])
  ELSE Heard(d, reqs)

(* What the handlers of a LinkADRReq and a NewChannelReq leave alone.       *)
SameParams(t, d) ==
  /\ IsDevice(t)
  /\ t.param = d.param /\ t.relay = d.relay /\ t.ackReq = d.ackReq
  /\ t.lost = d.lost /\ t.moves = d.moves

LEMMA HeardFields ==
  ASSUME NEW d, IsDevice(d), DOMAIN d.once = {}, NEW reqs
  PROVE  /\ IsDevice(Heard(d, reqs))
         /\ \A f \in DeviceFields \ {"ackReq", "relay", "once"} : Heard(d, reqs)[f] = d[f]
         /\ Heard(d, reqs).ackReq = FALSE
         /\ Heard(d, reqs).relay = RelayReceives(d.relay, reqs)
         /\ DOMAIN Heard(d, reqs).once = ListCid \cap DOMAIN reqs
<1>1. DOMAIN Over([c \in ListCid \cap DOMAIN reqs |-> TRUE], d.once) = ListCid \cap DOMAIN reqs
  BY DEF Over
<1> QED  BY <1>1 DEF Heard, IsDevice, DeviceFields

LinkADRAnswer(d, cfg, req) ==
  LET mask == NewMask(d, cfg, req.masks)
  IN [mask  |-> (\A b \in DOMAIN req.masks : req.masks[b] \subseteq Knows(d, cfg)) /\ mask # {},
      dr    |-> scenario.adr \/ req.dr = d.dr,
      power |-> IF scenario.adr THEN req.txPower \in scenario.powers ELSE req.txPower = d.txPower]

LEMMA DeviceLinkADRFields ==
  ASSUME NEW cfg, NEW d, IsDevice(d), NEW req
  PROVE  LET t == DeviceLinkADR(d, cfg, req)
             ans == LinkADRAnswer(d, cfg, req)
         IN /\ SameParams(t, d)
            /\ t.known = d.known /\ t.sticky = d.sticky
            /\ t.once = Over([LinkADR |-> ans], d.once)
            /\ t.enabled \in {d.enabled, NewMask(d, cfg, req.masks)}
            /\ t.dr \in {d.dr, req.dr}
            /\ t.txPower = d.txPower \/ (t.txPower = req.txPower /\ ans.power)
BY DEF DeviceLinkADR, LinkADRAnswer, SameParams, IsDevice, DeviceFields

NewChannelAnswer(req) == [c \in DOMAIN req |-> req[c].freq \in scenario.freqs]

LEMMA DeviceNewChannelFields ==
  ASSUME NEW d, IsDevice(d), NEW req
  PROVE  LET t == DeviceNewChannel(d, req)
             added == {c \in DOMAIN req : req[c].freq \in scenario.freqs}
         IN /\ SameParams(t, d)
            /\ t.dr = d.dr /\ t.txPower = d.txPower /\ t.sticky = d.sticky
            /\ t.once = Over([NewChannel |-> NewChannelAnswer(req)], d.once)
            /\ t.enabled = d.enabled \cup added
            /\ DOMAIN t.known = DOMAIN d.known \cup added
BY DEF DeviceNewChannel, NewChannelAnswer, SameParams, IsDevice, DeviceFields

LEMMA ChannelsSetKeeps ==
  ASSUME NEW cfg, NEW d, IsDevice(d), DOMAIN d.once = {}, NEW reqs
  PROVE  /\ SameParams(ChannelsSet(d, cfg, reqs), Heard(d, reqs))
         /\ DOMAIN ChannelsSet(d, cfg, reqs).once
              \subseteq (ListCid \cup {"LinkADR", "NewChannel"}) \cap DOMAIN reqs
<1> DEFINE h == Heard(d, reqs)
<1>1. IsDevice(h) /\ DOMAIN h.once = ListCid \cap DOMAIN reqs
  BY HeardFields
<1> HIDE DEF h
<1>2. CASE "LinkADR" \in DOMAIN reqs
  <2> DEFINE t == DeviceLinkADR(h, cfg, reqs["LinkADR"])
             ans == LinkADRAnswer(h, cfg, reqs["LinkADR"])
  <2>1. ChannelsSet(d, cfg, reqs) = t
    BY <1>2 DEF ChannelsSet, h
  <2>2. SameParams(t, h) /\ t.once = Over([LinkADR |-> ans], h.once)
    BY <1>1, DeviceLinkADRFields
  <2> HIDE DEF t, ans
  <2>3. DOMAIN t.once = {"LinkADR"} \cup DOMAIN h.once
    BY <2>2 DEF Over
  <2> QED  BY <1>1, <1>2, <2>1, <2>2, <2>3 DEF h
<1>3. CASE "LinkADR" \notin DOMAIN reqs /\ "NewChannel" \in DOMAIN reqs
  <2> DEFINE t == DeviceNewChannel(h, reqs["NewChannel"])
             ans == NewChannelAnswer(reqs["NewChannel"])
  <2>1. ChannelsSet(d, cfg, reqs) = t
    BY <1>3 DEF ChannelsSet, h
  <2>2. SameParams(t, h) /\ t.once = Over([NewChannel |-> ans], h.once)
    BY <1>1, DeviceNewChannelFields
  <2> HIDE DEF t, ans
  <2>3. DOMAIN t.once = {"NewChannel"} \cup DOMAIN h.once
    BY <2>2 DEF Over
  <2> QED  BY <1>1, <1>3, <2>1, <2>2, <2>3 DEF h
<1>4. CASE {"LinkADR", "NewChannel"} \cap DOMAIN reqs = {}
  <2>1. ChannelsSet(d, cfg, reqs) = h
    BY <1>4 DEF ChannelsSet, h
  <2> QED  BY <1>1, <2>1 DEF SameParams, h
<1> QED  BY <1>2, <1>3, <1>4

Set(reqs) == Param \cap DOMAIN reqs

(* The device after a downlink, by field; c is the device in between.      *)
DownlinkTaken(t, d, c, reqs) ==
  /\ IsDevice(t)
  /\ t.ackReq = FALSE /\ t.relay = RelayReceives(d.relay, reqs)
  /\ t.lost = d.lost /\ t.moves = d.moves
  /\ t.enabled = c.enabled /\ t.known = c.known
  /\ t.dr = c.dr /\ t.txPower = c.txPower
  /\ t.param = [p \in Param |-> IF p \in Set(reqs) /\ p \notin scenario.refuses
                                THEN reqs[p] ELSE d.param[p]]
  /\ t.sticky = [p \in Set(reqs) \cap Sticky |->
                   [ok |-> p \notin scenario.refuses, req |-> reqs[p]]]
  /\ t.once = Over([p \in Set(reqs) \ Sticky |-> p \notin scenario.refuses], c.once)
  /\ DOMAIN t.once \subseteq DOMAIN reqs \ Sticky

LEMMA DownlinkFields ==
  ASSUME NEW cfg, NEW d, IsDevice(d), DOMAIN d.once = {}, NEW reqs
  PROVE  DownlinkTaken(DeviceDownlink(d, cfg, reqs), d, ChannelsSet(d, cfg, reqs), reqs)
<1> DEFINE c == ChannelsSet(d, cfg, reqs)
           t == DeviceParams(c, reqs)
<1>1. DeviceDownlink(d, cfg, reqs) = t
  BY DEF DeviceDownlink, ChannelsSet, Heard
<1>2. /\ SameParams(c, Heard(d, reqs))
      /\ DOMAIN c.once \subseteq (ListCid \cup {"LinkADR", "NewChannel"}) \cap DOMAIN reqs
  BY ChannelsSetKeeps
<1> HIDE DEF c
<1>3. /\ IsDevice(t)
      /\ t.ackReq = c.ackReq /\ t.relay = c.relay /\ t.lost = c.lost /\ t.moves = c.moves
      /\ t.enabled = c.enabled /\ t.known = c.known
      /\ t.dr = c.dr /\ t.txPower = c.txPower
      /\ t.param = [p \in Param |-> IF p \in Set(reqs) /\ p \notin scenario.refuses
                                    THEN reqs[p] ELSE c.param[p]]
      /\ t.sticky = [p \in Set(reqs) \cap Sticky |->
                       [ok |-> p \notin scenario.refuses, req |-> reqs[p]]]
      /\ t.once = Over([p \in Set(reqs) \ Sticky |-> p \notin scenario.refuses], c.once)
  BY <1>2 DEF DeviceParams, Set, SameParams, IsDevice, DeviceFields
<1> HIDE DEF t
<1>4. /\ c.ackReq = FALSE /\ c.relay = RelayReceives(d.relay, reqs)
      /\ c.lost = d.lost /\ c.moves = d.moves /\ c.param = d.param
  <2> DEFINE h == Heard(d, reqs)
  <2>1. /\ \A f \in DeviceFields \ {"ackReq", "relay", "once"} : h[f] = d[f]
        /\ h.ackReq = FALSE /\ h.relay = RelayReceives(d.relay, reqs)
    BY HeardFields
  <2>2. h.lost = d.lost /\ h.moves = d.moves /\ h.param = d.param
    BY <2>1 DEF DeviceFields
  <2> QED  BY <1>2, <2>1, <2>2 DEF SameParams
<1>5. DOMAIN t.once = (Set(reqs) \ Sticky) \cup DOMAIN c.once
  BY <1>3 DEF Over
<1>6. DOMAIN t.once \subseteq DOMAIN reqs \ Sticky
  BY <1>2, <1>5 DEF Set, ListCid, Sticky
<1> QED  BY <1>1, <1>3, <1>4, <1>6 DEF c, t, DownlinkTaken

-----------------------------------------------------------------------------
(* Requests and answers belong together: what is on its way is pending, and *)
(* the device answers only what is pending.                                *)

Matched ==
  /\ IsSession(session) /\ IsDevice(device)
  /\ scenario \in Scenarios /\ config \in scenario.networks
  /\ phase # "idle" => DOMAIN device.once = {}
  /\ \A c \in DOMAIN air : c \in DOMAIN session.pending /\ session.pending[c] = air[c]
  /\ phase # "air" => DOMAIN air = {}
  /\ DOMAIN device.once \subseteq DOMAIN session.pending \ Sticky
  /\ DOMAIN device.sticky \subseteq Sticky

LEMMA InitMatched == Init => Matched
BY ScenariosAssumption
   DEF Init, Matched, IsSession, SessionFields, IsDevice, DeviceFields, IsScenario

(* A response replaces what is pending; everything it asks for is.         *)
LEMMA AirIsPending ==
  ASSUME IsSession(session), Respond
  PROVE  /\ \A c \in DOMAIN air' : c \in DOMAIN session'.pending /\ session'.pending[c] = air'[c]
         /\ DOMAIN session.pending \subseteq DOMAIN session'.pending
<1>1. PICK reqs : /\ session'.pending = Over(reqs, session.pending)
                  /\ \A c \in DOMAIN reqs : reqs[c] = Requests[c]
                  /\ DOMAIN air' \subseteq DOMAIN reqs
  BY RespondFields
<1>2. \A c \in DOMAIN air' : air'[c] = Requests[c]
  BY RespondFields
<1>3. /\ DOMAIN session'.pending = DOMAIN reqs \cup DOMAIN session.pending
      /\ \A c \in DOMAIN reqs : session'.pending[c] = reqs[c]
  BY <1>1 DEF Over
<1> QED  BY <1>1, <1>2, <1>3

LEMMA NextMatched ==
  ASSUME Matched, [Next]_vars
  PROVE  Matched'
<1> USE DEF Matched
<1>1. CASE Reconfigure
  BY <1>1, ScenariosAssumption DEF Reconfigure, IsScenario
<1>2. CASE Backoff
  BY <1>2 DEF Backoff, IsDevice, DeviceFields
<1>3. CASE UplinkLost
  BY <1>3 DEF UplinkLost, IsDevice, DeviceFields
<1>4. CASE UplinkReceived
  <2>1. IsSession(session')
    BY <1>4, UplinkReceivedFields
  <2>2. /\ device' = [device EXCEPT !.once = << >>, !.lost = 0]
        /\ phase = "idle" /\ phase' = "respond" /\ air' = air
        /\ scenario' = scenario /\ config' = config
    BY <1>4 DEF UplinkReceived
  <2>3. IsDevice(device') /\ DOMAIN device'.once = {} /\ device'.sticky = device.sticky
    BY <2>2 DEF IsDevice, DeviceFields
  <2> QED  BY <2>1, <2>2, <2>3
<1>5. CASE Respond
  <2>1. IsSession(session')
    BY <1>5, RespondFields
  <2>2. /\ device' = device /\ phase = "respond" /\ phase' = "air"
        /\ scenario' = scenario /\ config' = config
    BY <1>5 DEF Respond
  <2> QED  BY <1>5, <2>1, <2>2, AirIsPending
<1>6. CASE NoResponse
  BY <1>6 DEF NoResponse
<1>7. CASE DownlinkReceived
  <2>1. /\ device' = DeviceDownlink(device, config, air)
        /\ phase = "air" /\ phase' = "idle" /\ air' = << >>
        /\ scenario' = scenario /\ config' = config /\ session' = session
    BY <1>7 DEF DownlinkReceived
  <2>2. IsDevice(device) /\ DOMAIN device.once = {}
    BY <2>1
  <2>3. DownlinkTaken(device', device, ChannelsSet(device, config, air), air)
    BY <2>1, <2>2, DownlinkFields
  <2>4. /\ IsDevice(device')
        /\ DOMAIN device'.sticky \subseteq Sticky
        /\ DOMAIN device'.once \subseteq DOMAIN air \ Sticky
    BY <2>3 DEF DownlinkTaken
  <2> QED  BY <2>1, <2>4
<1>8. CASE DownlinkLost
  BY <1>8 DEF DownlinkLost
<1>9. CASE UNCHANGED vars
  BY <1>9 DEF vars
<1> QED
  BY <1>1, <1>2, <1>3, <1>4, <1>5, <1>6, <1>7, <1>8, <1>9 DEF Next

-----------------------------------------------------------------------------
(* The receive parameters.  While an answer is repeated, the request it    *)
(* answers is pending or the parameters agree already.                     *)

ReceiveParamsInv ==
  mismatch \/ \A p \in Sticky :
    /\ p \in scenario.refuses => session.param[p] = device.param[p]
    /\ phase # "idle" => session.param[p] = device.param[p]
    /\ IF p \in DOMAIN device.sticky
       THEN /\ device.sticky[p].ok <=> p \notin scenario.refuses
            /\ device.sticky[p].ok => device.param[p] = device.sticky[p].req
            /\ p \in DOMAIN session.pending \/ session.param[p] = device.param[p]
       ELSE session.param[p] = device.param[p]

LEMMA InitReceiveParams == Init => ReceiveParamsInv
BY DEF Init, ReceiveParamsInv

LEMMA StickyIsParam == Sticky \subseteq Param
BY DEF Sticky, Param

LEMMA UplinkReceiveParams ==
  ASSUME Matched, ReceiveParamsInv, UplinkReceived
  PROVE  ReceiveParamsInv'
<1>1. SUFFICES ASSUME ~mismatch', NEW p \in Sticky
               PROVE  session'.param[p] = device'.param[p]
                      /\ device'.sticky = device.sticky
                      /\ (p \in DOMAIN device.sticky =>
                            /\ device.sticky[p].ok <=> p \notin scenario'.refuses
                            /\ device.sticky[p].ok => device'.param[p] = device.sticky[p].req)
  BY DEF ReceiveParamsInv
<1>2. /\ device' = [device EXCEPT !.once = << >>, !.lost = 0]
      /\ scenario' = scenario
      /\ ~mismatch
      /\ \A q \in DOMAIN device.sticky \cap DOMAIN session.pending :
           device.sticky[q].req = session.pending[q]
  BY <1>1 DEF UplinkReceived
<1>3. device'.param = device.param /\ device'.sticky = device.sticky
  BY <1>2 DEF Matched, IsDevice, DeviceFields
<1>4. session'.param[p] = IF p \in Acked(session, Answers(device))
                          THEN session.pending[p] ELSE session.param[p]
  BY StickyIsParam, UplinkReceivedFields DEF Matched
<1>5. /\ DOMAIN Answers(device) = DOMAIN device.sticky \cup DOMAIN device.once
      /\ p \notin DOMAIN device.once
      /\ p \in DOMAIN device.sticky => Answers(device)[p] = device.sticky[p].ok
  BY DEF Answers, Over, Matched
<1>6. scenario.refuses \subseteq Checked
  BY ScenariosAssumption DEF Matched, IsScenario
<1>7. CASE p \notin DOMAIN device.sticky
  <2>1. p \notin Acked(session, Answers(device))
    BY <1>5, <1>7 DEF Acked, Answered
  <2> QED  BY <1>2, <1>3, <1>4, <1>7, <2>1 DEF ReceiveParamsInv
<1>8. CASE p \in DOMAIN device.sticky
  <2>1. /\ device.sticky[p].ok <=> p \notin scenario.refuses
        /\ device.sticky[p].ok => device.param[p] = device.sticky[p].req
        /\ p \in DOMAIN session.pending \/ session.param[p] = device.param[p]
        /\ p \in scenario.refuses => session.param[p] = device.param[p]
    BY <1>2, <1>8 DEF ReceiveParamsInv
  <2>2. CASE p \in Acked(session, Answers(device))
    <3>1. p \in DOMAIN session.pending /\ (p \in Checked => Answers(device)[p])
      BY <2>2, <1>5, <1>8 DEF Acked, Answered
    <3>2. device.sticky[p].ok
      BY <3>1, <1>5, <1>6, <1>8, <2>1
    <3> QED  BY <1>2, <1>3, <1>4, <1>8, <2>1, <2>2, <3>1, <3>2
  <2>3. CASE p \notin Acked(session, Answers(device))
    <3>1. p \notin DOMAIN session.pending \/ ~Answers(device)[p]
      BY <2>3, <1>5, <1>8, StickyIsParam DEF Acked, Answered
    <3>2. session.param[p] = device.param[p]
      BY <3>1, <2>1, <1>5, <1>8
    <3> QED  BY <1>2, <1>3, <1>4, <2>1, <2>3, <3>2
  <2> QED  BY <2>2, <2>3
<1> QED  BY <1>7, <1>8

LEMMA DownlinkReceiveParams ==
  ASSUME Matched, ReceiveParamsInv, DownlinkReceived
  PROVE  ReceiveParamsInv'
<1>1. /\ device' = DeviceDownlink(device, config, air)
      /\ phase = "air" /\ phase' = "idle"
      /\ scenario' = scenario /\ session' = session /\ mismatch' = mismatch
  BY DEF DownlinkReceived
<1>2. DownlinkTaken(device', device, ChannelsSet(device, config, air), air)
  BY <1>1, DownlinkFields DEF Matched
<1>3. SUFFICES ASSUME ~mismatch, NEW p \in Sticky
               PROVE  /\ p \in scenario.refuses => session.param[p] = device'.param[p]
                      /\ IF p \in DOMAIN device'.sticky
                         THEN /\ device'.sticky[p].ok <=> p \notin scenario.refuses
                              /\ device'.sticky[p].ok => device'.param[p] = device'.sticky[p].req
                              /\ p \in DOMAIN session.pending
                         ELSE session.param[p] = device'.param[p]
  BY <1>1 DEF ReceiveParamsInv
<1>4. session.param[p] = device.param[p]
  BY <1>1, <1>3 DEF ReceiveParamsInv
<1>5. device'.param[p] = IF p \in DOMAIN air /\ p \notin scenario.refuses
                         THEN air[p] ELSE device.param[p]
  BY <1>2, <1>3, StickyIsParam DEF DownlinkTaken, Set
<1>6. /\ p \in DOMAIN device'.sticky <=> p \in DOMAIN air
      /\ p \in DOMAIN air => device'.sticky[p] = [ok |-> p \notin scenario.refuses, req |-> air[p]]
  BY <1>2, <1>3, StickyIsParam DEF DownlinkTaken, Set
<1>7. p \in DOMAIN air => p \in DOMAIN session.pending
  BY DEF Matched
<1>8. CASE p \in DOMAIN air
  <2>1. /\ device'.sticky[p].ok = (p \notin scenario.refuses)
        /\ device'.sticky[p].req = air[p]
    BY <1>6, <1>8
  <2>2. device'.sticky[p].ok <=> p \notin scenario.refuses
    BY <2>1
  <2> QED  BY <1>4, <1>5, <1>6, <1>7, <1>8, <2>1, <2>2
<1>9. CASE p \notin DOMAIN air
  BY <1>4, <1>5, <1>6, <1>9
<1> QED  BY <1>8, <1>9

LEMMA NextReceiveParams ==
  ASSUME Matched, ReceiveParamsInv, [Next]_vars
  PROVE  ReceiveParamsInv'
<1>1. CASE Reconfigure
  BY <1>1 DEF Reconfigure, ReceiveParamsInv
<1>2. CASE Backoff
  <2>1. device'.param = device.param /\ device'.sticky = device.sticky
    BY <1>2 DEF Backoff, Matched, IsDevice, DeviceFields
  <2> QED  BY <1>2, <2>1 DEF Backoff, ReceiveParamsInv
<1>3. CASE UplinkLost
  <2>1. device'.param = device.param /\ device'.sticky = device.sticky
    BY <1>3 DEF UplinkLost, Matched, IsDevice, DeviceFields
  <2> QED  BY <1>3, <2>1 DEF UplinkLost, ReceiveParamsInv
<1>4. CASE UplinkReceived
  BY <1>4, UplinkReceiveParams
<1>5. CASE Respond
  <2>1. /\ phase = "respond" /\ scenario' = scenario /\ device' = device /\ mismatch' = mismatch
    BY <1>5 DEF Respond
  <2>2. session'.param = session.param
    BY <1>5, RespondFields DEF Matched, SessionFields
  <2>3. DOMAIN session.pending \subseteq DOMAIN session'.pending
    BY <1>5, AirIsPending DEF Matched
  <2> QED  BY <2>1, <2>2, <2>3 DEF ReceiveParamsInv
<1>6. CASE NoResponse
  BY <1>6 DEF NoResponse, ReceiveParamsInv
<1>7. CASE DownlinkReceived
  BY <1>7, DownlinkReceiveParams
<1>8. CASE DownlinkLost
  BY <1>8 DEF DownlinkLost, ReceiveParamsInv
<1>9. CASE UNCHANGED vars
  BY <1>9 DEF vars, ReceiveParamsInv
<1> QED
  BY <1>1, <1>2, <1>3, <1>4, <1>5, <1>6, <1>7, <1>8, <1>9 DEF Next

LEMMA ReceiveParamsInvImplies == ReceiveParamsInv => ReceiveParamsAgree
BY DEF ReceiveParamsInv, ReceiveParamsAgree

(* What the server keeps of the last request of a command is what the      *)
(* device gets or got: no command is requested twice with other contents   *)
(* while an answer to the first may still come (set_pending, handle).      *)
THEOREM SpecMatched == Spec => []Matched
<1> QED  BY InitMatched, NextMatched, PTL DEF Spec

(* Server and device agree on the receive parameters, although requests    *)
(* and answers get lost, until an answer that is repeated is taken for one *)
(* to a later request (rx_timing_setup::handle and rx_param_setup::handle). *)
THEOREM SpecReceiveParamsAgree == Spec => []ReceiveParamsAgree
<1>1. ReceiveParamsInv /\ Matched /\ [Next]_vars => ReceiveParamsInv'
  BY NextReceiveParams
<1> QED
  BY <1>1, InitReceiveParams, ReceiveParamsInvImplies, SpecMatched, PTL DEF Spec

-----------------------------------------------------------------------------
(* The lists of a relay.                                                   *)

LEMMA LeastElement ==
  ASSUME NEW S \in SUBSET Nat, S # {}
  PROVE  Min(S) \in S /\ \A n \in S : Min(S) <= n
<1> DEFINE R == OpToRel(<, Nat)
<1>1. \A x, y \in Nat : <<y, x>> \in R <=> y < x
  <2>1. R = {ss \in Nat \X Nat : ss[1] < ss[2]}
    BY Zenon DEF OpToRel
  <2> QED  BY <2>1, Zenon
<1>2. IsWellFoundedOn(R, Nat)
  BY NatLessThanWellFounded, Zenon
<1> HIDE DEF R
<1>3. \E x \in S : \A y \in S : <<y, x>> \notin R
  BY <1>2, WFMin, Zenon
<1>4. PICK x \in S : \A y \in S : <<y, x>> \notin R
  BY <1>3
<1>5. ASSUME NEW y \in S PROVE x <= y
  <2>1. x \in Nat /\ y \in Nat
    OBVIOUS
  <2>2. ~(y < x)
    BY <1>1, <1>4, <2>1
  <2> QED  BY <2>1, <2>2
<1>6. \E z \in S : \A y \in S : z <= y
  BY <1>5
<1> QED  BY <1>6 DEF Min

LEMMA LowestNonempty ==
  ASSUME NEW S \in SUBSET Nat, S # {}, NEW n \in Nat \ {0}
  PROVE  /\ LowestOf(S, n) \subseteq S
         /\ LowestOf(S, n) # {}
<1> DEFINE m == Min(S)
<1>1. m \in S /\ {y \in S : y < m} = {}
  <2>1. m \in S /\ \A y \in S : m <= y
    BY LeastElement
  <2> HIDE DEF m
  <2>2. \A y \in S : m \in Nat /\ y \in Nat /\ ~(y < m)
    BY <2>1
  <2> QED  BY <2>1, <2>2
<1>2. Cardinality({y \in S : y < Min(S)}) = 0
  BY <1>1, FS_EmptySet
<1> QED  BY <1>1, <1>2 DEF LowestOf

FiltersHold(lists, rows) ==
  \A i \in DOMAIN rows \cap DOMAIN lists : rows[i].prov => lists[i] = rows[i].dev

DevicesHold(lists, rows) ==
  \A i \in DOMAIN rows \cap DOMAIN lists :
    rows[i].prov => lists[i] = [dev |-> rows[i].dev, entry |-> rows[i].entry]

LEMMA HoldsParts ==
  ASSUME NEW lists, NEW r
  PROVE  Holds(lists, r) <=> /\ DevicesHold(lists.devices, r.devices)
                             /\ FiltersHold(lists.filters, r.filters)
BY DEF Holds, DevicesHold, FiltersHold

FilterRows(rows) == DOMAIN rows \subseteq Nat /\ \A i \in DOMAIN rows : DOMAIN rows[i] = {"dev", "prov"}

DeviceRows(rows) ==
  DOMAIN rows \subseteq Nat /\ \A i \in DOMAIN rows : DOMAIN rows[i] = {"dev", "entry", "prov"}

(* A request for an entry is about a row that is not acknowledged; one for *)
(* removals names only entries to remove.                                  *)
Removes(req) == Min(DOMAIN req) \in DOMAIN req /\ \A i \in DOMAIN req : req[i] = NoRule

FilterAsked(rows, req) ==
  \/ Removes(req)
  \/ \E i \in DOMAIN rows : /\ DOMAIN req = {i} /\ req[i] = rows[i].dev /\ req[i] # NoRule
                            /\ ~rows[i].prov

UplinkAsked(rows, req) ==
  \E i \in DOMAIN rows : /\ DOMAIN req = {i} /\ ~rows[i].prov
                         /\ req[i] = [dev |-> rows[i].dev, entry |-> rows[i].entry]

(* Once the relay has done so, its entry and the row are what was asked.   *)
FilterGiven(lists, rows, req) ==
  \/ Removes(req)
  \/ \E i \in Nat :
       /\ DOMAIN req = {i} /\ req[i] # NoRule
       /\ i \in DOMAIN rows => rows[i].dev = req[i]
       /\ i \in DOMAIN lists => lists[i] = req[i]

UplinkGiven(lists, rows, req) ==
  \E i \in Nat :
    /\ DOMAIN req = {i}
    /\ i \in DOMAIN rows => req[i] = [dev |-> rows[i].dev, entry |-> rows[i].entry]
    /\ i \in DOMAIN lists => lists[i] = req[i]

LEMMA UpdateFilterListAsks ==
  ASSUME NEW members, DOMAIN members \subseteq Nat \ {0},
         NEW filters, FilterRows(filters)
  PROVE  LET u == UpdateFilterList(members, filters)
         IN /\ FilterRows(u.rows)
            /\ \A lists : FiltersHold(lists, filters) => FiltersHold(lists, u.rows)
            /\ "FilterList" \in DOMAIN u.req => FilterAsked(u.rows, u.req["FilterList"])
<1> DEFINE gone == Gone(members, filters) \ {0}
           free == FilterSlots \ DOMAIN filters
           slot(d) == Min(IF SlotsOf(filters, d) # {} THEN SlotsOf(filters, d) ELSE free)
           lacking == {d \in Listed(members) :
                         IF SlotsOf(filters, d) = {} THEN free # {} ELSE ~filters[slot(d)].prov}
           ask(i, d) == [req  |-> [FilterList |-> At(i, d)],
                         rows |-> Over(At(i, [dev |-> d, prov |-> FALSE]), filters)]
           u == UpdateFilterList(members, filters)
           Claim(v) == /\ FilterRows(v.rows)
                       /\ \A lists : FiltersHold(lists, filters) => FiltersHold(lists, v.rows)
                       /\ "FilterList" \in DOMAIN v.req => FilterAsked(v.rows, v.req["FilterList"])
<1>1. free \subseteq Nat /\ gone \subseteq Nat /\ \A d : SlotsOf(filters, d) \subseteq Nat
  BY RelayAssumption DEF FilterSlots, Gone, SlotsOf, FilterRows
<1>2. lacking \subseteq Nat \ {0}
  BY DEF Listed, LowestOf
<1>3. \A d \in lacking : slot(d) \in Nat
  BY <1>1, LeastElement
<1>4. ASSUME NEW i \in Nat, NEW d \in Nat PROVE Claim(ask(i, d))
  <2> DEFINE v == ask(i, d)
  <2>1. /\ DOMAIN v.rows = {i} \cup DOMAIN filters
        /\ v.rows[i] = [dev |-> d, prov |-> FALSE]
        /\ \A k \in DOMAIN filters \ {i} : v.rows[k] = filters[k]
        /\ DOMAIN v.req["FilterList"] = {i} /\ v.req["FilterList"][i] = d
    BY DEF Over, At
  <2>2. v.rows[i].dev = d /\ ~v.rows[i].prov
    BY <2>1
  <2> HIDE DEF v
  <2>3. d # NoRule
    BY DEF NoRule
  <2>4. FilterAsked(v.rows, v.req["FilterList"])
    BY <2>1, <2>2, <2>3 DEF FilterAsked
  <2>5. \A lists : FiltersHold(lists, filters) => FiltersHold(lists, v.rows)
    BY <2>1, <2>2 DEF FiltersHold
  <2>6. FilterRows(v.rows)
    BY <2>1 DEF FilterRows
  <2> QED  BY <2>4, <2>5, <2>6 DEF v
<1>5. CASE gone # {}
  <2> DEFINE req == [i \in LowestOf(gone, 5) |-> NoRule]
  <2>1. u = [req |-> [FilterList |-> req], rows |-> filters]
    BY <1>5 DEF UpdateFilterList
  <2>2. DOMAIN req # {} /\ DOMAIN req \subseteq Nat
    BY <1>1, <1>5, LowestNonempty
  <2>3. Removes(req)
    BY <2>2, LeastElement DEF Removes
  <2> HIDE DEF req
  <2>4. u.rows = filters /\ u.req["FilterList"] = req
    BY <2>1
  <2>5. FilterAsked(u.rows, u.req["FilterList"])
    BY <2>3, <2>4 DEF FilterAsked
  <2> QED  BY <2>4, <2>5
<1>6. CASE gone = {} /\ (0 \notin DOMAIN filters \/ ~filters[0].prov)
  <2>1. u = ask(0, CatchAll)
    BY <1>6 DEF UpdateFilterList
  <2>2. Claim(ask(0, CatchAll))
    BY <1>4 DEF CatchAll
  <2> QED  BY <2>1, <2>2
<1>7. CASE gone = {} /\ ~(0 \notin DOMAIN filters \/ ~filters[0].prov) /\ lacking # {}
  <2> DEFINE d == Min(lacking)
  <2>1. u = ask(slot(d), d)
    BY <1>7 DEF UpdateFilterList
  <2>2. d \in lacking /\ d \in Nat
    BY <1>2, <1>7, LeastElement
  <2>3. slot(d) \in Nat
    BY <1>3, <2>2
  <2> HIDE DEF d, slot, ask
  <2>4. Claim(ask(slot(d), d))
    BY <1>4, <2>2, <2>3
  <2> QED  BY <2>1, <2>4
<1>8. CASE gone = {} /\ ~(0 \notin DOMAIN filters \/ ~filters[0].prov) /\ lacking = {}
  <2>1. u = [req |-> << >>, rows |-> filters]
    BY <1>8 DEF UpdateFilterList
  <2> QED  BY <2>1
<1> QED  BY <1>5, <1>6, <1>7, <1>8

LEMMA UpdateUplinkListAsks ==
  ASSUME NEW members, DOMAIN members \subseteq Nat \ {0},
         NEW devices, DeviceRows(devices)
  PROVE  LET u == UpdateUplinkList(members, devices)
         IN /\ DeviceRows(u.rows)
            /\ \A lists : DevicesHold(lists, devices) => DevicesHold(lists, u.rows)
            /\ "UpdateUplinkList" \in DOMAIN u.req => UplinkAsked(u.rows, u.req["UpdateUplinkList"])
<1> DEFINE free == UplinkSlots \ DOMAIN devices
           slot(e) == Min(IF SlotsOf(devices, e) # {} THEN SlotsOf(devices, e) ELSE free)
           lacking == {e \in Listed(members) :
                         /\ members[e].addr # 0
                         /\ IF SlotsOf(devices, e) = {} THEN free # {}
                            ELSE ~devices[slot(e)].prov \/ devices[slot(e)].entry.addr # members[e].addr}
           d == Min(lacking)
           u == UpdateUplinkList(members, devices)
<1>1. free \subseteq Nat /\ \A e : SlotsOf(devices, e) \subseteq Nat
  BY RelayAssumption DEF UplinkSlots, SlotsOf, DeviceRows
<1>2. lacking \subseteq Nat
  BY DEF Listed, LowestOf
<1>3. \A e \in lacking : slot(e) \in Nat
  BY <1>1, LeastElement
<1>4. CASE lacking = {}
  <2>1. u = [req |-> << >>, rows |-> devices]
    BY <1>4 DEF UpdateUplinkList, AskUplinkList
  <2> QED  BY <2>1
<1>5. CASE lacking # {}
  <2> DEFINE i == slot(d)
             entry == members[d]
             req == At(i, [dev |-> d, entry |-> entry])
             rows == Over(At(i, [dev |-> d, entry |-> entry, prov |-> FALSE]), devices)
  <2>1. u = [req |-> [UpdateUplinkList |-> req], rows |-> rows]
    BY <1>5 DEF UpdateUplinkList, AskUplinkList
  <2>2. i \in Nat
    BY <1>2, <1>3, <1>5, LeastElement
  <2> HIDE DEF i, d, entry
  <2>3. /\ DOMAIN rows = {i} \cup DOMAIN devices
        /\ rows[i] = [dev |-> d, entry |-> entry, prov |-> FALSE]
        /\ \A k \in DOMAIN devices \ {i} : rows[k] = devices[k]
        /\ DOMAIN req = {i} /\ req[i] = [dev |-> d, entry |-> entry]
    BY DEF Over, At
  <2> HIDE DEF rows, req
  <2>4. rows[i].dev = d /\ rows[i].entry = entry /\ ~rows[i].prov
    BY <2>3
  <2>5. UplinkAsked(rows, req)
    BY <2>3, <2>4 DEF UplinkAsked
  <2>6. \A lists : DevicesHold(lists, devices) => DevicesHold(lists, rows)
    BY <2>3, <2>4 DEF DevicesHold
  <2>7. u.rows = rows /\ u.req["UpdateUplinkList"] = req
    BY <2>1
  <2>8. DeviceRows(rows)
    BY <2>2, <2>3 DEF DeviceRows
  <2> QED  BY <2>5, <2>6, <2>7, <2>8
<1> QED  BY <1>4, <1>5

(* What the relay makes of the requests, when its lists hold.              *)
LEMMA RelayTakesFilter ==
  ASSUME NEW lists, NEW rows, FilterRows(rows), FiltersHold(lists, rows),
         NEW req, FilterAsked(rows, req)
  PROVE  LET after == Without(Over(req, lists), {i \in DOMAIN req : req[i] = NoRule})
         IN FiltersHold(after, rows) /\ FilterGiven(after, rows, req)
<1> DEFINE gone == {i \in DOMAIN req : req[i] = NoRule}
           after == Without(Over(req, lists), gone)
<1>1. /\ DOMAIN after = (DOMAIN req \cup DOMAIN lists) \ gone
      /\ \A i \in DOMAIN after : after[i] = IF i \in DOMAIN req THEN req[i] ELSE lists[i]
  BY DEF Without, Over
<1> HIDE DEF after
<1>2. CASE Removes(req)
  <2>1. DOMAIN req = gone
    BY <1>2 DEF Removes
  <2>2. FiltersHold(after, rows)
    BY <1>1, <2>1 DEF FiltersHold
  <2> QED  BY <1>2, <2>2 DEF FilterGiven, after
<1>3. CASE ~Removes(req)
  <2>1. PICK i \in DOMAIN rows : /\ DOMAIN req = {i} /\ req[i] = rows[i].dev /\ req[i] # NoRule
                                 /\ ~rows[i].prov
    BY <1>3 DEF FilterAsked
  <2>2. FiltersHold(after, rows)
    BY <1>1, <2>1 DEF FiltersHold
  <2>3. FilterGiven(after, rows, req)
    BY <1>1, <2>1 DEF FilterGiven, FilterRows
  <2> QED  BY <2>2, <2>3 DEF after
<1> QED  BY <1>2, <1>3

LEMMA RelayTakesUplink ==
  ASSUME NEW lists, NEW rows, DeviceRows(rows), DevicesHold(lists, rows),
         NEW req, UplinkAsked(rows, req)
  PROVE  DevicesHold(Over(req, lists), rows) /\ UplinkGiven(Over(req, lists), rows, req)
<1> DEFINE after == Over(req, lists)
<1>1. /\ DOMAIN after = DOMAIN req \cup DOMAIN lists
      /\ \A i \in DOMAIN after : after[i] = IF i \in DOMAIN req THEN req[i] ELSE lists[i]
  BY DEF Over
<1> HIDE DEF after
<1>2. PICK i \in DOMAIN rows : /\ DOMAIN req = {i} /\ ~rows[i].prov
                               /\ req[i] = [dev |-> rows[i].dev, entry |-> rows[i].entry]
  BY DEF UplinkAsked
<1>3. DevicesHold(after, rows)
  BY <1>1, <1>2 DEF DevicesHold
<1>4. UplinkGiven(after, rows, req)
  BY <1>1, <1>2 DEF UplinkGiven, DeviceRows
<1> QED  BY <1>3, <1>4 DEF after

(* Rows that are removed, on either side, break nothing.                   *)
LEMMA WithoutFields ==
  ASSUME NEW rows, NEW slots
  PROVE  /\ DOMAIN Without(rows, slots) = DOMAIN rows \ slots
         /\ \A i \in DOMAIN rows \ slots : Without(rows, slots)[i] = rows[i]
BY DEF Without

LEMMA WithoutHolds ==
  ASSUME NEW lists, NEW rows, NEW slots
  PROVE  /\ FiltersHold(lists, rows) => FiltersHold(lists, Without(rows, slots))
         /\ DevicesHold(lists, rows) => DevicesHold(lists, Without(rows, slots))
         /\ DevicesHold(lists, rows) => DevicesHold(Without(lists, slots), rows)
<1>1. /\ DOMAIN Without(rows, slots) = DOMAIN rows \ slots
      /\ \A i \in DOMAIN rows \ slots : Without(rows, slots)[i] = rows[i]
  BY WithoutFields
<1>2. /\ DOMAIN Without(lists, slots) = DOMAIN lists \ slots
      /\ \A i \in DOMAIN lists \ slots : Without(lists, slots)[i] = lists[i]
  BY WithoutFields
<1>3. FiltersHold(lists, rows) => FiltersHold(lists, Without(rows, slots))
  BY <1>1 DEF FiltersHold
<1>4. DevicesHold(lists, rows) => DevicesHold(lists, Without(rows, slots))
  BY <1>1 DEF DevicesHold
<1>5. DevicesHold(lists, rows) => DevicesHold(Without(lists, slots), rows)
  BY <1>2 DEF DevicesHold
<1> QED  BY <1>3, <1>4, <1>5

LEMMA WithoutGiven ==
  ASSUME NEW lists, NEW rows, NEW slots, NEW req, UplinkGiven(lists, rows, req)
  PROVE  UplinkGiven(Without(lists, slots), rows, req)
<1>1. /\ DOMAIN Without(lists, slots) = DOMAIN lists \ slots
      /\ \A i \in DOMAIN lists \ slots : Without(lists, slots)[i] = lists[i]
  BY WithoutFields
<1> QED  BY <1>1 DEF UplinkGiven

(* What the server makes of the answers.                                   *)
LEMMA AcknowledgedFields ==
  ASSUME NEW rows, NEW i
  PROVE  LET after == Acknowledged(rows, i)
         IN /\ DOMAIN after = DOMAIN rows
            /\ \A k \in DOMAIN rows \ {i} : after[k] = rows[k]
            /\ i \in DOMAIN rows => after[i] = [rows[i] EXCEPT !.prov = TRUE]
BY DEF Acknowledged

LEMMA FilterListAckedHolds ==
  ASSUME NEW lists, NEW rows, FilterRows(rows), FiltersHold(lists, rows),
         NEW req, FilterGiven(lists, rows, req)
  PROVE  LET after == FilterListAcked(rows, req)
         IN FilterRows(after) /\ FiltersHold(lists, after)
<1> DEFINE m == Min(DOMAIN req)
           after == FilterListAcked(rows, req)
<1>1. CASE Removes(req)
  <2>1. after = Without(rows, {m})
    BY <1>1 DEF FilterListAcked, Removes
  <2>2. FilterRows(Without(rows, {m}))
    BY DEF Without, FilterRows
  <2> QED  BY <2>1, <2>2, WithoutHolds
<1>2. CASE ~Removes(req)
  <2>1. PICK i \in Nat :
          /\ DOMAIN req = {i} /\ req[i] # NoRule
          /\ i \in DOMAIN rows => rows[i].dev = req[i]
          /\ i \in DOMAIN lists => lists[i] = req[i]
    BY <1>2 DEF FilterGiven
  <2>2. m = i
    BY <2>1, LeastElement
  <2>3. FilterRows(after) /\ FiltersHold(lists, after)
    <3>1. after = Acknowledged(rows, i)
      BY <2>1, <2>2 DEF FilterListAcked
    <3>2. /\ DOMAIN after = DOMAIN rows
          /\ \A k \in DOMAIN rows \ {i} : after[k] = rows[k]
          /\ i \in DOMAIN rows => after[i] = [rows[i] EXCEPT !.prov = TRUE]
      BY <3>1, AcknowledgedFields
    <3> HIDE DEF after
    <3>3. i \in DOMAIN rows => DOMAIN after[i] = {"dev", "prov"} /\ after[i].dev = rows[i].dev
      BY <3>2 DEF FilterRows
    <3>4. FilterRows(after)
      BY <3>2, <3>3 DEF FilterRows
    <3>5. FiltersHold(lists, after)
      BY <2>1, <3>2, <3>3 DEF FiltersHold
    <3> QED  BY <3>4, <3>5 DEF after
  <2> QED  BY <2>3
<1> QED  BY <1>1, <1>2

LEMMA UplinkListAckedHolds ==
  ASSUME NEW lists, NEW rows, DeviceRows(rows), DevicesHold(lists, rows),
         NEW req, UplinkGiven(lists, rows, req)
  PROVE  LET after == UplinkListAcked(rows, req)
         IN DeviceRows(after) /\ DevicesHold(lists, after)
<1> DEFINE after == UplinkListAcked(rows, req)
<1>1. PICK i \in Nat :
        /\ DOMAIN req = {i}
        /\ i \in DOMAIN rows => req[i] = [dev |-> rows[i].dev, entry |-> rows[i].entry]
        /\ i \in DOMAIN lists => lists[i] = req[i]
  BY DEF UplinkGiven
<1>2. Min(DOMAIN req) = i
  BY <1>1, LeastElement
<1>3. after = Acknowledged(rows, i)
  BY <1>2 DEF UplinkListAcked
<1>4. /\ DOMAIN after = DOMAIN rows
      /\ \A k \in DOMAIN rows \ {i} : after[k] = rows[k]
      /\ i \in DOMAIN rows => after[i] = [rows[i] EXCEPT !.prov = TRUE]
  BY <1>3, AcknowledgedFields
<1> HIDE DEF after
<1>5. i \in DOMAIN rows => /\ DOMAIN after[i] = {"dev", "entry", "prov"}
                          /\ after[i].dev = rows[i].dev /\ after[i].entry = rows[i].entry
  BY <1>4 DEF DeviceRows
<1>6. DeviceRows(after)
  BY <1>4, <1>5 DEF DeviceRows
<1>7. DevicesHold(lists, after)
  BY <1>1, <1>4, <1>5 DEF DevicesHold
<1> QED  BY <1>6, <1>7 DEF after

(* What is on its way asks for rows of the session; what was answered, the *)
(* relay has as the session has it.                                        *)
RelayInv ==
  /\ FilterRows(session.relay.filters) /\ DeviceRows(session.relay.devices)
  /\ FiltersHold(device.relay.filters, session.relay.filters)
  /\ DevicesHold(device.relay.devices, session.relay.devices)
  /\ "FilterList" \in DOMAIN air => FilterAsked(session.relay.filters, air["FilterList"])
  /\ "UpdateUplinkList" \in DOMAIN air =>
       UplinkAsked(session.relay.devices, air["UpdateUplinkList"])
  /\ "FilterList" \in DOMAIN device.once =>
       FilterGiven(device.relay.filters, session.relay.filters, session.pending["FilterList"])
  /\ "UpdateUplinkList" \in DOMAIN device.once =>
       UplinkGiven(device.relay.devices, session.relay.devices, session.pending["UpdateUplinkList"])

LEMMA InitRelay == Init => RelayInv
<1> SUFFICES ASSUME Init PROVE RelayInv
  OBVIOUS
<1>1. /\ session.relay = NoLists /\ device.relay = NoLists
      /\ air = << >> /\ device.once = << >>
  BY DEF Init
<1>2. DOMAIN NoLists.filters = {} /\ DOMAIN NoLists.devices = {}
  BY DEF NoLists
<1> QED
  BY <1>1, <1>2 DEF RelayInv, FilterRows, DeviceRows, FiltersHold, DevicesHold

LEMMA RespondRelay ==
  ASSUME Matched, RelayInv, Respond
  PROVE  RelayInv'
<1> DEFINE asked == ListReq(config, session)
           filter == asked.filter
           uplink == asked.uplink
<1>1. /\ device' = device /\ phase = "respond" /\ DOMAIN device.once = {}
      /\ session'.relay = ListRows(asked)
      /\ \A c \in DOMAIN air' : c \in DOMAIN Requests /\ air'[c] = Requests[c]
  BY RespondFields DEF Respond, Matched
<1>2. DOMAIN config.members \subseteq Nat \ {0}
  BY ScenariosAssumption DEF Matched, IsScenario, IsNetwork
<1>3. /\ FilterRows(filter.rows)
      /\ \A lists : FiltersHold(lists, session.relay.filters) => FiltersHold(lists, filter.rows)
      /\ "FilterList" \in DOMAIN filter.req => FilterAsked(filter.rows, filter.req["FilterList"])
      /\ DOMAIN filter.req \subseteq {"FilterList"}
  <2>1. CASE config.isRelay
    <3>1. filter = UpdateFilterList(config.members, session.relay.filters)
      BY <2>1 DEF ListReq, RelayReq
    <3>2. FilterRows(session.relay.filters)
      BY DEF RelayInv
    <3> HIDE DEF filter
    <3> QED  BY <1>2, <3>1, <3>2, UpdateFilterListAsks, FilterReqDomain
  <2>2. CASE ~config.isRelay
    <3>1. filter = [req |-> << >>, rows |-> session.relay.filters]
      BY <2>2 DEF ListReq, NoRelayReq
    <3> QED  BY <3>1 DEF RelayInv
  <2> QED  BY <2>1, <2>2
<1>4. /\ DeviceRows(uplink.rows)
      /\ \A lists : DevicesHold(lists, session.relay.devices) => DevicesHold(lists, uplink.rows)
      /\ "UpdateUplinkList" \in DOMAIN uplink.req =>
           UplinkAsked(uplink.rows, uplink.req["UpdateUplinkList"])
      /\ DOMAIN uplink.req \subseteq {"UpdateUplinkList"}
  <2>1. CASE config.isRelay
    <3>1. uplink = UpdateUplinkList(config.members, session.relay.devices)
      BY <2>1 DEF ListReq, RelayReq
    <3>2. DeviceRows(session.relay.devices)
      BY DEF RelayInv
    <3> HIDE DEF uplink
    <3> QED  BY <1>2, <3>1, <3>2, UpdateUplinkListAsks, UplinkReqDomain
  <2>2. CASE ~config.isRelay
    <3>1. uplink = [req |-> << >>, rows |-> session.relay.devices]
      BY <2>2 DEF ListReq, NoRelayReq
    <3> QED  BY <3>1 DEF RelayInv
  <2> QED  BY <2>1, <2>2
<1>5. DOMAIN asked.ctrl \subseteq {"CtrlUplinkList"}
  BY ListReqDomains
<1>6. session'.relay.filters = filter.rows /\ session'.relay.devices = uplink.rows
  BY <1>1 DEF ListRows
<1>7. \A c \in DOMAIN air' \cap ListCid :
        c \in DOMAIN ListCommands(asked) /\ air'[c] = ListCommands(asked)[c]
  BY <1>1, RequestsFrom
<1> HIDE DEF asked
<1>8. "FilterList" \in DOMAIN air' =>
        "FilterList" \in DOMAIN filter.req /\ air'["FilterList"] = filter.req["FilterList"]
  BY <1>3, <1>4, <1>5, <1>7 DEF ListCommands, Over, ListCid
<1>9. "UpdateUplinkList" \in DOMAIN air' =>
        /\ "UpdateUplinkList" \in DOMAIN uplink.req
        /\ air'["UpdateUplinkList"] = uplink.req["UpdateUplinkList"]
  BY <1>3, <1>4, <1>5, <1>7 DEF ListCommands, Over, ListCid
<1> HIDE DEF filter, uplink
<1> QED  BY <1>1, <1>3, <1>4, <1>6, <1>8, <1>9 DEF RelayInv

LEMMA DownlinkRelay ==
  ASSUME Matched, RelayInv, DownlinkReceived
  PROVE  RelayInv'
<1> DEFINE rules == IF "FilterList" \in DOMAIN air
                    THEN Without(Over(air["FilterList"], device.relay.filters),
                                 {i \in DOMAIN air["FilterList"] : air["FilterList"][i] = NoRule})
                    ELSE device.relay.filters
           entries == IF "UpdateUplinkList" \in DOMAIN air
                      THEN Over(air["UpdateUplinkList"], device.relay.devices)
                      ELSE device.relay.devices
<1>1. /\ device' = DeviceDownlink(device, config, air)
      /\ phase = "air" /\ DOMAIN air' = {} /\ session' = session
  BY DEF DownlinkReceived
<1>2. DownlinkTaken(device', device, ChannelsSet(device, config, air), air)
  BY <1>1, DownlinkFields DEF Matched
<1>3. /\ device'.relay = RelayReceives(device.relay, air)
      /\ DOMAIN device'.once \subseteq DOMAIN air
  BY <1>2 DEF DownlinkTaken
<1>4. /\ device'.relay.filters = rules
      /\ device'.relay.devices = IF "CtrlUplinkList" \in DOMAIN air
                                 THEN Without(entries, air["CtrlUplinkList"]) ELSE entries
  BY <1>3 DEF RelayReceives
<1>5. /\ FiltersHold(rules, session.relay.filters)
      /\ "FilterList" \in DOMAIN air =>
           FilterGiven(rules, session.relay.filters, air["FilterList"])
  BY RelayTakesFilter DEF RelayInv
<1>6. /\ DevicesHold(entries, session.relay.devices)
      /\ "UpdateUplinkList" \in DOMAIN air =>
           UplinkGiven(entries, session.relay.devices, air["UpdateUplinkList"])
  BY RelayTakesUplink DEF RelayInv
<1> HIDE DEF rules, entries
<1>7. /\ DevicesHold(device'.relay.devices, session.relay.devices)
      /\ "UpdateUplinkList" \in DOMAIN air =>
           UplinkGiven(device'.relay.devices, session.relay.devices, air["UpdateUplinkList"])
  BY <1>4, <1>6, WithoutHolds, WithoutGiven
<1>8. \A c \in DOMAIN air : session.pending[c] = air[c]
  BY DEF Matched
<1> QED
  BY <1>1, <1>3, <1>4, <1>5, <1>7, <1>8 DEF RelayInv

LEMMA UplinkRelay ==
  ASSUME Matched, RelayInv, UplinkReceived
  PROVE  RelayInv'
<1> DEFINE cids == ListCid \cap Answered(session, Answers(device))
           rows == session.relay.devices
           updated == IF "UpdateUplinkList" \in cids
                      THEN UplinkListAcked(rows, session.pending["UpdateUplinkList"]) ELSE rows
<1>1. /\ device' = [device EXCEPT !.once = << >>, !.lost = 0]
      /\ phase = "idle" /\ air' = air
  BY DEF UplinkReceived
<1>2. /\ DOMAIN device'.once = {} /\ device'.relay = device.relay
      /\ DOMAIN air' = {}
  BY <1>1 DEF Matched, IsDevice, DeviceFields
<1>3. session'.relay = RelayAnswered(session.relay, session.pending, cids)
  BY UplinkReceivedFields DEF Matched
<1>4. cids \subseteq DOMAIN device.once
  BY DEF Answered, Answers, Over, Matched, Sticky, ListCid
<1> HIDE DEF cids
<1>5. /\ session'.relay.filters
           = IF "FilterList" \in cids
             THEN FilterListAcked(session.relay.filters, session.pending["FilterList"])
             ELSE session.relay.filters
      /\ session'.relay.devices
           = IF "CtrlUplinkList" \in cids
             THEN CtrlUplinkListAcked(updated, session.pending["CtrlUplinkList"]) ELSE updated
  BY <1>3 DEF RelayAnswered
<1>6. /\ FilterRows(session'.relay.filters)
      /\ FiltersHold(device.relay.filters, session'.relay.filters)
  BY <1>4, <1>5, FilterListAckedHolds DEF RelayInv
<1>7. DeviceRows(updated) /\ DevicesHold(device.relay.devices, updated)
  BY <1>4, UplinkListAckedHolds DEF RelayInv
<1> HIDE DEF updated
<1>8. ASSUME NEW slots
      PROVE  /\ DeviceRows(Without(updated, slots))
             /\ DevicesHold(device.relay.devices, Without(updated, slots))
  <2>1. DeviceRows(Without(updated, slots))
    BY <1>7 DEF Without, DeviceRows
  <2> QED  BY <1>7, <2>1, WithoutHolds
<1>9. /\ DeviceRows(session'.relay.devices)
      /\ DevicesHold(device.relay.devices, session'.relay.devices)
  BY <1>5, <1>7, <1>8 DEF CtrlUplinkListAcked
<1> QED  BY <1>2, <1>6, <1>9 DEF RelayInv

LEMMA NextRelay ==
  ASSUME Matched, RelayInv, [Next]_vars
  PROVE  RelayInv'
<1>1. CASE Reconfigure
  BY <1>1 DEF Reconfigure, RelayInv
<1>2. CASE Backoff
  <2>1. device'.relay = device.relay /\ device'.once = device.once
    BY <1>2 DEF Backoff, Matched, IsDevice, DeviceFields
  <2> QED  BY <1>2, <2>1 DEF Backoff, RelayInv
<1>3. CASE UplinkLost
  <2>1. device'.relay = device.relay /\ DOMAIN device'.once = {}
    BY <1>3 DEF UplinkLost, Matched, IsDevice, DeviceFields
  <2> QED  BY <1>3, <2>1 DEF UplinkLost, RelayInv
<1>4. CASE UplinkReceived
  BY <1>4, UplinkRelay
<1>5. CASE Respond
  BY <1>5, RespondRelay
<1>6. CASE NoResponse
  BY <1>6 DEF NoResponse, RelayInv
<1>7. CASE DownlinkReceived
  BY <1>7, DownlinkRelay
<1>8. CASE DownlinkLost
  BY <1>8 DEF DownlinkLost, RelayInv
<1>9. CASE UNCHANGED vars
  BY <1>9 DEF vars, RelayInv
<1> QED
  BY <1>1, <1>2, <1>3, <1>4, <1>5, <1>6, <1>7, <1>8, <1>9 DEF Next

LEMMA RelayInvImplies == RelayInv => RelayKnows
BY HoldsParts DEF RelayInv, RelayKnows

(* A relay has every entry the server takes for acknowledged, although an  *)
(* answer names no entry, slots are used again and answers get lost        *)
(* (filter_list::handle, update_uplink_list::handle).                      *)
THEOREM SpecRelayKnows == Spec => []RelayKnows
<1>1. RelayInv /\ Matched /\ [Next]_vars => RelayInv'
  BY NextRelay
<1> QED  BY <1>1, InitRelay, RelayInvImplies, SpecMatched, PTL DEF Spec

-----------------------------------------------------------------------------
(* The masks of LinkADRReqs: which channels they may enable, and which they *)
(* never take away.                                                        *)

LEMMA AppliedWithin ==
  ASSUME NEW channels, NEW used, NEW masks, NEW S,
         used \subseteq S, \A b \in DOMAIN masks : masks[b] \subseteq S
  PROVE  Applied(channels, used, masks) \subseteq S
BY DEF Applied

(* The channels F are kept by masks that name each of them, or leave its    *)
(* block alone.                                                            *)
Keeps(masks, F) ==
  \A c \in F : IF Block(c) \in DOMAIN masks THEN c \in masks[Block(c)]
               ELSE AllOff \in DOMAIN masks => c \in masks[AllOff]

LEMMA AppliedKeeps ==
  ASSUME NEW F \in SUBSET Nat, NEW channels, F \subseteq channels,
         NEW used, F \subseteq used, NEW masks, Keeps(masks, F)
  PROVE  F \subseteq Applied(channels, used, masks)
<1> SUFFICES ASSUME NEW c \in F PROVE c \in Applied(channels, used, masks)
  OBVIOUS
<1>1. Block(c) # AllOff
  BY AllOffIsNoBlock
<1>2. CASE Block(c) \in DOMAIN masks
  BY <1>1, <1>2 DEF Applied, Keeps
<1>3. CASE Block(c) \notin DOMAIN masks
  BY <1>1, <1>3 DEF Applied, Keeps
<1> QED  BY <1>2, <1>3

LEMMA PayloadsKeep ==
  ASSUME NEW plan, IsPlan(plan), NEW used \in SUBSET Nat,
         NEW F, F \subseteq plan.enabled \cap Default(plan), F \subseteq used
  PROVE  Keeps(Payloads(plan, used), F)
<1>1. F \subseteq Nat /\ F \subseteq plan.enabled /\ \A c \in F : c \notin plan.user
  BY DEF IsPlan, Default
<1>2. CASE ResetIsShorter(plan, used)
  <2> DEFINE N == NarrowBlocks(plan)
             P == ResetPayloads(plan)
  <2>1. AllOff \notin N /\ \A c \in Nat : Block(c) # AllOff
    BY AllOffIsNoBlock DEF NarrowBlocks, IsPlan
  <2>2. /\ DOMAIN P = N \cup {AllOff}
        /\ P[AllOff] = plan.enabled \cap plan.wide
        /\ \A b \in N : P[b] = {c \in plan.enabled : Block(c) = b}
    BY <2>1 DEF ResetPayloads
  <2>3. \A c \in F : c \in plan.wide \/ Block(c) \in N
    BY <1>1 DEF NarrowBlocks
  <2> HIDE DEF P
  <2>4. Keeps(P, F)
    BY <1>1, <2>1, <2>2, <2>3 DEF Keeps
  <2> QED  BY <1>2, <2>4 DEF Payloads, P
<1>3. CASE ~ResetIsShorter(plan, used)
  <2> DEFINE B == ChangedBlocks(plan, used)
             P == BlockPayloads(plan, used)
  <2>1. AllOff \notin B
    <3>1. ToChange(plan, used) \subseteq Nat
      BY DEF ToChange, IsPlan
    <3> QED  BY <3>1, AllOffIsNoBlock DEF ChangedBlocks
  <2>2. DOMAIN P = B /\ \A b \in B : P[b] = {c \in Wanted(plan, used) : Block(c) = b}
    BY DEF BlockPayloads
  <2>3. F \subseteq Wanted(plan, used)
    BY <1>1 DEF Wanted
  <2> HIDE DEF P, B
  <2>4. Keeps(P, F)
    BY <2>1, <2>2, <2>3 DEF Keeps
  <2> QED  BY <1>3, <2>4 DEF Payloads, P
<1> QED  BY <1>2, <1>3

LEMMA FirstBlockMasks ==
  ASSUME NEW s, s.enabled \in SUBSET Nat
  PROVE  /\ \A b \in DOMAIN FirstBlock(s) : FirstBlock(s)[b] \subseteq s.enabled
         /\ \A F : F \subseteq s.enabled => Keeps(FirstBlock(s), F)
<1> DEFINE b == Block(Min(s.enabled))
<1>1. DOMAIN FirstBlock(s) = {b} /\ FirstBlock(s)[b] = {c \in s.enabled : Block(c) = b}
  BY DEF FirstBlock
<1> HIDE DEF b
<1>2. CASE s.enabled = {}
  BY <1>1, <1>2 DEF Keeps
<1>3. CASE s.enabled # {}
  <2>1. b # AllOff
    BY <1>3, LeastElement, AllOffIsNoBlock DEF b
  <2> QED  BY <1>1, <2>1 DEF Keeps
<1> QED  BY <1>2, <1>3

(* A LinkADRReq enables default channels and channels in use only, and     *)
(* keeps the wanted default channels that are in use.                      *)
LEMMA LinkADRReqMasks ==
  ASSUME NEW cfg, IsPlan(cfg.plan), NEW s, s.enabled \in SUBSET Nat, NEW dr,
         "LinkADR" \in DOMAIN LinkADRReq(cfg, s, dr)
  PROVE  LET masks == LinkADRReq(cfg, s, dr)["LinkADR"].masks
         IN /\ \A b \in DOMAIN masks : masks[b] \subseteq Default(cfg.plan) \cup s.enabled
            /\ \A F : F \subseteq cfg.plan.enabled \cap Default(cfg.plan) /\ F \subseteq s.enabled
                        => Keeps(masks, F)
<1> DEFINE masks == LinkADRReq(cfg, s, dr)["LinkADR"].masks
<1>1. masks \in {Payloads(cfg.plan, s.enabled), FirstBlock(s)}
  BY DEF LinkADRReq
<1>2. CASE masks = Payloads(cfg.plan, s.enabled)
  <2>1. \A b \in DOMAIN Payloads(cfg.plan, s.enabled) :
          Payloads(cfg.plan, s.enabled)[b] \subseteq Default(cfg.plan) \cup s.enabled
    BY PayloadsEnableKnown DEF Default
  <2>2. \A F : F \subseteq cfg.plan.enabled \cap Default(cfg.plan) /\ F \subseteq s.enabled
               => Keeps(Payloads(cfg.plan, s.enabled), F)
    BY PayloadsKeep
  <2> HIDE DEF masks
  <2> QED  BY <1>2, <2>1, <2>2 DEF masks
<1>3. CASE masks = FirstBlock(s)
  <2> HIDE DEF masks
  <2> QED  BY <1>3, FirstBlockMasks DEF masks
<1> QED  BY <1>1, <1>2, <1>3

MasksKnown(masks) == \A b \in DOMAIN masks : masks[b] \subseteq Knows(device, config)

(* What the server takes for enabled, and what it asks to enable, the       *)
(* device knows; unless it fell back and did not tell the server yet.      *)
KnownInv ==
  /\ session.enabled \subseteq Nat /\ DOMAIN device.known \subseteq Nat
  /\ (phase = "idle" /\ device.ackReq) \/ session.enabled \subseteq Knows(device, config)
  /\ "NewChannel" \in DOMAIN session.pending => DOMAIN session.pending["NewChannel"] \subseteq Nat
  /\ "NewChannel" \in DOMAIN device.once =>
       \A c \in DOMAIN device.once["NewChannel"] :
         device.once["NewChannel"][c] => c \in DOMAIN device.known
  /\ "LinkADR" \in DOMAIN device.once => MasksKnown(session.pending["LinkADR"].masks)
  /\ "LinkADR" \in DOMAIN air => MasksKnown(air["LinkADR"].masks)

(* The wanted default channels stay enabled on both sides, while the plan  *)
(* stays what it is.                                                       *)
KeptChannels == config.plan.enabled \cap Default(config.plan)

KeptInv ==
  PlanStays =>
    /\ KeptChannels \subseteq session.enabled /\ KeptChannels \subseteq device.enabled
    /\ "LinkADR" \in DOMAIN device.once => Keeps(session.pending["LinkADR"].masks, KeptChannels)
    /\ "LinkADR" \in DOMAIN air => Keeps(air["LinkADR"].masks, KeptChannels)

MaskInv == KnownInv /\ KeptInv

LEMMA MatchedPlan ==
  ASSUME Matched
  PROVE  /\ IsPlan(config.plan)
         /\ Default(config.plan) \subseteq Nat
         /\ KeptChannels \subseteq Default(config.plan)
         /\ \A n \in config.later : n \in scenario.networks
                                    /\ Default(n.plan) = Default(config.plan)
<1>1. IsPlan(config.plan)
  BY ScenariosAssumption DEF Matched, IsScenario, IsNetwork
<1>2. Default(config.plan) \subseteq Nat
  BY <1>1 DEF IsPlan, Default
<1>3. \A n \in config.later : n \in scenario.networks /\ Default(n.plan) = Default(config.plan)
  BY ScenariosAssumption DEF Matched, IsScenario
<1> QED  BY <1>1, <1>2, <1>3 DEF KeptChannels

LEMMA InitMasks == Init => MaskInv
<1> SUFFICES ASSUME Init PROVE MaskInv
  OBVIOUS
<1>1. Matched
  BY InitMatched
<1>2. /\ session.enabled = Default(config.plan) /\ device.enabled = Default(config.plan)
      /\ DOMAIN device.known = {} /\ DOMAIN session.pending = {}
      /\ DOMAIN device.once = {} /\ DOMAIN air = {}
  BY DEF Init
<1> QED  BY <1>1, <1>2, MatchedPlan DEF MaskInv, KnownInv, KeptInv, Knows

LEMMA AckedWithin ==
  ASSUME NEW s, IsSession(s), NEW req, NEW ans
  PROVE  HandleNewChannel(s, req, ans).enabled
           \in {s.enabled, s.enabled \cup {c \in DOMAIN req : ans[c]}}
         /\ (HandleNewChannel(s, req, ans).enabled = s.enabled \/ DOMAIN ans = DOMAIN req)
BY DEF HandleNewChannel, ChannelsAcked, IsSession, SessionFields

LEMMA HandleLinkADREnabled ==
  ASSUME NEW cfg, NEW s, IsSession(s), NEW req, NEW ans
  PROVE  HandleLinkADR(cfg, s, req, ans).enabled
           \in {s.enabled, Applied(cfg.plan.channels, s.enabled, req.masks)}
BY DEF HandleLinkADR, LinkADRAcked, LinkADRRefused, LearnPower, Refusal, IsSession, SessionFields

LEMMA UplinkMasks ==
  ASSUME Matched, MaskInv, UplinkReceived
  PROVE  MaskInv'
<1> DEFINE b == BeforeAnswers
           answers == Answers(device)
           h == Handled(config, b, answers)
           K == Knows(device, config)
<1>1. /\ device' = [device EXCEPT !.once = << >>, !.lost = 0]
      /\ scenario' = scenario /\ config' = config
      /\ phase = "idle" /\ phase' = "respond" /\ air' = air
  BY DEF UplinkReceived
<1>2. /\ DOMAIN device'.once = {} /\ DOMAIN air' = {}
      /\ device'.known = device.known /\ device'.enabled = device.enabled
      /\ Knows(device', config') = K
  BY <1>1 DEF Matched, IsDevice, DeviceFields, Knows
<1>3. /\ IsSession(b) /\ b.pending = session.pending
      /\ b.enabled = IF device.ackReq \/ session.enabled = {}
                     THEN Default(config.plan) ELSE session.enabled
  BY BeforeAnswersFields DEF Matched
<1>4. session'.enabled = h.enabled
  BY UplinkReceivedFields DEF Matched
<1>5. \A c \in {"LinkADR", "NewChannel"} :
        c \in Answered(b, answers) => c \in DOMAIN device.once /\ answers[c] = device.once[c]
  BY <1>3 DEF Answered, Answers, Over, Matched, Sticky
<1>6. K \subseteq Nat /\ b.enabled \subseteq K /\ Default(config.plan) \subseteq K
  BY <1>1, <1>3, MatchedPlan DEF MaskInv, KnownInv, Knows
<1>7. PlanStays => KeptChannels \subseteq b.enabled
  BY <1>3, MatchedPlan DEF MaskInv, KeptInv
<1> HIDE DEF b, answers, K
<1>8. h.enabled \subseteq K /\ (PlanStays => KeptChannels \subseteq h.enabled)
  <2>1. CASE "LinkADR" \in Answered(b, answers)
    <3> DEFINE req == b.pending["LinkADR"]
    <3>1. h.enabled \in {b.enabled, Applied(config.plan.channels, b.enabled, req.masks)}
      BY <1>3, <2>1, HandleLinkADREnabled DEF Handled
    <3>2. /\ \A m \in DOMAIN req.masks : req.masks[m] \subseteq K
          /\ PlanStays => Keeps(req.masks, KeptChannels)
      BY <1>3, <1>5, <2>1 DEF MaskInv, KnownInv, KeptInv, MasksKnown, K
    <3> HIDE DEF req
    <3>3. Applied(config.plan.channels, b.enabled, req.masks) \subseteq K
      BY <1>6, <3>2, AppliedWithin
    <3>4. PlanStays => KeptChannels \subseteq Applied(config.plan.channels, b.enabled, req.masks)
      <4>1. KeptChannels \subseteq config.plan.channels /\ KeptChannels \subseteq Nat
        BY MatchedPlan DEF KeptChannels, Default
      <4> QED  BY <4>1, <1>7, <3>2, AppliedKeeps
    <3> QED  BY <1>6, <1>7, <3>1, <3>3, <3>4
  <2>2. CASE "LinkADR" \notin Answered(b, answers) /\ "NewChannel" \in Answered(b, answers)
    <3> DEFINE req == b.pending["NewChannel"]
               ans == answers["NewChannel"]
    <3>1. h = HandleNewChannel(b, req, ans)
      BY <2>2 DEF Handled
    <3> HIDE DEF req, ans, h
    <3>2. /\ h.enabled \in {b.enabled, b.enabled \cup {c \in DOMAIN req : ans[c]}}
          /\ h.enabled = b.enabled \/ DOMAIN ans = DOMAIN req
      BY <1>3, <3>1, AckedWithin
    <3>3. \A c \in DOMAIN ans : ans[c] => c \in K
      BY <1>5, <2>2 DEF ans, MaskInv, KnownInv, Knows, K
    <3> QED  BY <1>6, <1>7, <3>2, <3>3
  <2>3. CASE {"LinkADR", "NewChannel"} \cap Answered(b, answers) = {}
    <3>1. h = b
      BY <2>3 DEF Handled
    <3> QED  BY <1>6, <1>7, <3>1
  <2> QED  BY <2>1, <2>2, <2>3
<1> HIDE DEF h
<1>9. \A c \in DOMAIN session'.pending :
        c \in DOMAIN session.pending /\ session'.pending[c] = session.pending[c]
  BY UplinkReceivedFields DEF Matched
<1>10. KnownInv'
  BY <1>1, <1>2, <1>4, <1>6, <1>8, <1>9 DEF MaskInv, KnownInv
<1>11. PlanStays' => PlanStays /\ KeptChannels' = KeptChannels
  BY <1>1 DEF PlanStays, KeptChannels
<1>12. KeptInv'
  BY <1>1, <1>2, <1>4, <1>8, <1>11 DEF MaskInv, KeptInv
<1> QED  BY <1>10, <1>12 DEF MaskInv

LEMMA NewChannelReqKeys ==
  ASSUME NEW cfg, NEW s
  PROVE  "NewChannel" \in DOMAIN NewChannelReq(cfg, s) =>
           DOMAIN NewChannelReq(cfg, s)["NewChannel"] \subseteq cfg.plan.user
<1> DEFINE wanted == WantedChannels(cfg)
           missing == {c \in DOMAIN wanted : c \notin DOMAIN s.extra \/ s.extra[c] # wanted[c]}
<1>1. NewChannelReq(cfg, s) = AddChannels(cfg, s, missing)
  BY DEF NewChannelReq
<1>2. missing \subseteq cfg.plan.user
  BY DEF WantedChannels
<1> HIDE DEF missing, wanted
<1>3. "NewChannel" \in DOMAIN AddChannels(cfg, s, missing) =>
        DOMAIN AddChannels(cfg, s, missing)["NewChannel"] = Lowest(missing, MaxChannels)
  BY DEF AddChannels
<1> QED  BY <1>1, <1>2, <1>3 DEF Lowest

LEMMA RespondMasks ==
  ASSUME Matched, MaskInv, Respond
  PROVE  MaskInv'
<1> DEFINE s == DropChannels(config, session)
<1>1. /\ device' = device /\ scenario' = scenario /\ config' = config
      /\ phase = "respond" /\ phase' = "air" /\ DOMAIN device.once = {}
  BY DEF Respond, Matched
<1>2. session'.enabled = session.enabled
  BY RespondFields DEF Matched, SessionFields
<1>3. PICK reqs : /\ session'.pending = Over(reqs, session.pending)
                  /\ DOMAIN reqs \subseteq DOMAIN Requests
                  /\ \A c \in DOMAIN reqs : reqs[c] = Requests[c]
  BY RespondFields DEF Matched
<1>4. \A c \in DOMAIN air' : c \in DOMAIN Requests /\ air'[c] = Requests[c]
  BY RespondFields DEF Matched
<1>5. s.enabled = session.enabled
  BY DropChannelsFields DEF Matched, SessionFields
<1>6. config.plan.user \subseteq Nat /\ IsPlan(config.plan)
  BY MatchedPlan DEF IsPlan
<1>7. "NewChannel" \in DOMAIN session'.pending => DOMAIN session'.pending["NewChannel"] \subseteq Nat
  <2>1. CASE "NewChannel" \in DOMAIN reqs
    <3>1. session'.pending["NewChannel"] = NewChannelReq(config, s)["NewChannel"]
          /\ "NewChannel" \in DOMAIN NewChannelReq(config, s)
      BY <1>3, <2>1, RequestsFrom DEF Over
    <3> QED  BY <1>6, <3>1, NewChannelReqKeys
  <2>2. CASE "NewChannel" \notin DOMAIN reqs
    BY <1>3, <2>2 DEF Over, MaskInv, KnownInv
  <2> QED  BY <2>1, <2>2
<1>8. "LinkADR" \in DOMAIN air' =>
        LET masks == air'["LinkADR"].masks
        IN /\ \A b \in DOMAIN masks : masks[b] \subseteq Default(config.plan) \cup session.enabled
           /\ \A F : F \subseteq KeptChannels /\ F \subseteq session.enabled => Keeps(masks, F)
  <2> HAVE "LinkADR" \in DOMAIN air'
  <2>1. /\ "LinkADR" \in DOMAIN LinkADRReq(config, s, device.dr)
        /\ air'["LinkADR"] = LinkADRReq(config, s, device.dr)["LinkADR"]
    BY <1>4, RequestsFrom
  <2>2. s.enabled \in SUBSET Nat
    BY <1>5 DEF MaskInv, KnownInv
  <2> HIDE DEF s
  <2> QED  BY <1>5, <1>6, <2>1, <2>2, LinkADRReqMasks DEF KeptChannels
<1>9. session.enabled \subseteq Knows(device, config) /\ Default(config.plan) \subseteq Knows(device, config)
  BY <1>1 DEF MaskInv, KnownInv, Knows
<1>10. Knows(device', config') = Knows(device, config)
  BY <1>1 DEF Knows
<1>11. "LinkADR" \in DOMAIN air' => MasksKnown(air["LinkADR"].masks)'
  BY <1>8, <1>9, <1>10 DEF MasksKnown
<1>12. KnownInv'
  BY <1>1, <1>2, <1>7, <1>9, <1>10, <1>11 DEF MaskInv, KnownInv
<1>13. PlanStays' => PlanStays /\ KeptChannels' = KeptChannels
  BY <1>1 DEF PlanStays, KeptChannels
<1>14. KeptInv'
  BY <1>1, <1>2, <1>8, <1>13 DEF MaskInv, KeptInv
<1> QED  BY <1>12, <1>14 DEF MaskInv

(* What a downlink makes of the channels of the device.                    *)
ChannelsTaken(t, d, cfg, reqs) ==
  /\ "LinkADR" \in DOMAIN t.once => "LinkADR" \in DOMAIN reqs
  /\ "NewChannel" \in DOMAIN t.once =>
       /\ "NewChannel" \in DOMAIN reqs
       /\ \A c \in DOMAIN t.once["NewChannel"] : t.once["NewChannel"][c] => c \in DOMAIN t.known
  /\ \/ t.enabled = d.enabled /\ t.known = d.known
     \/ /\ "LinkADR" \in DOMAIN reqs
        /\ t.enabled = NewMask(d, cfg, reqs["LinkADR"].masks) /\ t.known = d.known
     \/ /\ "NewChannel" \in DOMAIN reqs /\ d.enabled \subseteq t.enabled
        /\ DOMAIN d.known \subseteq DOMAIN t.known
        /\ DOMAIN t.known \subseteq DOMAIN d.known \cup DOMAIN reqs["NewChannel"]

LEMMA ChannelsSetMasks ==
  ASSUME NEW cfg, NEW d, IsDevice(d), DOMAIN d.once = {}, NEW reqs
  PROVE  ChannelsTaken(ChannelsSet(d, cfg, reqs), d, cfg, reqs)
<1> DEFINE h == Heard(d, reqs)
<1>1. /\ IsDevice(h) /\ DOMAIN h.once = ListCid \cap DOMAIN reqs
      /\ h.enabled = d.enabled /\ h.known = d.known
  <2>1. /\ IsDevice(h) /\ DOMAIN h.once = ListCid \cap DOMAIN reqs
        /\ \A f \in DeviceFields \ {"ackReq", "relay", "once"} : h[f] = d[f]
    BY HeardFields
  <2> HIDE DEF h
  <2> QED  BY <2>1 DEF DeviceFields
<1>2. \A masks : NewMask(h, cfg, masks) = NewMask(d, cfg, masks)
  BY <1>1 DEF NewMask, Knows
<1>3. {"LinkADR", "NewChannel"} \cap DOMAIN h.once = {}
  BY <1>1 DEF ListCid
<1> HIDE DEF h
<1>4. CASE "LinkADR" \in DOMAIN reqs
  <2> DEFINE t == DeviceLinkADR(h, cfg, reqs["LinkADR"])
             ans == LinkADRAnswer(h, cfg, reqs["LinkADR"])
  <2>1. ChannelsSet(d, cfg, reqs) = t
    BY <1>4 DEF ChannelsSet, h
  <2>2. /\ t.once = Over([LinkADR |-> ans], h.once) /\ t.known = h.known
        /\ t.enabled \in {h.enabled, NewMask(h, cfg, reqs["LinkADR"].masks)}
    BY <1>1, DeviceLinkADRFields
  <2> HIDE DEF t, ans
  <2>3. "NewChannel" \notin DOMAIN t.once
    BY <1>3, <2>2 DEF Over
  <2> QED  BY <1>1, <1>2, <1>4, <2>1, <2>2, <2>3 DEF ChannelsTaken
<1>5. CASE "LinkADR" \notin DOMAIN reqs /\ "NewChannel" \in DOMAIN reqs
  <2> DEFINE req == reqs["NewChannel"]
             t == DeviceNewChannel(h, req)
             ans == NewChannelAnswer(req)
             added == {c \in DOMAIN req : req[c].freq \in scenario.freqs}
  <2>1. ChannelsSet(d, cfg, reqs) = t
    BY <1>5 DEF ChannelsSet, h
  <2>2. /\ t.once = Over([NewChannel |-> ans], h.once)
        /\ t.enabled = h.enabled \cup added
        /\ DOMAIN t.known = DOMAIN h.known \cup added
    BY <1>1, DeviceNewChannelFields
  <2>3. \A c \in DOMAIN ans : ans[c] => c \in added
    BY DEF NewChannelAnswer
  <2>4. added \subseteq DOMAIN reqs["NewChannel"]
    OBVIOUS
  <2> HIDE DEF t, ans, added
  <2>5. "LinkADR" \notin DOMAIN t.once /\ t.once["NewChannel"] = ans
    BY <1>3, <2>2 DEF Over
  <2> QED  BY <1>1, <1>5, <2>1, <2>2, <2>3, <2>4, <2>5 DEF ChannelsTaken
<1>6. CASE {"LinkADR", "NewChannel"} \cap DOMAIN reqs = {}
  <2>1. ChannelsSet(d, cfg, reqs) = h
    BY <1>6 DEF ChannelsSet, h
  <2> QED  BY <1>1, <1>3, <2>1 DEF ChannelsTaken
<1> QED  BY <1>4, <1>5, <1>6

(* Masks that keep the wanted default channels leave the device with them. *)
LEMMA NewMaskKeeps ==
  ASSUME Matched, KeptChannels \subseteq device.enabled,
         NEW masks, Keeps(masks, KeptChannels)
  PROVE  KeptChannels \subseteq NewMask(device, config, masks)
<1>1. KeptChannels \subseteq Nat /\ KeptChannels \subseteq Knows(device, config)
  BY MatchedPlan DEF Knows
<1> QED  BY <1>1, AppliedKeeps DEF NewMask

LEMMA DownlinkMasks ==
  ASSUME Matched, MaskInv, DownlinkReceived
  PROVE  MaskInv'
<1> DEFINE c == ChannelsSet(device, config, air)
<1>1. /\ device' = DeviceDownlink(device, config, air)
      /\ phase = "air" /\ phase' = "idle" /\ DOMAIN air' = {}
      /\ session' = session /\ scenario' = scenario /\ config' = config
  BY DEF DownlinkReceived
<1>2. IsDevice(device) /\ DOMAIN device.once = {}
  BY <1>1 DEF Matched
<1>3. DownlinkTaken(device', device, c, air) /\ ChannelsTaken(c, device, config, air)
  BY <1>1, <1>2, DownlinkFields, ChannelsSetMasks
<1> HIDE DEF c
<1>4. /\ device'.enabled = c.enabled /\ device'.known = c.known
      /\ \A x \in {"LinkADR", "NewChannel"} :
           x \in DOMAIN device'.once => x \in DOMAIN c.once /\ device'.once[x] = c.once[x]
  BY <1>3 DEF DownlinkTaken, Over, Set, Param
<1>5. \A x \in DOMAIN air : x \in DOMAIN session.pending /\ session.pending[x] = air[x]
  BY DEF Matched
<1>6. "NewChannel" \in DOMAIN air => DOMAIN air["NewChannel"] \subseteq Nat
  BY <1>5 DEF MaskInv, KnownInv
<1>7. /\ DOMAIN device.known \subseteq DOMAIN device'.known /\ DOMAIN device'.known \subseteq Nat
      /\ Knows(device, config) \subseteq Knows(device', config')
  BY <1>1, <1>3, <1>4, <1>6 DEF ChannelsTaken, MaskInv, KnownInv, Knows
<1>8. session.enabled \subseteq Knows(device, config)
  BY <1>1 DEF MaskInv, KnownInv
<1>9. "NewChannel" \in DOMAIN device'.once =>
        \A x \in DOMAIN device'.once["NewChannel"] :
          device'.once["NewChannel"][x] => x \in DOMAIN device'.known
  BY <1>3, <1>4 DEF ChannelsTaken
<1>10. "LinkADR" \in DOMAIN device'.once =>
         "LinkADR" \in DOMAIN air /\ air["LinkADR"] = session'.pending["LinkADR"]
  BY <1>1, <1>3, <1>4, <1>5 DEF ChannelsTaken
<1>11. "LinkADR" \in DOMAIN device'.once => MasksKnown(session.pending["LinkADR"].masks)'
  <2> HAVE "LinkADR" \in DOMAIN device'.once
  <2>1. MasksKnown(air["LinkADR"].masks)
    BY <1>10 DEF MaskInv, KnownInv
  <2> QED  BY <1>7, <1>10, <2>1 DEF MasksKnown
<1>12. KnownInv'
  BY <1>1, <1>7, <1>8, <1>9, <1>11 DEF MaskInv, KnownInv
<1>13. PlanStays' => PlanStays /\ KeptChannels' = KeptChannels
  BY <1>1 DEF PlanStays, KeptChannels
<1>14. PlanStays => KeptChannels \subseteq device'.enabled
  <2> HAVE PlanStays
  <2>1. KeptChannels \subseteq device.enabled
    BY DEF MaskInv, KeptInv
  <2>2. "LinkADR" \in DOMAIN air =>
          KeptChannels \subseteq NewMask(device, config, air["LinkADR"].masks)
    BY <2>1, NewMaskKeeps DEF MaskInv, KeptInv
  <2> QED  BY <1>3, <1>4, <2>1, <2>2 DEF ChannelsTaken
<1>15. KeptInv'
  BY <1>1, <1>10, <1>13, <1>14 DEF MaskInv, KeptInv
<1> QED  BY <1>12, <1>15 DEF MaskInv

LEMMA BackoffMasks ==
  ASSUME Matched, MaskInv, Backoff
  PROVE  MaskInv'
<1>1. /\ phase = "idle" /\ phase' = "idle" /\ DOMAIN air' = {}
      /\ session' = session /\ scenario' = scenario /\ config' = config
      /\ DOMAIN device'.once = {} /\ device'.ackReq
      /\ device'.enabled \in {device.enabled, Default(config.plan)}
      /\ device'.known \in {device.known, << >>}
  BY DEF Backoff, Matched, IsDevice, DeviceFields
<1>2. DOMAIN device'.known \subseteq Nat
  BY <1>1 DEF MaskInv, KnownInv
<1>3. KnownInv'
  BY <1>1, <1>2 DEF MaskInv, KnownInv
<1>4. PlanStays' => PlanStays /\ KeptChannels' = KeptChannels
  BY <1>1 DEF PlanStays, KeptChannels
<1>5. KeptInv'
  BY <1>1, <1>4, MatchedPlan DEF MaskInv, KeptInv
<1> QED  BY <1>3, <1>5 DEF MaskInv

LEMMA ReconfigureMasks ==
  ASSUME Matched, MaskInv, Reconfigure
  PROVE  MaskInv'
<1>1. /\ config' \in config.later /\ phase' = phase /\ device' = device
      /\ session' = session /\ scenario' = scenario /\ air' = air /\ phase = "idle"
  BY DEF Reconfigure
<1>2. config' \in scenario.networks /\ Default(config'.plan) = Default(config.plan)
  BY <1>1, MatchedPlan
<1>3. Knows(device', config') = Knows(device, config)
  BY <1>1, <1>2 DEF Knows
<1>4. KnownInv'
  BY <1>1, <1>3 DEF MaskInv, KnownInv, MasksKnown
<1>5. PlanStays' => PlanStays /\ KeptChannels' = KeptChannels
  BY <1>1, <1>2 DEF PlanStays, KeptChannels, Matched
<1>6. KeptInv'
  BY <1>1, <1>5 DEF MaskInv, KeptInv
<1> QED  BY <1>4, <1>6 DEF MaskInv

LEMMA NextMasks ==
  ASSUME Matched, MaskInv, [Next]_vars
  PROVE  MaskInv'
<1> USE DEF MaskInv
<1>1. CASE Reconfigure
  BY <1>1, ReconfigureMasks
<1>2. CASE Backoff
  BY <1>2, BackoffMasks
<1>3. CASE UplinkLost
  <2>1. /\ DOMAIN device'.once = {} /\ device'.ackReq = device.ackReq
        /\ device'.enabled = device.enabled /\ device'.known = device.known
    BY <1>3 DEF UplinkLost, Matched, IsDevice, DeviceFields
  <2>2. /\ UNCHANGED <<scenario, config, session, phase, air>> /\ DOMAIN air = {}
    BY <1>3 DEF UplinkLost, Matched
  <2> QED  BY <2>1, <2>2 DEF KnownInv, KeptInv, PlanStays, KeptChannels, Knows
<1>4. CASE UplinkReceived
  BY <1>4, UplinkMasks
<1>5. CASE Respond
  BY <1>5, RespondMasks
<1>6. CASE NoResponse
  BY <1>6 DEF NoResponse, KnownInv, KeptInv, PlanStays, KeptChannels, Knows, MasksKnown
<1>7. CASE DownlinkReceived
  BY <1>7, DownlinkMasks
<1>8. CASE DownlinkLost
  BY <1>8 DEF DownlinkLost, KnownInv, KeptInv, PlanStays, KeptChannels, Knows, MasksKnown
<1>9. CASE UNCHANGED vars
  BY <1>9 DEF vars, KnownInv, KeptInv, PlanStays, KeptChannels, Knows, MasksKnown
<1> QED
  BY <1>1, <1>2, <1>3, <1>4, <1>5, <1>6, <1>7, <1>8, <1>9 DEF Next

LEMMA MaskInvImplies == Matched /\ MaskInv => MasksAreKnown
<1> SUFFICES ASSUME Matched, MaskInv, "LinkADR" \in DOMAIN air
             PROVE  MasksAreKnown
  BY DEF MasksAreKnown
<1> DEFINE masks == air["LinkADR"].masks
<1>1. \A b \in DOMAIN masks : masks[b] \subseteq Knows(device, config)
  BY DEF MaskInv, KnownInv, MasksKnown
<1>2. PlanStays => NewMask(device, config, masks) # {}
  <2> HAVE PlanStays
  <2>1. KeptChannels # {}
    BY DEF PlanStays, KeptChannels
  <2>2. KeptChannels \subseteq device.enabled /\ Keeps(masks, KeptChannels)
    BY DEF MaskInv, KeptInv
  <2> QED  BY <2>1, <2>2, NewMaskKeeps
<1> QED  BY <1>1, <1>2 DEF MasksAreKnown

(* A LinkADRReq enables no channel the device has not been given, and does *)
(* not leave it without one while the channel-plan stays what it is        *)
(* (link_adr::handle, new_channel::handle, reset_channels_on_adr_ack_req). *)
THEOREM SpecMasksAreKnown == Spec => []MasksAreKnown
<1>1. MaskInv /\ Matched /\ [Next]_vars => MaskInv'
  BY NextMasks
<1> QED  BY <1>1, InitMasks, MaskInvImplies, SpecMatched, PTL DEF Spec

-----------------------------------------------------------------------------
(* Types, and the power indices.                                           *)

HistoryEntry == [snr : Int, txPower : Nat, lost : Nat]

IsLinkReq(req) == req.dr \in Nat /\ req.txPower \in 0 .. RegionMaxTx /\ req.nbTrans \in 1 .. 3

IsNewChannelReq(req) == DOMAIN req \subseteq Nat /\ IsFiniteSet(DOMAIN req)

Typed(s) ==
  /\ IsLinkReq(s)
  /\ s.minTx \in 0 .. 1 /\ s.maxTx \in 0 .. RegionMaxTx
  /\ s.history \in Seq(HistoryEntry) /\ Len(s.history) <= HistorySize
  /\ DOMAIN s.extra \subseteq Nat /\ s.errors \in [Cid -> Nat]

SessionType == session.adr = scenario.adr /\ Typed(session)

PendingType ==
  /\ DOMAIN session.pending \subseteq Cid
  /\ "LinkADR" \in DOMAIN session.pending => IsLinkReq(session.pending["LinkADR"])
  /\ "NewChannel" \in DOMAIN session.pending => IsNewChannelReq(session.pending["NewChannel"])

DeviceType == device.dr \in Nat /\ device.txPower \in Nat /\ device.lost \in Nat

TypeInv ==
  /\ phase \in {"idle", "respond", "air"} /\ must \in BOOLEAN /\ mismatch \in BOOLEAN
  /\ device.ackReq \in BOOLEAN
  /\ SessionType /\ PendingType /\ DeviceType
  /\ refused \subseteq 0 .. RegionMaxTx

(* With contiguous powers, the server believes in a power the device       *)
(* supports, has learned of each refusal, and asks for less than what was  *)
(* refused; a device without ADR refuses nothing.                          *)
BelowRefused(q) == \A r \in refused : q < r

PowerInv ==
  ContiguousPowers =>
    /\ session.txPower \in scenario.powers /\ session.minTx = 0
    /\ refused \cap scenario.powers = {}
    /\ refused # {} => session.maxTx # 0 /\ BelowRefused(session.maxTx)
    /\ "LinkADR" \in DOMAIN air => BelowRefused(air["LinkADR"].txPower)
    /\ "LinkADR" \in DOMAIN device.once =>
         LET q == session.pending["LinkADR"].txPower
         IN BelowRefused(q) /\ device.once["LinkADR"].power = (q \in scenario.powers)
    /\ ~scenario.adr =>
         /\ session.txPower = 0 /\ device.txPower = 0 /\ refused = {}
         /\ "LinkADR" \in DOMAIN air => air["LinkADR"].txPower = 0
         /\ "LinkADR" \in DOMAIN device.once => session.pending["LinkADR"].txPower = 0

LEMMA MaxOfTwo ==
  ASSUME NEW a \in Int, NEW b \in Int
  PROVE  Max({a, b}) = IF a >= b THEN a ELSE b
<1>1. \E x \in {a, b} : \A y \in {a, b} : x >= y
  OBVIOUS
<1>2. /\ Max({a, b}) \in {a, b} /\ \A y \in {a, b} : Max({a, b}) >= y
  BY <1>1 DEF Max
<1> QED  BY <1>2

LEMMA MinOfTwo ==
  ASSUME NEW a \in Int, NEW b \in Int
  PROVE  Min({a, b}) = IF a <= b THEN a ELSE b
<1>1. \E x \in {a, b} : \A y \in {a, b} : x <= y
  OBVIOUS
<1>2. /\ Min({a, b}) \in {a, b} /\ \A y \in {a, b} : Min({a, b}) <= y
  BY <1>1 DEF Min
<1> QED  BY <1>2

(* The values of a finite sequence, and one more, have a maximum: that of  *)
(* the first n values for every n, as there is no least n without one.     *)
LEMMA MaxSnrType ==
  ASSUME NEW history \in Seq(HistoryEntry)
  PROVE  MaxSnr(history) \in Int
<1> DEFINE First(n) == {history[i].snr : i \in 1 .. n} \cup {-1998}
           HasMax(S) == \E x \in S : \A y \in S : x >= y
           Bad == {n \in 0 .. Len(history) : ~HasMax(First(n))}
<1>1. /\ DOMAIN history = 1 .. Len(history) /\ Len(history) \in Nat
      /\ \A i \in 1 .. Len(history) : history[i].snr \in Int
  <2>1. \A i \in 1 .. Len(history) : history[i] \in HistoryEntry
    OBVIOUS
  <2>2. \A h \in HistoryEntry : h.snr \in Int
    BY DEF HistoryEntry
  <2> QED  BY <2>1, <2>2
<1>2. Bad = {}
  <2>1. SUFFICES ASSUME Bad # {} PROVE FALSE
    OBVIOUS
  <2> DEFINE m == Min(Bad)
  <2>2. m \in Bad /\ \A n \in Bad : m <= n
    <3>1. Bad \in SUBSET Nat
      BY <1>1
    <3> HIDE DEF Bad
    <3> QED  BY <2>1, <3>1, LeastElement
  <2> HIDE DEF m
  <2>3. m # 0
    <3>1. First(0) = {-1998} /\ HasMax({-1998})
      OBVIOUS
    <3> QED  BY <2>2, <3>1
  <2>4. m \in 1 .. Len(history) /\ m - 1 \in 0 .. Len(history) /\ m - 1 \notin Bad
    <3>1. m \in 0 .. Len(history)
      BY <2>2
    <3>2. m \in 1 .. Len(history) /\ m - 1 \in 0 .. Len(history) /\ ~(m <= m - 1)
      BY <1>1, <2>3, <3>1
    <3> HIDE DEF Bad
    <3> QED  BY <2>2, <3>2
  <2>5. PICK x \in First(m - 1) : \A y \in First(m - 1) : x >= y
    BY <2>4
  <2>6. First(m) = First(m - 1) \cup {history[m].snr}
    BY <1>1, <2>4
  <2>7. First(m - 1) \subseteq Int /\ history[m].snr \in Int
    BY <1>1, <2>4
  <2> HIDE DEF First
  <2>8. HasMax(First(m - 1) \cup {history[m].snr})
    <3>1. CASE x >= history[m].snr
      BY <2>5, <2>7, <3>1
    <3>2. CASE ~(x >= history[m].snr)
      BY <2>5, <2>7, <3>2
    <3> QED  BY <3>1, <3>2
  <2> QED  BY <2>2, <2>6, <2>8
<1>3. HasMax(First(Len(history)))
  <2>1. Len(history) \in 0 .. Len(history)
    BY <1>1
  <2> HIDE DEF HasMax, First
  <2> QED  BY <1>2, <2>1
<1> DEFINE V == {h.snr : h \in {history[i] : i \in DOMAIN history}}
<1>4. MaxSnr(history) = Max(V \cup {-1998})
  BY DEF MaxSnr
<1>5. \A y : y \in V \cup {-1998} <=> y \in First(Len(history))
  <2>1. ASSUME NEW y \in V PROVE y \in First(Len(history))
    <3>1. PICK h \in {history[i] : i \in DOMAIN history} : y = h.snr
      OBVIOUS
    <3>2. PICK i \in DOMAIN history : h = history[i]
      OBVIOUS
    <3> QED  BY <1>1, <3>1, <3>2
  <2>2. ASSUME NEW i \in 1 .. Len(history) PROVE history[i].snr \in V
    <3> DEFINE H == {history[k] : k \in DOMAIN history}
    <3>1. history[i] \in H
      BY <1>1
    <3> HIDE DEF H
    <3>2. history[i].snr \in {h.snr : h \in H}
      BY <3>1
    <3> QED  BY <3>2 DEF H
  <2> HIDE DEF V
  <2> QED  BY <2>1, <2>2
<1>6. First(Len(history)) \subseteq Int
  BY <1>1
<1> HIDE DEF First, V
<1>7. Max(V \cup {-1998}) \in V \cup {-1998}
  BY <1>3, <1>5 DEF Max
<1> QED  BY <1>4, <1>5, <1>6, <1>7

(* The number of transmissions stays between one and three.                *)
LEMMA NbTransType ==
  ASSUME NEW current \in 1 .. 3, NEW loss
  PROVE  NbTrans(current, loss) \in 1 .. 3
<1> DEFINE limits == {limit \in {5, 10, 30} : loss >= limit}
           row == 1 + Cardinality(limits)
           table == << <<1, 1, 2>>, <<1, 2, 3>>, <<2, 3, 3>>, <<3, 3, 3>> >>
           column == Max({1, Min({3, current})})
<1>1. IsFiniteSet({5, 10, 30}) /\ Cardinality({5, 10, 30}) <= 3
  <2>1. IsFiniteSet({5}) /\ Cardinality({5}) = 1
    BY FS_Singleton
  <2>2. IsFiniteSet({5} \cup {10}) /\ Cardinality({5} \cup {10}) <= 2
    BY <2>1, FS_AddElement
  <2>3. IsFiniteSet(({5} \cup {10}) \cup {30}) /\ Cardinality(({5} \cup {10}) \cup {30}) <= 3
    <3> DEFINE two == {5} \cup {10}
    <3>1. IsFiniteSet(two) /\ Cardinality(two) <= 2
      BY <2>2
    <3> HIDE DEF two
    <3>2. Cardinality(two) \in Nat
      BY <3>1, FS_CardinalityType
    <3>3. IsFiniteSet(two \cup {30}) /\ Cardinality(two \cup {30}) <= 3
      BY <3>1, <3>2, FS_AddElement
    <3> QED  BY <3>3 DEF two
  <2>4. {5, 10, 30} = ({5} \cup {10}) \cup {30}
    OBVIOUS
  <2> QED  BY <2>3, <2>4
<1>2. limits \in SUBSET {5, 10, 30}
  OBVIOUS
<1>3. Cardinality(limits) \in 0 .. 3
  <2> HIDE DEF limits
  <2>1. IsFiniteSet(limits) /\ Cardinality(limits) <= Cardinality({5, 10, 30})
    BY <1>1, <1>2, FS_Subset
  <2>2. Cardinality(limits) \in Nat /\ Cardinality({5, 10, 30}) \in Nat
    BY <1>1, <2>1, FS_CardinalityType
  <2> QED  BY <1>1, <2>1, <2>2
<1>4. row \in 1 .. 4
  BY <1>3
<1>5. column \in 1 .. 3
  <2>1. Min({3, current}) \in 1 .. 3
    BY MinOfTwo
  <2> QED  BY <2>1, MaxOfTwo
<1>6. NbTrans(current, loss) = table[row][column]
  BY DEF NbTrans
<1> HIDE DEF row, column
<1>7. \A r \in 1 .. 4, c \in 1 .. 3 : table[r][c] \in 1 .. 3
  OBVIOUS
<1> QED  BY <1>4, <1>5, <1>6, <1>7

LEMMA StepsType ==
  ASSUME NEW req, req.history \in Seq(HistoryEntry), req.dr \in Nat
  PROVE  Steps(req) \in Int
<1> DEFINE margin == MaxSnr(req.history) - RequiredSnr(req.dr) - InstallationMargin
<1>1. margin \in Int
  BY MaxSnrType, AdrAssumption DEF RequiredSnr
<1>2. Steps(req) = IF margin >= 0 THEN margin \div 6 ELSE -((-margin) \div 6)
  BY DEF Steps
<1> HIDE DEF margin
<1> QED  BY <1>1, <1>2

(* The algorithm does not ask for more than the larger of the power index  *)
(* in use and the largest index it may use.                                *)
LEMMA IdealBounds ==
  ASSUME NEW steps \in Int, NEW txPower \in Nat, NEW dr \in Nat,
         NEW maxTxPower \in Nat, NEW maxDr \in Nat
  PROVE  LET ideal == Ideal(steps, txPower, dr, maxTxPower, maxDr)
         IN /\ ideal.dr \in Nat /\ ideal.txPower \in Nat
            /\ ideal.txPower <= txPower \/ ideal.txPower <= maxTxPower
<1>1. CASE steps < 0
  <2>1. /\ Ideal(steps, txPower, dr, maxTxPower, maxDr).dr = dr
        /\ Ideal(steps, txPower, dr, maxTxPower, maxDr).txPower = Max({0, txPower + steps})
    BY <1>1 DEF Ideal
  <2> QED  BY <1>1, <2>1, MaxOfTwo
<1>2. CASE ~(steps < 0)
  <2> DEFINE up == Max({0, maxDr - dr})
             drSteps == Min({steps, up})
             room == Max({0, maxTxPower - txPower})
             left == Min({steps - drSteps, room})
  <2>1. /\ Ideal(steps, txPower, dr, maxTxPower, maxDr).dr = dr + drSteps
        /\ Ideal(steps, txPower, dr, maxTxPower, maxDr).txPower = txPower + left
    BY <1>2 DEF Ideal
  <2>2. up \in Nat /\ room = IF 0 >= maxTxPower - txPower THEN 0 ELSE maxTxPower - txPower
    BY MaxOfTwo
  <2> HIDE DEF up, room
  <2>3. drSteps \in Nat /\ drSteps <= steps
    BY <1>2, <2>2, MinOfTwo
  <2> HIDE DEF drSteps
  <2>4. left \in Nat /\ left <= room
    BY <1>2, <2>2, <2>3, MinOfTwo
  <2> HIDE DEF left
  <2> QED  BY <2>1, <2>2, <2>3, <2>4
<1> QED  BY <1>1, <1>2

LEMMA DefaultAdrBounds ==
  ASSUME NEW req, req.history \in Seq(HistoryEntry), req.dr \in Nat, req.txPower \in Nat,
         req.nbTrans \in 1 .. 3, req.maxTxPower \in Nat, req.maxDr \in Nat
  PROVE  LET resp == DefaultAdr(req)
         IN /\ resp.dr \in Nat /\ resp.txPower \in Nat /\ resp.nbTrans \in 1 .. 3
            /\ resp.txPower <= req.txPower \/ resp.txPower <= req.maxTxPower
            /\ ~req.adr => resp.txPower = req.txPower
<1> DEFINE dr == Min({req.dr, req.maxDr})
           steps == Steps(req)
           ideal == IF steps < 0 /\ HistoryCount(req) # HistorySize
                    THEN [txPower |-> req.txPower, dr |-> dr]
                    ELSE Ideal(steps, req.txPower, dr, req.maxTxPower, req.maxDr)
           nbTrans == NbTrans(req.nbTrans, PacketLoss(req.history))
<1>1. CASE ~req.adr
  <2>1. DefaultAdr(req) = [dr |-> req.dr, txPower |-> req.txPower, nbTrans |-> req.nbTrans]
    BY <1>1 DEF DefaultAdr
  <2> QED  BY <1>1, <2>1
<1>2. CASE req.adr
  <2>1. DefaultAdr(req) = [dr |-> ideal.dr, txPower |-> ideal.txPower, nbTrans |-> nbTrans]
    BY <1>2 DEF DefaultAdr
  <2>2. dr \in Nat /\ steps \in Int /\ nbTrans \in 1 .. 3
    BY MinOfTwo, StepsType, NbTransType
  <2> HIDE DEF dr, steps, nbTrans
  <2>3. /\ ideal.dr \in Nat /\ ideal.txPower \in Nat
        /\ ideal.txPower <= req.txPower \/ ideal.txPower <= req.maxTxPower
    <3>1. CASE steps < 0 /\ HistoryCount(req) # HistorySize
      BY <2>2, <3>1
    <3>2. CASE ~(steps < 0 /\ HistoryCount(req) # HistorySize)
      <4>1. ideal = Ideal(steps, req.txPower, dr, req.maxTxPower, req.maxDr)
        BY <3>2
      <4> HIDE DEF ideal
      <4> QED  BY <2>2, <4>1, IdealBounds
    <3> QED  BY <3>1, <3>2
  <2> HIDE DEF ideal
  <2> QED  BY <1>2, <2>1, <2>2, <2>3
<1> QED  BY <1>1, <1>2

(* What is asked for is within the bounds, and no more power index than    *)
(* the one in use or the largest that was learned.                         *)
LEMMA LinkADRReqBounds ==
  ASSUME NEW cfg, cfg.maxDr \in Nat, NEW s, Typed(s), NEW dr \in Nat,
         "LinkADR" \in DOMAIN LinkADRReq(cfg, s, dr)
  PROVE  LET req == LinkADRReq(cfg, s, dr)["LinkADR"]
         IN /\ IsLinkReq(req)
            /\ \/ req.txPower <= s.txPower
               \/ req.txPower <= IF s.maxTx # 0 THEN s.maxTx ELSE RegionMaxTx
            /\ ~s.adr => req.txPower = s.txPower
<1> DEFINE ask == AdrRequest(cfg, s, dr)
           resp == DefaultAdr(ask)
           req == LinkADRReq(cfg, s, dr)["LinkADR"]
<1>1. /\ ask.history = s.history /\ ask.dr = dr /\ ask.txPower = s.txPower /\ ask.adr = s.adr
      /\ ask.nbTrans = s.nbTrans /\ ask.maxDr = cfg.maxDr
      /\ ask.maxTxPower = IF s.maxTx # 0 THEN s.maxTx ELSE RegionMaxTx
  BY DEF AdrRequest
<1>2. /\ \/ req.dr = resp.dr /\ req.txPower = resp.txPower /\ req.nbTrans = resp.nbTrans
         \/ req.dr = s.dr /\ req.txPower = s.txPower /\ req.nbTrans = s.nbTrans
  BY DEF LinkADRReq
<1> HIDE DEF ask
<1>3. /\ ask.txPower \in Nat /\ ask.nbTrans \in 1 .. 3 /\ ask.maxTxPower \in 0 .. RegionMaxTx
      /\ ask.history \in Seq(HistoryEntry) /\ ask.dr \in Nat /\ ask.maxDr \in Nat
  BY <1>1, MacAssumption DEF Typed, IsLinkReq
<1>4. /\ resp.dr \in Nat /\ resp.txPower \in Nat /\ resp.nbTrans \in 1 .. 3
      /\ resp.txPower <= ask.txPower \/ resp.txPower <= ask.maxTxPower
      /\ ~ask.adr => resp.txPower = ask.txPower
  BY <1>3, DefaultAdrBounds
<1> HIDE DEF resp, req
<1>5. /\ s.txPower \in 0 .. RegionMaxTx /\ s.dr \in Nat /\ s.nbTrans \in 1 .. 3
  BY DEF Typed, IsLinkReq
<1>6. IsLinkReq(req)
  BY <1>1, <1>2, <1>3, <1>4, <1>5, MacAssumption DEF IsLinkReq
<1> QED  BY <1>1, <1>2, <1>4, <1>5, <1>6 DEF req

LEMMA LinkADRAckedType ==
  ASSUME NEW cfg, NEW s, IsSession(s), Typed(s), NEW req, IsLinkReq(req), NEW ans
  PROVE  Typed(LinkADRAcked(cfg, s, req, ans))
<1> DEFINE t == LinkADRAcked(cfg, s, req, ans)
<1>1. /\ t.dr \in {s.dr, req.dr} /\ t.txPower \in {s.txPower, req.txPower}
      /\ t.nbTrans \in {s.nbTrans, req.nbTrans}
      /\ t.minTx = s.minTx /\ t.maxTx = s.maxTx /\ t.extra = s.extra
      /\ t.history \in {s.history, <<>>}
      /\ t.errors = [s.errors EXCEPT !["LinkADR"] = 0]
  BY DEF LinkADRAcked, IsSession, SessionFields
<1> HIDE DEF t
<1>2. t.errors \in [Cid -> Nat]
  <2>1. s.errors \in [Cid -> Nat] /\ t.errors = [s.errors EXCEPT !["LinkADR"] = 0]
    BY <1>1 DEF Typed
  <2> QED  BY <2>1 DEF Cid
<1>3. t.history \in Seq(HistoryEntry) /\ Len(t.history) <= HistorySize
  <2>1. s.history \in Seq(HistoryEntry) /\ Len(s.history) <= HistorySize
    BY DEF Typed
  <2>2. CASE t.history = s.history
    BY <2>1, <2>2
  <2>3. CASE t.history = <<>>
    BY <2>3, AdrAssumption
  <2> QED  BY <1>1, <2>2, <2>3
<1> QED  BY <1>1, <1>2, <1>3 DEF Typed, IsLinkReq, t

LEMMA LearnPowerType ==
  ASSUME NEW s, IsSession(s), Typed(s), NEW req, IsLinkReq(req), NEW ans
  PROVE  Typed(LinkADRRefused(s, req, ans))
<1> DEFINE t == LinkADRRefused(s, req, ans)
           avoidsZero == ~ans.power /\ req.txPower = 0
           minTx == IF avoidsZero THEN 1 ELSE s.minTx
           lowersMax == ~ans.power /\ req.txPower > minTx
<1>1. /\ t.dr = s.dr /\ t.txPower \in {s.txPower, 1} /\ t.nbTrans = s.nbTrans
      /\ t.extra = s.extra /\ t.history = s.history
      /\ t.minTx \in {s.minTx, minTx}
      /\ t.maxTx = s.maxTx \/ (lowersMax /\ t.maxTx = req.txPower - 1)
      /\ t.errors \in {s.errors, [s.errors EXCEPT !["LinkADR"] = @ + 1]}
  BY DEF LinkADRRefused, LearnPower, Refusal, IsSession, SessionFields
<1> HIDE DEF t
<1>2. t.errors \in [Cid -> Nat]
  BY <1>1 DEF Typed, Cid
<1>3. t.maxTx \in 0 .. RegionMaxTx
  BY <1>1, MacAssumption DEF Typed, IsLinkReq
<1> QED  BY <1>1, <1>2, <1>3, MacAssumption DEF Typed, IsLinkReq, t

LEMMA HandleNewChannelType ==
  ASSUME NEW s, IsSession(s), Typed(s), NEW req, IsNewChannelReq(req), NEW ans
  PROVE  Typed(HandleNewChannel(s, req, ans))
<1> DEFINE acked == {c \in DOMAIN req : ans[c]}
           trailing == {c \in DOMAIN req \ acked : \A a \in acked : a < c}
           t == HandleNewChannel(s, req, ans)
<1>1. CASE DOMAIN ans # DOMAIN req
  <2>1. t = s
    BY <1>1 DEF HandleNewChannel, ChannelsAcked
  <2> QED  BY <2>1
<1>2. CASE DOMAIN ans = DOMAIN req
  <2>1. /\ t.dr = s.dr /\ t.txPower = s.txPower /\ t.nbTrans = s.nbTrans
        /\ t.minTx = s.minTx /\ t.maxTx = s.maxTx /\ t.history = s.history
        /\ DOMAIN t.extra = DOMAIN s.extra \cup acked
        /\ t.errors = [s.errors EXCEPT !["NewChannel"]
                         = Cardinality(trailing) + (IF acked = {} THEN @ ELSE 0)]
    BY <1>2 DEF HandleNewChannel, ChannelsAcked, IsSession, SessionFields
  <2>2. trailing \in SUBSET DOMAIN req /\ acked \subseteq DOMAIN req
    OBVIOUS
  <2> HIDE DEF t, trailing, acked
  <2>3. Cardinality(trailing) \in Nat
    <3>1. IsFiniteSet(trailing)
      BY <2>2, FS_Subset DEF IsNewChannelReq
    <3> QED  BY <3>1, FS_CardinalityType
  <2>4. t.errors \in [Cid -> Nat]
    BY <2>1, <2>3 DEF Typed, Cid
  <2> QED  BY <2>1, <2>2, <2>4 DEF Typed, IsLinkReq, IsNewChannelReq, t
<1> QED  BY <1>1, <1>2

LEMMA HandledType ==
  ASSUME NEW cfg, NEW s, IsSession(s), Typed(s), NEW answers,
         "LinkADR" \in DOMAIN s.pending => IsLinkReq(s.pending["LinkADR"]),
         "NewChannel" \in DOMAIN s.pending => IsNewChannelReq(s.pending["NewChannel"])
  PROVE  Typed(Handled(cfg, s, answers))
<1>1. CASE "LinkADR" \in Answered(s, answers)
  <2>1. IsLinkReq(s.pending["LinkADR"])
    BY <1>1 DEF Answered
  <2> QED  BY <1>1, <2>1, LinkADRAckedType, LearnPowerType DEF Handled, HandleLinkADR
<1>2. CASE "LinkADR" \notin Answered(s, answers) /\ "NewChannel" \in Answered(s, answers)
  <2>1. IsNewChannelReq(s.pending["NewChannel"])
    BY <1>2 DEF Answered
  <2> QED  BY <1>2, <2>1, HandleNewChannelType DEF Handled
<1>3. CASE {"LinkADR", "NewChannel"} \cap Answered(s, answers) = {}
  BY <1>3 DEF Handled
<1> QED  BY <1>1, <1>2, <1>3

(* The history keeps its bound.                                            *)
LEMMA AppendHistoryType ==
  ASSUME NEW s, IsSession(s), s.history \in Seq(HistoryEntry), s.txPower \in Nat,
         NEW snr \in Int, NEW lost \in Nat
  PROVE  /\ AppendHistory(s, snr, lost).history \in Seq(HistoryEntry)
         /\ Len(AppendHistory(s, snr, lost).history) <= HistorySize
<1> DEFINE longer == Append(s.history, [snr |-> snr, txPower |-> s.txPower, lost |-> lost])
           n == Len(longer)
           m == Max({1, n - HistorySize + 1})
<1>1. AppendHistory(s, snr, lost).history = SubSeq(longer, m, n)
  BY DEF AppendHistory, IsSession, SessionFields
<1>2. longer \in Seq(HistoryEntry) /\ n \in Nat
  BY DEF HistoryEntry
<1> HIDE DEF longer
<1>3. m \in Int /\ m >= 1 /\ m >= n - HistorySize + 1
  BY <1>2, MaxOfTwo, AdrAssumption
<1> HIDE DEF m
<1>4. \A i \in m .. n : longer[i] \in HistoryEntry
  BY <1>2, <1>3
<1>5. /\ SubSeq(longer, m, n) \in Seq(HistoryEntry)
      /\ Len(SubSeq(longer, m, n)) = IF m <= n THEN n - m + 1 ELSE 0
  BY <1>2, <1>3, <1>4, SubSeqProperties
<1> QED  BY <1>1, <1>2, <1>3, <1>5, AdrAssumption

LEMMA InitTypes == Init => TypeInv
<1> SUFFICES ASSUME Init PROVE TypeInv
  OBVIOUS
<1>1. /\ session.adr = scenario.adr /\ session.dr = 0 /\ session.txPower = 0 /\ session.nbTrans = 1
      /\ session.minTx = 0 /\ session.maxTx = 0 /\ session.history = <<>>
      /\ DOMAIN session.extra = {} /\ DOMAIN session.pending = {}
      /\ session.errors = [c \in Cid |-> 0]
      /\ device.dr = 0 /\ device.txPower = 0 /\ device.lost = 0 /\ device.ackReq = FALSE
      /\ phase = "idle" /\ must = FALSE /\ mismatch = FALSE /\ refused = {}
  BY DEF Init
<1>2. Typed(session)
  BY <1>1, MacAssumption, AdrAssumption DEF Typed, IsLinkReq
<1>3. SessionType /\ PendingType /\ DeviceType
  BY <1>1, <1>2 DEF SessionType, PendingType, DeviceType
<1> HIDE DEF Init
<1>4. phase \in {"idle", "respond", "air"} /\ refused \subseteq 0 .. RegionMaxTx
  BY <1>1
<1>5. must \in BOOLEAN /\ mismatch \in BOOLEAN /\ device.ackReq \in BOOLEAN
  BY <1>1, Zenon
<1> QED  BY <1>3, <1>4, <1>5 DEF TypeInv

LEMMA BeforeAnswersType ==
  ASSUME Matched, TypeInv
  PROVE  Typed(BeforeAnswers) /\ BeforeAnswers.adr = scenario.adr
<1> DEFINE b == BeforeAnswers
<1>1. /\ b.adr = scenario.adr /\ b.dr = device.dr /\ b.errors = session.errors
      /\ b.nbTrans = session.nbTrans /\ b.minTx = session.minTx /\ b.maxTx = session.maxTx
      /\ b.txPower \in {session.txPower, 0} /\ b.history \in {session.history, <<>>}
      /\ b.extra \in {session.extra, << >>}
  BY BeforeAnswersFields DEF Matched
<1> HIDE DEF b
<1>2. Typed(session) /\ device.dr \in Nat
  BY DEF TypeInv, SessionType, DeviceType
<1>3. b.history \in Seq(HistoryEntry) /\ Len(b.history) <= HistorySize
  <2>1. CASE b.history = session.history
    BY <1>2, <2>1 DEF Typed
  <2>2. CASE b.history = <<>>
    BY <2>2, AdrAssumption
  <2> QED  BY <1>1, <2>1, <2>2
<1>4. DOMAIN b.extra \subseteq Nat
  BY <1>1, <1>2 DEF Typed
<1>5. IsLinkReq(b)
  BY <1>1, <1>2, MacAssumption DEF Typed, IsLinkReq
<1> QED  BY <1>1, <1>2, <1>3, <1>4, <1>5 DEF Typed, b

(* The session once the answers of an uplink were taken.                   *)
LEMMA AnswersType ==
  ASSUME Matched, TypeInv
  PROVE  LET t == HandleAnswers(config, BeforeAnswers, Answers(device))
         IN IsSession(t) /\ Typed(t)
<1> DEFINE b == BeforeAnswers
           answers == Answers(device)
           h == Handled(config, b, answers)
           t == HandleAnswers(config, b, answers)
<1>1. IsSession(b) /\ b.pending = session.pending
  BY BeforeAnswersFields DEF Matched
<1>2. Typed(b)
  BY BeforeAnswersType
<1> HIDE DEF b, answers
<1>3. Typed(h)
  BY <1>1, <1>2, HandledType DEF TypeInv, PendingType
<1>4. AnswersTaken(t, b, h, answers)
  BY <1>1, HandleAnswersFields
<1> HIDE DEF h, t
<1>5. t.errors = [c \in Cid |->
                    IF c \notin Param \cap Answered(b, answers) \cap Counted THEN h.errors[c]
                    ELSE IF c \in Acked(b, answers) THEN 0 ELSE h.errors[c] + 1]
  BY <1>4 DEF AnswersTaken
<1>6. \A c \in Cid : h.errors[c] \in Nat
  BY <1>3 DEF Typed
<1>7. t.errors \in [Cid -> Nat]
  BY <1>5, <1>6
<1>8. IsSession(t) /\ Typed(t)
  BY <1>3, <1>4, <1>7 DEF AnswersTaken, Typed, IsLinkReq
<1> QED  BY <1>8 DEF t, b, answers

LEMMA UplinkTypes ==
  ASSUME Matched, TypeInv, UplinkReceived
  PROVE  TypeInv'
<1> DEFINE b == BeforeAnswers
           answers == Answers(device)
           t == HandleAnswers(config, b, answers)
<1>1. PICK budget \in scenario.link :
        session' = AppendHistory(t, budget - 4 * device.txPower, device.lost)
  BY DEF UplinkReceived, BeforeAnswers
<1>2. budget \in Int /\ device.txPower \in Nat /\ device.lost \in Nat
  BY ScenariosAssumption DEF IsScenario, Matched, TypeInv, DeviceType
<1>3. IsSession(t) /\ Typed(t)
  BY AnswersType
<1> HIDE DEF t
<1>4. /\ IsSession(session') /\ \A f \in SessionFields \ {"history"} : session'[f] = t[f]
      /\ session'.history \in Seq(HistoryEntry) /\ Len(session'.history) <= HistorySize
  <2> DEFINE snr == budget - 4 * device.txPower
  <2>1. snr \in Int
    BY <1>2
  <2>2. session' = AppendHistory(t, snr, device.lost)
    BY <1>1
  <2> HIDE DEF snr
  <2>3. t.history \in Seq(HistoryEntry) /\ t.txPower \in Nat
    BY <1>3 DEF Typed, IsLinkReq
  <2>4. /\ IsSession(AppendHistory(t, snr, device.lost))
        /\ \A f \in SessionFields \ {"history"} : AppendHistory(t, snr, device.lost)[f] = t[f]
    BY <1>3, AppendHistoryFields
  <2>5. /\ AppendHistory(t, snr, device.lost).history \in Seq(HistoryEntry)
        /\ Len(AppendHistory(t, snr, device.lost).history) <= HistorySize
    BY <1>2, <1>3, <2>1, <2>3, AppendHistoryType
  <2> QED  BY <2>2, <2>4, <2>5
<1>5. Typed(session')
  BY <1>3, <1>4 DEF Typed, IsLinkReq, SessionFields
<1>6. /\ session'.adr = scenario.adr
      /\ \A c \in DOMAIN session'.pending :
           c \in DOMAIN session.pending /\ session'.pending[c] = session.pending[c]
  BY UplinkReceivedFields DEF Matched
<1>7. PendingType'
  BY <1>6 DEF TypeInv, PendingType
<1>8. /\ device' = [device EXCEPT !.once = << >>, !.lost = 0]
      /\ scenario' = scenario /\ phase' = "respond"
      /\ must' = (device.ackReq \/ DOMAIN device.sticky # {})
      /\ mismatch' \in BOOLEAN
      /\ refused' \subseteq refused \cup {session.pending["LinkADR"].txPower}
      /\ "LinkADR" \notin DOMAIN session.pending => refused' = refused
  BY DEF UplinkReceived, TypeInv
<1>9. DeviceType' /\ device'.ackReq = device.ackReq
  BY <1>8 DEF TypeInv, DeviceType, Matched, IsDevice, DeviceFields
<1>10. refused' \subseteq 0 .. RegionMaxTx
  BY <1>8 DEF TypeInv, PendingType, IsLinkReq
<1> QED  BY <1>5, <1>6, <1>7, <1>8, <1>9, <1>10 DEF TypeInv, SessionType

LEMMA RespondTypes ==
  ASSUME Matched, TypeInv, Respond
  PROVE  TypeInv'
<1> DEFINE s == DropChannels(config, session)
<1>1. /\ device' = device /\ scenario' = scenario /\ phase' = "air" /\ must' = FALSE
      /\ mismatch' = mismatch /\ refused' = refused
  BY DEF Respond
<1>2. /\ IsSession(session') /\ DOMAIN session'.extra \subseteq DOMAIN session.extra
      /\ \A f \in SessionFields \ {"extra", "relay", "pending"} : session'[f] = session[f]
  BY RespondFields DEF Matched
<1>3. Typed(session') /\ session'.adr = session.adr
  BY <1>2 DEF TypeInv, SessionType, Typed, IsLinkReq, SessionFields
<1>4. PICK reqs : /\ session'.pending = Over(reqs, session.pending)
                  /\ DOMAIN reqs \subseteq DOMAIN Requests
                  /\ \A c \in DOMAIN reqs : reqs[c] = Requests[c]
  BY RespondFields DEF Matched
<1>5. /\ DOMAIN session'.pending = DOMAIN reqs \cup DOMAIN session.pending
      /\ \A c \in DOMAIN session'.pending :
           session'.pending[c] = IF c \in DOMAIN reqs THEN Requests[c] ELSE session.pending[c]
  BY <1>4 DEF Over
<1>6. DOMAIN reqs \subseteq Cid
  BY <1>4, RequestsFrom
<1>7. "LinkADR" \in DOMAIN reqs => IsLinkReq(Requests["LinkADR"])
  <2> HAVE "LinkADR" \in DOMAIN reqs
  <2>1. /\ "LinkADR" \in DOMAIN LinkADRReq(config, s, device.dr)
        /\ Requests["LinkADR"] = LinkADRReq(config, s, device.dr)["LinkADR"]
    BY <1>4, RequestsFrom
  <2>2. Typed(s)
    <3>1. /\ \A f \in SessionFields \ {"extra"} : s[f] = session[f]
          /\ DOMAIN s.extra \subseteq DOMAIN session.extra
      BY DropChannelsFields DEF Matched
    <3> HIDE DEF s
    <3> QED  BY <3>1 DEF TypeInv, SessionType, Typed, IsLinkReq, SessionFields
  <2>3. config.maxDr \in Nat /\ device.dr \in Nat
    BY ScenariosAssumption DEF Matched, IsScenario, IsNetwork, TypeInv, DeviceType
  <2> HIDE DEF s
  <2> QED  BY <2>1, <2>2, <2>3, LinkADRReqBounds
<1>8. "NewChannel" \in DOMAIN reqs => IsNewChannelReq(Requests["NewChannel"])
  <2> HAVE "NewChannel" \in DOMAIN reqs
  <2>1. /\ "NewChannel" \in DOMAIN NewChannelReq(config, s)
        /\ Requests["NewChannel"] = NewChannelReq(config, s)["NewChannel"]
    BY <1>4, RequestsFrom
  <2>2. DOMAIN Requests["NewChannel"] \in SUBSET config.plan.user
    BY <2>1, NewChannelReqKeys
  <2>3. config.plan.user \subseteq Nat /\ IsFiniteSet(config.plan.user)
    <3>1. config.plan.user \in SUBSET config.plan.channels /\ IsFiniteSet(config.plan.channels)
          /\ config.plan.channels \subseteq Nat
      BY MatchedPlan DEF IsPlan
    <3> QED  BY <3>1, FS_Subset
  <2> QED  BY <2>2, <2>3, FS_Subset DEF IsNewChannelReq
<1>9. PendingType'
  BY <1>5, <1>6, <1>7, <1>8 DEF TypeInv, PendingType
<1> QED  BY <1>1, <1>3, <1>9 DEF TypeInv, SessionType, DeviceType

(* What a downlink makes of the data-rate and the power.                   *)
LinkTaken(t, d, reqs) ==
  \/ t.dr = d.dr /\ t.txPower = d.txPower
  \/ /\ "LinkADR" \in DOMAIN reqs
     /\ t.dr \in {d.dr, reqs["LinkADR"].dr} /\ t.txPower \in {d.txPower, reqs["LinkADR"].txPower}

LEMMA ChannelsSetLink ==
  ASSUME NEW cfg, NEW d, IsDevice(d), DOMAIN d.once = {}, NEW reqs
  PROVE  /\ LinkTaken(ChannelsSet(d, cfg, reqs), d, reqs)
         /\ "LinkADR" \in DOMAIN reqs =>
              ChannelsSet(d, cfg, reqs).once["LinkADR"].power
                = IF scenario.adr THEN reqs["LinkADR"].txPower \in scenario.powers
                                  ELSE reqs["LinkADR"].txPower = d.txPower
<1> DEFINE h == Heard(d, reqs)
           t == ChannelsSet(d, cfg, reqs)
<1>1. IsDevice(h) /\ h.dr = d.dr /\ h.txPower = d.txPower
  <2>1. /\ IsDevice(h) /\ \A f \in DeviceFields \ {"ackReq", "relay", "once"} : h[f] = d[f]
    BY HeardFields
  <2> HIDE DEF h
  <2> QED  BY <2>1 DEF DeviceFields
<1> HIDE DEF h
<1>2. CASE "LinkADR" \in DOMAIN reqs
  <2> DEFINE req == reqs["LinkADR"]
             ans == LinkADRAnswer(h, cfg, req)
  <2>1. t = DeviceLinkADR(h, cfg, req)
    BY <1>2 DEF ChannelsSet, h
  <2>2. ans.power = IF scenario.adr THEN req.txPower \in scenario.powers ELSE req.txPower = h.txPower
    BY DEF LinkADRAnswer
  <2> HIDE DEF t, ans
  <2>3. /\ t.once = Over([LinkADR |-> ans], h.once)
        /\ t.dr \in {h.dr, req.dr} /\ t.txPower \in {h.txPower, req.txPower}
    BY <1>1, <2>1, DeviceLinkADRFields DEF ans
  <2>4. t.once["LinkADR"] = ans
    BY <2>3 DEF Over
  <2> QED  BY <1>1, <1>2, <2>2, <2>3, <2>4 DEF LinkTaken, t
<1>3. CASE "LinkADR" \notin DOMAIN reqs /\ "NewChannel" \in DOMAIN reqs
  <2>1. t = DeviceNewChannel(h, reqs["NewChannel"])
    BY <1>3 DEF ChannelsSet, h
  <2>2. /\ DeviceNewChannel(h, reqs["NewChannel"]).dr = h.dr
        /\ DeviceNewChannel(h, reqs["NewChannel"]).txPower = h.txPower
    BY <1>1, DeviceNewChannelFields
  <2> HIDE DEF t
  <2>3. LinkTaken(t, d, reqs)
    BY <1>1, <2>1, <2>2 DEF LinkTaken
  <2> QED  BY <1>3, <2>3 DEF t
<1>4. CASE {"LinkADR", "NewChannel"} \cap DOMAIN reqs = {}
  <2>1. t = h
    BY <1>4 DEF ChannelsSet, h
  <2> QED  BY <1>1, <1>4, <2>1 DEF LinkTaken
<1> QED  BY <1>2, <1>3, <1>4

LEMMA DownlinkTypes ==
  ASSUME Matched, TypeInv, DownlinkReceived
  PROVE  TypeInv'
<1> DEFINE c == ChannelsSet(device, config, air)
<1>1. /\ device' = DeviceDownlink(device, config, air)
      /\ phase = "air" /\ phase' = "idle" /\ session' = session /\ scenario' = scenario
      /\ must' = must /\ mismatch' = mismatch /\ refused' = refused
  BY DEF DownlinkReceived
<1>2. /\ DownlinkTaken(device', device, c, air) /\ LinkTaken(c, device, air)
  BY <1>1, DownlinkFields, ChannelsSetLink DEF Matched
<1> HIDE DEF c
<1>3. "LinkADR" \in DOMAIN air => IsLinkReq(air["LinkADR"])
  BY DEF Matched, TypeInv, PendingType
<1>4. /\ device'.dr = c.dr /\ device'.txPower = c.txPower /\ device'.lost = device.lost
      /\ device'.ackReq = FALSE
  BY <1>2 DEF DownlinkTaken
<1>5. c.dr \in Nat /\ c.txPower \in Nat
  BY <1>2, <1>3, MacAssumption DEF LinkTaken, IsLinkReq, TypeInv, DeviceType
<1>6. DeviceType'
  BY <1>4, <1>5 DEF TypeInv, DeviceType
<1>7. device'.ackReq \in BOOLEAN
  BY <1>4, Zenon
<1> QED  BY <1>1, <1>6, <1>7 DEF TypeInv, SessionType, PendingType

LEMMA NextTypes ==
  ASSUME Matched, TypeInv, [Next]_vars
  PROVE  TypeInv'
<1>1. CASE Reconfigure
  BY <1>1 DEF Reconfigure, TypeInv, SessionType, PendingType, DeviceType
<1>2. CASE Backoff
  <2>1. /\ UNCHANGED <<scenario, session, phase, must, refused, mismatch>>
        /\ device'.ackReq = TRUE /\ device'.lost = device.lost
        /\ device'.txPower \in {device.txPower, 0}
        /\ device'.dr = device.dr \/ (device.dr > 0 /\ device'.dr = device.dr - 1)
    BY <1>2 DEF Backoff, Matched, IsDevice, DeviceFields
  <2>2. DeviceType'
    BY <2>1 DEF TypeInv, DeviceType
  <2>3. device'.ackReq \in BOOLEAN
    BY <2>1, Zenon
  <2> QED  BY <2>1, <2>2, <2>3 DEF TypeInv, SessionType, PendingType
<1>3. CASE UplinkLost
  <2>1. /\ UNCHANGED <<scenario, session, phase, must, refused, mismatch>>
        /\ device'.ackReq = device.ackReq /\ device'.lost = Min({scenario.maxLost, device.lost + 1})
        /\ device'.txPower = device.txPower /\ device'.dr = device.dr
    BY <1>3 DEF UplinkLost, Matched, IsDevice, DeviceFields
  <2>2. scenario.maxLost \in Nat /\ device.lost \in Nat
    BY ScenariosAssumption DEF IsScenario, Matched, TypeInv, DeviceType
  <2>3. device'.lost \in Nat
    BY <2>1, <2>2, MinOfTwo
  <2> QED  BY <2>1, <2>3 DEF TypeInv, SessionType, PendingType, DeviceType
<1>4. CASE UplinkReceived
  BY <1>4, UplinkTypes
<1>5. CASE Respond
  BY <1>5, RespondTypes
<1>6. CASE NoResponse
  BY <1>6 DEF NoResponse, TypeInv, SessionType, PendingType, DeviceType
<1>7. CASE DownlinkReceived
  BY <1>7, DownlinkTypes
<1>8. CASE DownlinkLost
  BY <1>8 DEF DownlinkLost, TypeInv, SessionType, PendingType, DeviceType
<1>9. CASE UNCHANGED vars
  BY <1>9 DEF vars, TypeInv, SessionType, PendingType, DeviceType
<1> QED
  BY <1>1, <1>2, <1>3, <1>4, <1>5, <1>6, <1>7, <1>8, <1>9 DEF Next

LEMMA TypesImply == TypeInv /\ MaskInv => TypeOK
BY DEF TypeInv, SessionType, PendingType, Typed, IsLinkReq, MaskInv, KnownInv, TypeOK

(* Every variable has its type: what is learned of the power index, the     *)
(* history and the error counts keep their bounds.                         *)
THEOREM SpecTypeOK == Spec => []TypeOK
<1>1. TypeInv /\ Matched /\ [Next]_vars => TypeInv'
  BY NextTypes
<1>2. MaskInv /\ Matched /\ [Next]_vars => MaskInv'
  BY NextMasks
<1> QED  BY <1>1, <1>2, InitTypes, InitMasks, TypesImply, SpecMatched, PTL DEF Spec

(* The stronger type invariant the other proofs start from.                *)
THEOREM SpecTypes == Spec => []TypeInv
<1>1. TypeInv /\ Matched /\ [Next]_vars => TypeInv'
  BY NextTypes
<1> QED  BY <1>1, InitTypes, SpecMatched, PTL DEF Spec

LEMMA InitPower == Init => PowerInv
<1> SUFFICES ASSUME Init, ContiguousPowers PROVE PowerInv
  BY DEF PowerInv
<1>1. /\ session.txPower = 0 /\ session.minTx = 0 /\ device.txPower = 0 /\ refused = {}
      /\ DOMAIN air = {} /\ DOMAIN device.once = {}
  BY DEF Init
<1>2. 0 \in scenario.powers
  BY DEF ContiguousPowers
<1> QED  BY <1>1, <1>2 DEF PowerInv

(* With contiguous powers, a supported index is less than a refused one.    *)
LEMMA SupportedBelowRefused ==
  ASSUME Matched, TypeInv, ContiguousPowers, refused \cap scenario.powers = {},
         NEW p \in scenario.powers
  PROVE  BelowRefused(p)
<1> SUFFICES ASSUME NEW r \in refused PROVE p < r
  BY DEF BelowRefused
<1>1. p \in Nat /\ r \in Nat
  <2>1. scenario.powers \subseteq Nat
    BY ScenariosAssumption DEF Matched, IsScenario
  <2>2. r \in 0 .. RegionMaxTx
    BY DEF TypeInv
  <2> QED  BY <2>1, <2>2, MacAssumption
<1>2. 0 .. p \subseteq scenario.powers /\ r \notin scenario.powers
  BY DEF ContiguousPowers
<1> QED  BY <1>1, <1>2

(* What the server learns from an answer: the index it believes in stays a *)
(* supported one, and a refusal takes the largest index below.             *)
PowerLearned(t, s, q, power) ==
  /\ t.txPower \in {s.txPower, q} /\ t.txPower \in scenario.powers
  /\ t.minTx = 0
  /\ t.maxTx = IF power THEN s.maxTx ELSE q - 1

LEMMA LinkADRAckedPower ==
  ASSUME NEW cfg, NEW s, IsSession(s), s.txPower \in scenario.powers, s.minTx = 0,
         NEW req, NEW ans, ans.power, req.txPower \in scenario.powers
  PROVE  PowerLearned(LinkADRAcked(cfg, s, req, ans), s, req.txPower, TRUE)
BY DEF LinkADRAcked, PowerLearned, IsSession, SessionFields

LEMMA LearnPowerPower ==
  ASSUME ContiguousPowers, NEW s, IsSession(s), s.txPower \in scenario.powers, s.minTx = 0,
         NEW req, req.txPower \in Nat, NEW ans, NEW power,
         power = (req.txPower \in scenario.powers), ans.power = power
  PROVE  PowerLearned(LinkADRRefused(s, req, ans), s, req.txPower, power)
<1> DEFINE t == LinkADRRefused(s, req, ans)
<1>1. CASE power
  <2>1. t = Refusal(s, "LinkADR")
    BY <1>1 DEF LinkADRRefused, LearnPower
  <2>2. t.txPower = s.txPower /\ t.minTx = s.minTx /\ t.maxTx = s.maxTx
    BY <2>1 DEF Refusal, IsSession, SessionFields
  <2> HIDE DEF t
  <2> QED  BY <1>1, <2>2 DEF PowerLearned, t
<1>2. CASE ~power
  <2>1. req.txPower # 0 /\ ~ans.power
    BY <1>2 DEF ContiguousPowers
  <2>2. req.txPower > s.minTx
    BY <2>1
  <2>3. t.txPower = s.txPower /\ t.minTx = s.minTx /\ t.maxTx = req.txPower - 1
    BY <2>1, <2>2 DEF LinkADRRefused, LearnPower, IsSession, SessionFields
  <2> HIDE DEF t
  <2> QED  BY <1>2, <2>3 DEF PowerLearned, t
<1> QED  BY <1>1, <1>2

LEMMA HandleLinkADRPower ==
  ASSUME ContiguousPowers, NEW cfg,
         NEW s, IsSession(s), s.txPower \in scenario.powers, s.minTx = 0,
         NEW req, req.txPower \in Nat, NEW ans, NEW power,
         power = (req.txPower \in scenario.powers), ans.power = power, s.adr \/ power
  PROVE  PowerLearned(HandleLinkADR(cfg, s, req, ans), s, req.txPower, power)
<1>1. CASE ans.mask /\ (~s.adr \/ (ans.dr /\ ans.power))
  <2>1. power /\ ans.power /\ req.txPower \in scenario.powers
    BY <1>1
  <2>2. HandleLinkADR(cfg, s, req, ans) = LinkADRAcked(cfg, s, req, ans)
    BY <1>1 DEF HandleLinkADR
  <2>3. PowerLearned(LinkADRAcked(cfg, s, req, ans), s, req.txPower, TRUE)
    BY <2>1, LinkADRAckedPower
  <2> QED  BY <2>1, <2>2, <2>3 DEF PowerLearned
<1>2. CASE ~(ans.mask /\ (~s.adr \/ (ans.dr /\ ans.power)))
  <2>1. HandleLinkADR(cfg, s, req, ans) = LinkADRRefused(s, req, ans)
    BY <1>2 DEF HandleLinkADR
  <2> QED  BY <2>1, LearnPowerPower
<1> QED  BY <1>1, <1>2

LEMMA RespondPower ==
  ASSUME Matched, TypeInv, PowerInv, ContiguousPowers, Respond
  PROVE  PowerInv'
<1> DEFINE s == DropChannels(config, session)
           q == air'["LinkADR"].txPower
<1>1. /\ device' = device /\ scenario' = scenario /\ refused' = refused
      /\ DOMAIN device.once = {}
  BY DEF Respond, Matched
<1>2. /\ session'.txPower = session.txPower /\ session'.minTx = session.minTx
      /\ session'.maxTx = session.maxTx
  BY RespondFields DEF Matched, SessionFields
<1>3. "LinkADR" \in DOMAIN air' =>
        /\ q \in Nat
        /\ \/ q <= session.txPower
           \/ q <= IF session.maxTx # 0 THEN session.maxTx ELSE RegionMaxTx
        /\ ~scenario.adr => q = session.txPower
  <2> HAVE "LinkADR" \in DOMAIN air'
  <2>1. /\ "LinkADR" \in DOMAIN LinkADRReq(config, s, device.dr)
        /\ air'["LinkADR"] = LinkADRReq(config, s, device.dr)["LinkADR"]
    BY RequestsFrom, RespondFields DEF Matched
  <2>2. /\ Typed(s) /\ s.adr = scenario.adr
        /\ s.txPower = session.txPower /\ s.maxTx = session.maxTx
    <3>1. /\ \A f \in SessionFields \ {"extra"} : s[f] = session[f]
          /\ DOMAIN s.extra \subseteq DOMAIN session.extra
      BY DropChannelsFields DEF Matched
    <3> HIDE DEF s
    <3> QED  BY <3>1 DEF TypeInv, SessionType, Typed, IsLinkReq, SessionFields
  <2>3. config.maxDr \in Nat /\ device.dr \in Nat
    BY ScenariosAssumption DEF Matched, IsScenario, IsNetwork, TypeInv, DeviceType
  <2> HIDE DEF s
  <2> DEFINE req == LinkADRReq(config, s, device.dr)["LinkADR"]
  <2>4. /\ IsLinkReq(req)
        /\ \/ req.txPower <= s.txPower
           \/ req.txPower <= IF s.maxTx # 0 THEN s.maxTx ELSE RegionMaxTx
        /\ ~s.adr => req.txPower = s.txPower
    BY <2>1, <2>2, <2>3, LinkADRReqBounds
  <2>5. q = req.txPower
    BY <2>1
  <2> HIDE DEF q, req
  <2> QED  BY <2>2, <2>4, <2>5, MacAssumption DEF IsLinkReq
<1> HIDE DEF q
<1>4. BelowRefused(session.txPower)
  BY SupportedBelowRefused DEF PowerInv
<1>5. "LinkADR" \in DOMAIN air' => BelowRefused(q)
  <2> SUFFICES ASSUME "LinkADR" \in DOMAIN air', NEW r \in refused PROVE q < r
    BY DEF BelowRefused
  <2>1. session.txPower < r /\ session.maxTx # 0 /\ session.maxTx < r
    BY <1>4 DEF PowerInv, BelowRefused
  <2>2. r \in Nat /\ session.txPower \in Nat /\ session.maxTx \in Nat
    BY MacAssumption DEF TypeInv, SessionType, Typed, IsLinkReq
  <2> QED  BY <1>3, <2>1, <2>2
<1> QED  BY <1>1, <1>2, <1>3, <1>5 DEF PowerInv, BelowRefused, q

LEMMA DownlinkPower ==
  ASSUME Matched, TypeInv, PowerInv, ContiguousPowers, DownlinkReceived
  PROVE  PowerInv'
<1> DEFINE c == ChannelsSet(device, config, air)
           q == air["LinkADR"].txPower
<1>1. /\ device' = DeviceDownlink(device, config, air)
      /\ phase = "air" /\ DOMAIN air' = {} /\ session' = session /\ scenario' = scenario
      /\ refused' = refused
  BY DEF DownlinkReceived
<1>2. IsDevice(device) /\ DOMAIN device.once = {}
  BY <1>1 DEF Matched
<1>3. /\ DownlinkTaken(device', device, c, air) /\ LinkTaken(c, device, air)
      /\ ChannelsTaken(c, device, config, air)
  BY <1>1, <1>2, DownlinkFields, ChannelsSetLink, ChannelsSetMasks
<1>4. "LinkADR" \in DOMAIN air =>
        c.once["LinkADR"].power
          = IF scenario.adr THEN q \in scenario.powers ELSE q = device.txPower
  BY <1>2, ChannelsSetLink
<1> HIDE DEF c
<1>5. device'.txPower = c.txPower
  BY <1>3 DEF DownlinkTaken
<1>6. "LinkADR" \in DOMAIN device'.once =>
        "LinkADR" \in DOMAIN air /\ device'.once["LinkADR"] = c.once["LinkADR"]
  BY <1>3 DEF DownlinkTaken, ChannelsTaken, Over, Set, Param
<1>7. "LinkADR" \in DOMAIN air =>
        session.pending["LinkADR"] = air["LinkADR"] /\ BelowRefused(q)
  BY DEF Matched, PowerInv
<1>8. ~scenario.adr /\ "LinkADR" \in DOMAIN air => q = 0 /\ device.txPower = 0
  BY DEF PowerInv
<1>9. ~scenario.adr => device'.txPower = 0
  BY <1>3, <1>5, <1>8 DEF LinkTaken, PowerInv
<1>10. 0 \in scenario.powers
  BY DEF ContiguousPowers
<1>11. "LinkADR" \in DOMAIN air =>
         (IF scenario.adr THEN q \in scenario.powers ELSE q = device.txPower)
           = (q \in scenario.powers)
  BY <1>8, <1>10
<1>12. "LinkADR" \in DOMAIN device'.once =>
         /\ BelowRefused(q) /\ session'.pending["LinkADR"].txPower = q
         /\ device'.once["LinkADR"].power = (q \in scenario.powers)
  BY <1>1, <1>4, <1>6, <1>7, <1>11
<1> HIDE DEF q
<1> QED  BY <1>1, <1>6, <1>8, <1>9, <1>12 DEF PowerInv, BelowRefused

LEMMA UplinkPower ==
  ASSUME Matched, TypeInv, PowerInv, ContiguousPowers, UplinkReceived
  PROVE  PowerInv'
<1> DEFINE b == BeforeAnswers
           answers == Answers(device)
           h == Handled(config, b, answers)
           heard == "LinkADR" \in Answered(b, answers)
           q == session.pending["LinkADR"].txPower
           power == device.once["LinkADR"].power
<1>1. /\ device' = [device EXCEPT !.once = << >>, !.lost = 0]
      /\ scenario' = scenario /\ phase = "idle" /\ air' = air
      /\ refused' = IF "LinkADR" \in DOMAIN device.once \cap DOMAIN session.pending /\ ~power
                    THEN refused \cup {q} ELSE refused
  BY DEF UplinkReceived
<1>2. /\ DOMAIN device'.once = {} /\ DOMAIN air' = {} /\ device'.txPower = device.txPower
  BY <1>1 DEF Matched, IsDevice, DeviceFields
<1>3. /\ IsSession(b) /\ b.pending = session.pending /\ b.adr = scenario.adr
      /\ b.txPower \in {session.txPower, 0}
      /\ b.minTx = session.minTx /\ b.maxTx = session.maxTx
  BY BeforeAnswersFields DEF Matched
<1>4. /\ session'.txPower = h.txPower /\ session'.minTx = h.minTx /\ session'.maxTx = h.maxTx
  BY UplinkReceivedFields DEF Matched
<1>5. b.txPower \in scenario.powers /\ b.minTx = 0 /\ (~scenario.adr => b.txPower = 0)
  BY <1>3 DEF PowerInv, ContiguousPowers
<1>6. heard <=> "LinkADR" \in DOMAIN device.once \cap DOMAIN session.pending
  BY <1>3 DEF Answered, Answers, Over, Matched, Sticky
<1>7. heard => answers["LinkADR"] = device.once["LinkADR"]
  BY <1>6 DEF Answers, Over, Matched, Sticky
<1> HIDE DEF b, answers, heard
<1>8. CASE ~heard
  <2>1. h.txPower = b.txPower /\ h.minTx = b.minTx /\ h.maxTx = b.maxTx
    <3>1. h \in {b, HandleNewChannel(b, b.pending["NewChannel"], answers["NewChannel"])}
      BY <1>8 DEF Handled, heard
    <3> HIDE DEF h
    <3> QED  BY <1>3, <3>1 DEF HandleNewChannel, ChannelsAcked, IsSession, SessionFields
  <2>2. refused' = refused
    BY <1>1, <1>6, <1>8
  <2> HIDE DEF h
  <2> QED  BY <1>1, <1>2, <1>3, <1>4, <1>5, <2>1, <2>2 DEF PowerInv, BelowRefused
<1>9. CASE heard
  <2> DEFINE ok == q \in scenario.powers
  <2>1. /\ power = ok /\ BelowRefused(q) /\ (~scenario.adr => q = 0)
    BY <1>6, <1>9 DEF PowerInv
  <2>2. q \in Nat
    BY <1>6, <1>9, MacAssumption DEF TypeInv, PendingType, IsLinkReq
  <2>3. h = HandleLinkADR(config, b, session.pending["LinkADR"], device.once["LinkADR"])
    BY <1>3, <1>7, <1>9 DEF Handled, heard
  <2>4. b.adr \/ ok
    BY <1>3, <2>1 DEF ContiguousPowers
  <2>5. PowerLearned(h, b, q, ok)
    <3> DEFINE req == session.pending["LinkADR"]
               ans == device.once["LinkADR"]
    <3>1. /\ req.txPower = q /\ ans.power = ok /\ ok = (q \in scenario.powers)
          /\ h = HandleLinkADR(config, b, req, ans)
      BY <2>1, <2>3
    <3> HIDE DEF req, ans, h, q, ok
    <3>2. PowerLearned(HandleLinkADR(config, b, req, ans), b, req.txPower, ok)
      BY <1>3, <1>5, <2>2, <2>4, <3>1, HandleLinkADRPower
    <3> QED  BY <3>1, <3>2
  <2>6. refused' = IF ok THEN refused ELSE refused \cup {q}
    BY <1>1, <1>6, <1>9, <2>1
  <2> HIDE DEF h, q, power
  <2>7. /\ session'.txPower \in scenario.powers /\ session'.minTx = 0
        /\ session'.txPower \in {b.txPower, q}
        /\ session'.maxTx = IF ok THEN session.maxTx ELSE q - 1
    BY <1>3, <1>4, <2>5 DEF PowerLearned
  <2>8. CASE ok
    BY <1>1, <1>2, <1>5, <2>1, <2>6, <2>7, <2>8 DEF PowerInv, BelowRefused
  <2>9. CASE ~ok
    <3>1. q - 1 # 0 /\ q - 1 < q /\ scenario.adr
      BY <2>1, <2>2, <2>9 DEF ContiguousPowers
    <3>2. \A r \in refused' : q - 1 < r
      <4> SUFFICES ASSUME NEW r \in refused PROVE q - 1 < r
        BY <2>2, <2>6
      <4>1. q < r /\ r \in Nat
        BY <2>1, MacAssumption DEF BelowRefused, TypeInv
      <4> QED  BY <2>2, <4>1
    <3>3. refused' \cap scenario.powers = {}
      BY <2>6, <2>9 DEF PowerInv
    <3> QED  BY <1>1, <1>2, <2>7, <2>9, <3>1, <3>2, <3>3 DEF PowerInv, BelowRefused
  <2> QED  BY <2>8, <2>9
<1> QED  BY <1>8, <1>9

LEMMA NextPower ==
  ASSUME Matched, TypeInv, PowerInv, [Next]_vars
  PROVE  PowerInv'
<1>0. scenario' = scenario
  BY DEF Next, Reconfigure, Backoff, UplinkLost, UplinkReceived, Respond, NoResponse,
         DownlinkReceived, DownlinkLost, vars
<1> SUFFICES ASSUME ContiguousPowers PROVE PowerInv'
  BY <1>0 DEF PowerInv, ContiguousPowers
<1>1. CASE Reconfigure
  BY <1>1 DEF Reconfigure, PowerInv, BelowRefused, ContiguousPowers
<1>2. CASE Backoff
  <2>1. /\ UNCHANGED <<scenario, session, air, refused>>
        /\ DOMAIN device'.once = {} /\ device'.txPower \in {device.txPower, 0}
    BY <1>2 DEF Backoff, Matched, IsDevice, DeviceFields
  <2> QED  BY <2>1 DEF PowerInv, BelowRefused
<1>3. CASE UplinkLost
  <2>1. /\ UNCHANGED <<scenario, session, air, refused>>
        /\ DOMAIN device'.once = {} /\ device'.txPower = device.txPower
    BY <1>3 DEF UplinkLost, Matched, IsDevice, DeviceFields
  <2> QED  BY <2>1 DEF PowerInv, BelowRefused
<1>4. CASE UplinkReceived
  BY <1>4, UplinkPower
<1>5. CASE Respond
  BY <1>5, RespondPower
<1>6. CASE NoResponse
  BY <1>6 DEF NoResponse, PowerInv, BelowRefused
<1>7. CASE DownlinkReceived
  BY <1>7, DownlinkPower
<1>8. CASE DownlinkLost
  BY <1>8 DEF DownlinkLost, PowerInv, BelowRefused
<1>9. CASE UNCHANGED vars
  BY <1>9 DEF vars, PowerInv, BelowRefused
<1> QED
  BY <1>1, <1>2, <1>3, <1>4, <1>5, <1>6, <1>7, <1>8, <1>9 DEF Next

LEMMA PowerInvImplies == TypeInv /\ Matched /\ PowerInv => NeverAsksRefused
<1> SUFFICES ASSUME TypeInv, Matched, PowerInv, ContiguousPowers, "LinkADR" \in DOMAIN air
             PROVE  air["LinkADR"].txPower \notin refused
  BY DEF NeverAsksRefused
<1>1. BelowRefused(air["LinkADR"].txPower)
  BY DEF PowerInv
<1>2. refused \subseteq Nat
  BY MacAssumption DEF TypeInv
<1> DEFINE q == air["LinkADR"].txPower
<1> HIDE DEF q
<1>3. ASSUME q \in refused PROVE FALSE
  <2>1. q \in Nat /\ q < q
    BY <1>1, <1>2, <1>3 DEF BelowRefused, q
  <2> QED  BY <2>1
<1> QED  BY <1>3 DEF q

(* A power index the device refused is not asked for again, if it supports *)
(* the indices from 0 to some index above 0: what a refusal teaches is     *)
(* never unlearned, also by answers that get lost (link_adr::handle).      *)
THEOREM SpecNeverAsksRefused == Spec => []NeverAsksRefused
<1>1. PowerInv /\ TypeInv /\ Matched /\ [Next]_vars => PowerInv'
  BY NextPower
<1> QED  BY <1>1, InitPower, PowerInvImplies, SpecTypes, SpecMatched, PTL DEF Spec
=============================================================================
