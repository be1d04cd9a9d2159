----------------------------- MODULE ChannelMask -----------------------------
(***************************************************************************)
(* The channel-mask arithmetic of the regional channel-plans: which        *)
(* LinkADRReq payloads bring a device from the uplink channels it has      *)
(* enabled to those the network wants, and which channels are enabled      *)
(* once the device has acknowledged such payloads.                         *)
(*                                                                         *)
(* A channel-plan is a record                                              *)
(*   channels   the uplink channels the network has configured             *)
(*   user       those of them that are user-defined (NewChannelReq)        *)
(*   enabled    the channels the network wants devices to use              *)
(*   wide       the 500 kHz channels of US915 and AU915; {} elsewhere      *)
(* The payloads of one request are a function from ChMaskCntl to the       *)
(* channels its mask enables.  No block occurs twice in a request, and the *)
(* control that turns off the narrow channels comes first, so their order  *)
(* needs no more than that.                                                *)
(***************************************************************************)
EXTENDS Integers, FiniteSets

CONSTANT BlockSize   \* channels per mask; 16 in LoRaWAN

ASSUME BlockSizeAssumption == BlockSize \in Nat \ {0}

Default(plan) == plan.channels \ plan.user   \* the channels every device knows

AllOff == -1   \* ChMaskCntl 7: the narrow channels off, the mask for the wide

Block(c) == c \div BlockSize

(* What a configuration can be: the wide channels have blocks of their own *)
(* and the plans that have them do not know user-defined channels.         *)
IsPlan(plan) ==
  /\ plan.channels \subseteq Nat /\ IsFiniteSet(plan.channels)
  /\ plan.user \subseteq plan.channels
  /\ plan.enabled \subseteq plan.channels
  /\ plan.wide \subseteq plan.channels
  /\ plan.wide # {} => plan.user = {}
  /\ \A w \in plan.wide, c \in plan.channels \ plan.wide : Block(w) # Block(c)

(* The channels a mask may enable: a user-defined one only when the device *)
(* already uses it, as it may not have been told its frequency yet.        *)
Wanted(plan, device) == {c \in plan.enabled : c \notin plan.user \/ c \in device}

ToChange(plan, device) == (plan.enabled \ device) \cup (device \ plan.enabled)

ChangedBlocks(plan, device) ==
  IF \E c \in ToChange(plan, device) : c \in device \/ c \notin plan.user
  THEN {Block(c) : c \in ToChange(plan, device)}
  ELSE {}

BlockPayloads(plan, device) ==
  [b \in ChangedBlocks(plan, device) |-> {c \in Wanted(plan, device) : Block(c) = b}]

(* The other way in US915 and AU915: start from no narrow channels at all. *)
NarrowBlocks(plan) == {Block(c) : c \in plan.enabled \ plan.wide}

ResetPayloads(plan) ==
  [b \in NarrowBlocks(plan) \cup {AllOff} |->
     IF b = AllOff THEN plan.enabled \cap plan.wide
                   ELSE {c \in plan.enabled : Block(c) = b}]

ResetIsShorter(plan, device) ==
  /\ plan.wide # {}
  /\ Cardinality(NarrowBlocks(plan) \cup {AllOff}) <= Cardinality(ChangedBlocks(plan, device))

Payloads(plan, device) ==
  IF ResetIsShorter(plan, device) THEN ResetPayloads(plan) ELSE BlockPayloads(plan, device)

MaskFits(plan, payloads) == \A b \in DOMAIN payloads : payloads[b] \subseteq plan.channels

(* The channels enabled once the device acknowledged the payloads: those   *)
(* that the network (or the device) no longer has are dropped.             *)
Applied(channels, device, payloads) ==
  LET start  == IF AllOff \in DOMAIN payloads THEN payloads[AllOff]
                                              ELSE device \cap channels
      blocks == DOMAIN payloads \ {AllOff}
  IN {c \in start : Block(c) \notin blocks} \cup UNION {payloads[b] : b \in blocks}
==============================================================================
