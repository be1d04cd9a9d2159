--------------------------- MODULE MCMacCommands -----------------------------
(***************************************************************************)
(* Networks and devices to check MacCommands with.  Each scenario lets one *)
(* group of commands have work to do, so that the instance stays small.    *)
(***************************************************************************)
EXTENDS MacCommands, TLC

Dr03 == 0 .. 3
Gap  == 0 .. 5 \cup {12, 13}

(* Channels 0 and 1 every device knows, 2 and 3 are user-defined. *)
Dynamic(enabled) ==
  [channels |-> 0 .. 3, user |-> {2, 3}, enabled |-> enabled, wide |-> {}, gaps |-> TRUE]

(* Two blocks of narrow channels and one of wide ones, as US915 has more of. *)
Fixed(enabled) ==
  [channels |-> 0 .. 9, user |-> {}, enabled |-> enabled, wide |-> {8, 9}, gaps |-> FALSE]

NoParams == [p \in Param |-> 0]

Network(plan) ==
  [plan |-> plan, user |-> [c \in plan.user |-> [freq |-> c, drs |-> Gap]],
   supported |-> Gap, param |-> NoParams, adr |-> FALSE, maxDr |-> 1,
   isRelay |-> FALSE, members |-> << >>, later |-> {}]

Steady ==
  [first |-> Network(Dynamic(0 .. 3)), boot |-> NoParams, adr |-> TRUE,
   powers |-> 0 .. RegionMaxTx, freqs |-> 2 .. 4, refuses |-> {}, link |-> {0}, moves |-> 0, maxLost |-> 0,
   steady |-> TRUE]

(* The network wants other channels and other data-rates of a channel. *)
Channels ==
  [Steady EXCEPT !.first.later =
     {Network(Dynamic({0, 1, 3})),
      [Network(Dynamic(0 .. 3)) EXCEPT !.supported = Dr03, !.user[2].freq = 4]}]

RefusedChannel == [Steady EXCEPT !.freqs = {3}, !.first.later = {Network(Dynamic({0, 2, 3}))}]

ForgottenChannels == [Channels EXCEPT !.moves = 2, !.steady = FALSE, !.adr = FALSE]

Masks(enabled) == [Steady EXCEPT !.first = Network(Fixed(enabled))]

(* Not steady: a change of the plan while the answer to the last request is *)
(* lost makes the server ask for the difference to what the device had.    *)
MasksChange == [Masks(4 .. 7 \cup {9}) EXCEPT
                  !.first.later = {Network(Fixed(0 .. 8)), Network(Fixed({0, 4, 8}))}, !.steady = FALSE]

NoUser(adr) == [Network(Dynamic({0, 1})) EXCEPT !.adr = adr, !.supported = {}]

AdrSteady(powers, budget) ==
  [Steady EXCEPT !.first = NoUser(TRUE), !.powers = powers, !.link = {budget}]

AdrFading(powers) ==
  [AdrSteady(powers, 0) EXCEPT !.link = {-25, 2}, !.moves = 1, !.maxLost = 1, !.steady = FALSE]

Params(p, refuses) ==
  [Steady EXCEPT !.first = [NoUser(FALSE) EXCEPT
                              !.param[p] = 1,
                              !.later = {[NoUser(FALSE) EXCEPT !.param[p] = 2]}],
                 !.refuses = refuses]

AllParams(set, refuses) ==
  [Steady EXCEPT !.first = [NoUser(FALSE) EXCEPT !.param = [p \in Param |-> IF p \in set THEN 1 ELSE 0]],
                 !.refuses = refuses]

RelayParam == {"RelayConf", "FwdLimit", "EndDeviceConf"}

Under(members, later) ==
  [NoUser(FALSE) EXCEPT !.isRelay = TRUE, !.members = members,
                        !.later = {[NoUser(FALSE) EXCEPT !.isRelay = TRUE, !.members = m] : m \in later}]

(* The a-th activation of a device: another address and another key.       *)
Act(a) == [addr |-> a, key |-> a]

(* Two devices, of which one is activated again, or is replaced; or there  *)
(* are none, or more than there are slots, one of them deactivated.        *)
Members ==
  [Steady EXCEPT !.first = Under((1 :> Act(1)) @@ (2 :> Act(1)),
     {(1 :> Act(2)) @@ (2 :> Act(1)), (2 :> Act(1)) @@ (3 :> Act(1)), << >>,
      (1 :> Act(0)) @@ (3 :> Act(1)) @@ (4 :> Act(1))})]

(* A device is activated again with the address it has; KeysSettle fails.  *)
Rekeyed ==
  [Steady EXCEPT !.first = Under(1 :> Act(1), {1 :> [addr |-> 1, key |-> 2]})]

(* Not steady: a device that comes back before the answer to its removal   *)
(* is taken for one the relay knows.                                       *)
MemberReturns ==
  [Steady EXCEPT !.first = [Under((1 :> Act(1)) @@ (2 :> Act(1)), {}) EXCEPT
                              !.later = {Under(2 :> Act(1), {(1 :> Act(1)) @@ (2 :> Act(1))})}],
                 !.steady = FALSE]

(* Not steady: a device that does not support index 0, or no other, is     *)
(* asked again for what it refuses.                                        *)
OddPowers(powers) == [AdrSteady(powers, 8) EXCEPT !.steady = FALSE]

(* Not steady: plans without wide channels, of which the second takes away *)
(* all that is left to a device whose answer to the first was lost.        *)
Narrow(enabled) ==
  Network([channels |-> 0 .. 7, user |-> {}, enabled |-> enabled, wide |-> {}, gaps |-> FALSE])

NarrowChange ==
  [Steady EXCEPT !.first = [Narrow(4 .. 7) EXCEPT !.later = {Narrow(0 .. 3)}], !.steady = FALSE]

(* A network, what it may become, and what that may become: none has more. *)
Reachable(first) == {first} \cup first.later \cup UNION {n.later : n \in first.later}

Complete(scenarios) == {[networks |-> Reachable(sc.first)] @@ sc : sc \in scenarios}

MCScenarios ==
  Complete(
    {Channels, RefusedChannel, ForgottenChannels,
     Masks(4 .. 7 \cup {9}), Masks({0, 4, 8}), MasksChange, NarrowChange,
     AdrSteady(0 .. 2, -4), AdrSteady(0 .. 1, 8), AdrSteady(0 .. 2, -60), AdrFading(0 .. 2),
     OddPowers({1, 2}), OddPowers({0}),
     Params("RxTiming", {}), Params("RxParam", {}), Params("RxParam", {"RxParam"}),
     AllParams(Param \ RelayParam, {}), AllParams(RelayParam, {}),
     Params("RelayConf", {"RelayConf"}), Members, MemberReturns, Rekeyed})
==============================================================================
