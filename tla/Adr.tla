--------------------------------- MODULE Adr ---------------------------------
(***************************************************************************)
(* The default ADR algorithm: from the history of the device's uplinks to  *)
(* the data-rate, transmit-power index and number of transmissions to ask  *)
(* the device for.  A higher power index means less power.                 *)
(*                                                                         *)
(* SNR is counted in half dB.  A request is a record of                    *)
(*   adr                   the ADR bit of the uplink                       *)
(*   dr, txPower, nbTrans  what the device uses                            *)
(*   maxTxPower, maxDr     the largest power index and data-rate to use    *)
(*   history               its uplinks, oldest first, as records of snr,   *)
(*                         txPower and lost, the frames missing before it  *)
(***************************************************************************)
EXTENDS Integers, Sequences, FiniteSetsExt

CONSTANTS HistorySize,         \* uplinks in a full history; 20 in the code
          InstallationMargin   \* in half dB

ASSUME AdrAssumption == HistorySize \in Nat \ {0} /\ InstallationMargin \in Nat

(* SF12 (DR0) needs -20 dB, and every higher data-rate 2.5 dB more.        *)
RequiredSnr(dr) == 5 * dr - 40

MaxSnr(history) == Max({h.snr : h \in {history[i] : i \in DOMAIN history}} \cup {-1998})

(* History entries that were received at the present power index.          *)
HistoryCount(req) ==
  Cardinality({i \in DOMAIN req.history : req.history[i].txPower = req.txPower})

PacketLoss(history) ==   \* in percent; unknown until the history is full
  IF Len(history) < HistorySize THEN 0
  ELSE (100 * MapThenSumSet(LAMBDA i : history[i].lost, 2 .. Len(history))) \div Len(history)

NbTrans(current, loss) ==
  LET table == << <<1, 1, 2>>, <<1, 2, 3>>, <<2, 3, 3>>, <<3, 3, 3>> >>
      row   == 1 + Cardinality({limit \in {5, 10, 30} : loss >= limit})
  IN table[row][Max({1, Min({3, current})})]

(* Steps of 3 dB, rounded towards zero. *)
Steps(req) ==
  LET margin == MaxSnr(req.history) - RequiredSnr(req.dr) - InstallationMargin
  IN IF margin >= 0 THEN margin \div 6 ELSE -((-margin) \div 6)

(* Positive steps raise the data-rate first and then the power index;      *)
(* negative steps only lower the power index.                              *)
Ideal(steps, txPower, dr, maxTxPower, maxDr) ==
  IF steps < 0 THEN [txPower |-> Max({0, txPower + steps}), dr |-> dr]
  ELSE LET drSteps == Min({steps, Max({0, maxDr - dr})})
           left    == Min({steps - drSteps, Max({0, maxTxPower - txPower})})
       IN [txPower |-> txPower + left, dr |-> dr + drSteps]

DefaultAdr(req) ==
  LET dr    == Min({req.dr, req.maxDr})
      steps == Steps(req)
      ideal == IF steps < 0 /\ HistoryCount(req) # HistorySize
               THEN [txPower |-> req.txPower, dr |-> dr]
               ELSE Ideal(steps, req.txPower, dr, req.maxTxPower, req.maxDr)
  IN IF ~req.adr THEN [dr |-> req.dr, txPower |-> req.txPower, nbTrans |-> req.nbTrans]
     ELSE [dr      |-> ideal.dr,
           txPower |-> ideal.txPower,
           nbTrans |-> NbTrans(req.nbTrans, PacketLoss(req.history))]
==============================================================================
