------------------------------ MODULE RelayLists ------------------------------
(***************************************************************************)
(* The two lists a relay keeps of the end-devices it works for: the uplink *)
(* list (devices whose wake-on-radio frames it trusts) and the filter list *)
(* (devices whose join-requests it forwards; entry 0 stops all others).    *)
(* The server fills both, slot by slot, with MAC-commands; what it         *)
(* believes of the relay is in the relay's device-session:                 *)
(*   devices   slot -> [dev, entry, prov], Relay.devices                   *)
(*   filters   slot -> [dev, prov], Relay.filters; entry 0 has dev = 0     *)
(* prov says that the relay acknowledged the entry as it is.               *)
(*                                                                         *)
(* End-devices are numbers > 0, in the order of names; members is a        *)
(* function from the devices the API put under the relay to the entries of *)
(* the uplink list they call for: addr (DevAddr and limits, one number; 0: *)
(* not activated) and key (the root key of its wake-on-radio session).     *)
(* The JoinEUI of a device stays what it is.                               *)
(* Rows are looked at in the order of slots, not of their creation.  The   *)
(* synchronisation of the wake-on-radio frame-counter (action 0 of         *)
(* CtrlUplinkListReq), which changes no list, is left out.                 *)
(*                                                                         *)
(* The commands of a downlink are a function from their names to what they *)
(* ask for; an operator of the server returns its command, if there is     *)
(* one, and the rows it leaves in the session.                             *)
(***************************************************************************)
EXTENDS Integers, FiniteSetsExt

CONSTANT RelayMax   \* RELAY_MAX_DEVICES; 15 in the code

ASSUME RelayAssumption == RelayMax \in Nat \ {0}

UplinkSlots == 0 .. RelayMax - 1
FilterSlots == 1 .. RelayMax - 1   \* beside the catch-all entry

CatchAll == 0
NoRule == -1

NoLists == [devices |-> << >>, filters |-> << >>]

(* f, and g where f says nothing. *)
Over(f, g) == [x \in DOMAIN f \cup DOMAIN g |-> IF x \in DOMAIN f THEN f[x] ELSE g[x]]

At(i, value) == [x \in {i} |-> value]

LowestOf(S, n) == {x \in S : Cardinality({y \in S : y < x}) < n}

(* relay::list_devices(RelayMax, 0, ..).  add_device admits one more.      *)
Listed(members) == LowestOf(DOMAIN members, RelayMax)

SlotsOf(rows, d) == {i \in DOMAIN rows : rows[i].dev = d}

(* Slots of devices that are no longer under the relay.                    *)
Gone(members, rows) == {i \in DOMAIN rows : rows[i].dev \notin Listed(members)}

Without(rows, slots) == [i \in DOMAIN rows \ slots |-> rows[i]]

Acknowledged(rows, i) == IF i \in DOMAIN rows THEN [rows EXCEPT ![i].prov = TRUE] ELSE rows

-----------------------------------------------------------------------------
(* One entry is asked for at a time: a removal goes first (of several, the *)
(* answer to the first is looked at only), then the catch-all entry.       *)
UpdateFilterList(members, filters) ==
  LET gone    == Gone(members, filters) \ {0}
      free    == FilterSlots \ DOMAIN filters
      slot(d) == Min(IF SlotsOf(filters, d) # {} THEN SlotsOf(filters, d) ELSE free)
      lacking == {d \in Listed(members) :
                    IF SlotsOf(filters, d) = {} THEN free # {} ELSE ~filters[slot(d)].prov}
      ask(i, d) == [req  |-> [FilterList |-> At(i, d)],
                    rows |-> Over(At(i, [dev |-> d, prov |-> FALSE]), filters)]
  IN IF gone # {}
     THEN [req  |-> [FilterList |-> [i \in LowestOf(gone, 5) |-> NoRule]],
           rows |-> filters]
     ELSE IF 0 \notin DOMAIN filters \/ ~filters[0].prov THEN ask(0, CatchAll)
     ELSE IF lacking # {} THEN ask(slot(Min(lacking)), Min(lacking))
     ELSE [req |-> << >>, rows |-> filters]

(* The next entry that is new, changed or not acknowledged; a slot is free *)
(* once the relay acknowledged that its device was removed.  An entry of   *)
(* which nothing but the key changed is not sent again.                    *)
AskUplinkList(members, devices) ==
  LET free    == UplinkSlots \ DOMAIN devices
      slot(d) == Min(IF SlotsOf(devices, d) # {} THEN SlotsOf(devices, d) ELSE free)
      lacking == {d \in Listed(members) :
                    /\ members[d].addr # 0
                    /\ IF SlotsOf(devices, d) = {} THEN free # {}
                       ELSE ~devices[slot(d)].prov \/ devices[slot(d)].entry.addr # members[d].addr}
      d       == Min(lacking)
      row     == [dev |-> d, entry |-> members[d]]
  IN IF lacking = {} THEN [req |-> << >>, rows |-> devices]
     ELSE [req  |-> [UpdateUplinkList |-> At(slot(d), row)],
           rows |-> Over(At(slot(d), [dev |-> d, entry |-> members[d], prov |-> FALSE]), devices)]

(* A faulty form: an entry whose address changed counts as acknowledged.   *)
UpdateUplinkListKeepsProv(members, devices) ==
  LET asked == AskUplinkList(members, devices)
      known == {i \in DOMAIN devices : devices[i].prov}
  IN [asked EXCEPT !.rows = [i \in DOMAIN @ |-> [@[i] EXCEPT !.prov = @ \/ i \in known]]]

UpdateUplinkList(members, devices) == AskUplinkList(members, devices)

RequestCtrlUplinkList(members, devices) ==
  LET gone == Gone(members, devices)
  IN IF gone = {} THEN << >>
     ELSE [CtrlUplinkList |-> LowestOf(gone, 3)]

(* What the server asks for of each list, and the commands of a downlink.  *)
RelayReq(members, r) ==
  LET uplink == UpdateUplinkList(members, r.devices)
  IN [filter |-> UpdateFilterList(members, r.filters),
      uplink |-> uplink,
      ctrl   |-> RequestCtrlUplinkList(members, uplink.rows)]

NoRelayReq(r) ==
  [filter |-> [req |-> << >>, rows |-> r.filters],
   uplink |-> [req |-> << >>, rows |-> r.devices],
   ctrl   |-> << >>]

ListCommands(asked) == Over(asked.filter.req, Over(asked.uplink.req, asked.ctrl))

ListRows(asked) == [filters |-> asked.filter.rows, devices |-> asked.uplink.rows]

-----------------------------------------------------------------------------
(* What the answers change.  An answer names no slot.                      *)

FilterListAcked(filters, req) ==
  LET i == Min(DOMAIN req)
  IN IF req[i] = NoRule THEN Without(filters, {i}) ELSE Acknowledged(filters, i)

UplinkListAcked(devices, req) == Acknowledged(devices, Min(DOMAIN req))

CtrlUplinkListAcked(devices, req) == Without(devices, req)

RelayAnswered(r, pending, cids) ==
  LET updated == IF "UpdateUplinkList" \in cids
                 THEN UplinkListAcked(r.devices, pending["UpdateUplinkList"]) ELSE r.devices
  IN [filters |-> IF "FilterList" \in cids
                  THEN FilterListAcked(r.filters, pending["FilterList"]) ELSE r.filters,
      devices |-> IF "CtrlUplinkList" \in cids
                  THEN CtrlUplinkListAcked(updated, pending["CtrlUplinkList"]) ELSE updated]

-----------------------------------------------------------------------------
(* The relay does as it is told, in the order of the commands, and         *)
(* acknowledges it.                                                        *)
RelayReceives(lists, asked) ==
  LET rules   == IF "FilterList" \in DOMAIN asked
                 THEN Without(Over(asked["FilterList"], lists.filters),
                              {i \in DOMAIN asked["FilterList"] : asked["FilterList"][i] = NoRule})
                 ELSE lists.filters
      entries == IF "UpdateUplinkList" \in DOMAIN asked
                 THEN Over(asked["UpdateUplinkList"], lists.devices) ELSE lists.devices
  IN [filters |-> rules,
      devices |-> IF "CtrlUplinkList" \in DOMAIN asked
                  THEN Without(entries, asked["CtrlUplinkList"]) ELSE entries]

(* The relay holds every entry the server believes it to hold, unless the  *)
(* server told it to remove that entry.                                    *)
Holds(lists, r) ==
  /\ \A i \in DOMAIN r.devices \cap DOMAIN lists.devices :
       r.devices[i].prov => lists.devices[i] = [dev |-> r.devices[i].dev, entry |-> r.devices[i].entry]
  /\ \A i \in DOMAIN r.filters \cap DOMAIN lists.filters :
       r.filters[i].prov => lists.filters[i] = r.filters[i].dev

(* The lists are what the members call for, as far as there are slots, but *)
(* for the keys.  A device that is deactivated keeps its entry.            *)
InList(lists, members) ==
  LET rows == {lists.devices[i] : i \in DOMAIN lists.devices}
      rules == {lists.filters[i] : i \in DOMAIN lists.filters}
      active == {d \in Listed(members) : members[d].addr # 0}
  IN /\ {<<row.dev, row.entry.addr>> : row \in {r \in rows : r.dev \in active}}
          = {<<d, members[d].addr>> : d \in active}
     /\ {row.dev : row \in rows} \subseteq Listed(members)
     /\ 0 \in DOMAIN lists.filters /\ lists.filters[0] = CatchAll
     /\ rules \subseteq Listed(members) \cup {CatchAll}
     /\ Cardinality(rules) = Min({Cardinality(Listed(members)) + 1, RelayMax})

(* The entries of the uplink list have the keys of their devices.          *)
HasKeys(lists, members) ==
  \A i \in DOMAIN lists.devices :
    LET row == lists.devices[i]
    IN row.dev \in DOMAIN members /\ members[row.dev].addr # 0
         => row.entry.key = members[row.dev].key
===============================================================================
