# A TLA+ model of the ChirpStack network server

ChirpStack is a LoRaWAN network server: gateways receive radio frames of
end-devices and forward them over MQTT, the server de-duplicates and validates
them, tells applications about them, keeps a downlink queue per device, and
answers. Its state is in a SQL database (PostgreSQL or SQLite) and in Redis;
its code is asynchronous Rust, every frame, tx acknowledgement, API call and
scheduler round is a task of its own, and several servers may share the
database. Nothing holds a lock across two statements: a handler loads a row,
works on the copy, and writes it back many `await`s later. Most of what can go
wrong, and most of what is modelled here, is about these copies, about messages
that get lost, and about two parties that believe different things.

Contents: [components](#components-of-the-system), [modules](#modules),
[checks](#model-checking), [proofs](#proofs),
[disagreements with the documentation](#disagreements-with-comments-and-documentation),
[observations](#other-observations),
[what is not modelled](#what-is-not-modelled), [plan](#plan).
Paths are relative to `src/chirpstack/src/` unless they start with `src/`.

## Components of the system

For each component: its state (S), its operations (O), what it interacts with
(I), what is hard about it (H), and what makes it correct (C).

**Uplink de-duplication** (`uplink/mod.rs`). S: per uplink and region
configuration a Redis set of copies and a Redis lock, both with an expiry.
O: put a copy and try the lock (one transaction), sleep, collect. I: the gateway
backend calls it for every copy; it hands frame-sets to the uplink or join
handlers. H: two expiries of which only one is renewed, late wake-ups, crashes
of the task that holds the lock. C: copies that arrive together are handed on
together and once.

**Uplink frame-counter validation** (`storage/device.rs`, `uplink/data.rs`).
S: `device.f_cnt_up`, the session. O: derive the 32-bit counter from 16 bits,
check the MIC, claim the counter with a conditional `UPDATE`, filter the
gateways by tenant, send the uplink event, write the row back. I: starts the
downlink response flow. H: copies of a frame that were not de-duplicated and
frames in a row are handled at the same time; unconditional writes of the
counter. C: no frame is reported twice, frames are reported in order, new frames
are reported.

**Downlink queue of a device** (`storage/device_queue.rs`, `downlink/data.rs`,
`downlink/tx_ack.rs`, `storage/downlink_frame.rs`, `uplink/data.rs`). S: queue
items (counter, `is_pending`, `timeout_after`), the session with its downlink
counters and `conf_f_cnt`, saved frames in Redis. O: enqueue, flush,
response to an uplink (Class-A), scheduled flows (Class-B and C), tx
acknowledgement, device acknowledgement, timeouts. I: three kinds of tasks on
one row and one queue, gateways, devices, the visited network of a roaming
device. H: lost and late acknowledgements, flows that overlap, stale copies of
item and session. C: FIFO, each item ends once, only transmitted items become
pending, a counter is used for one downlink, acknowledgements are credited to the
right item.

**Scheduler locks** (`scheduler_run_after`; `downlink/scheduler.rs`,
`downlink/data.rs`, `storage/device.rs`). S: a time per device. O: set by
uplinks (receive-windows), by the selection, by Class-C downlinks, and to the
next ping-slot in Class-B. I: serialises the flows of the component above.
H: an uplink compares its time with a copy of the row, a flow may outlive its
lock. C: one scheduler task per device, one frame per ping-slot, distance
between Class-C frames, nothing sent into the receive-windows.

**Join and device-keys** (`uplink/join.rs`, `storage/device_keys.rs`,
`downlink/join.rs`, device-keys calls of `api/device.rs`). S: device-keys
(dev-nonces, join-nonce), device row (DevAddr, session). O: join-request, API
edits of keys. I: gateways, device, uplink handlers of the previous session.
H: overlapping handlers, read-modify-write of the keys by the API, failures
between nonce and session. C: a dev-nonce opens one session, no two sessions have
the same keys, device and server agree on the session.

**Inactivity alerts** (`alert/`, `storage/alert_event.rs`). S: `alert_enabled`
and `alert_state` of gateways and devices, the events. O: a loop in every server
scans, sends e-mails, stores events and states. I: users toggle alerts, uplinks
and gateway statistics set `last_seen_at`. H: minutes between the query and the
writes, calls that fail between e-mail, event and state, several servers. C: each
change is reported once, from the last reported state; the state settles.

**MAC-commands and ADR** (`maccommand/`, `adr/`, `downlink/data.rs`,
`src/lrwn/src/region/`). S: in the device-session what the device is believed to
use (channels, data-rate, power, parameters), the pending requests, error
counters, the uplink history. O: compute the requests of a downlink, remember
them, handle the answers, reset on activation and ADR back-off. I: uplinks and
downlinks carry them, the channel-plan of the region and the profiles say what is
wanted, the ADR algorithm chooses data-rate and power. H: an answer names no
request; either direction may be lost after the other side acted; two answers
are repeated until a downlink arrives; what is refused must not be asked for
ever. C: no request asks for something the device cannot know, server and device
end with what the network wants.

**Relay** (`storage/relay.rs`, `downlink/data.rs`, `maccommand/`, relayed
branches of the flows). S: devices under a relay (SQL), and in the relay's
session its uplink list and filter list. O: one list entry is requested at a
time, removals before additions. I: the API adds and removes devices, the
devices activate. H: slots are reused, answers name no slot. C: the lists of
the relay become those of the database, an entry taken for acknowledged is there.

**Multicast** (`storage/multicast.rs`, `downlink/multicast.rs`,
`downlink/scheduler.rs`). S: groups, queue items per gateway with the time to
schedule and the time of emission, counter. O: enqueue, select, send,
acknowledge, expire, flush. I: the API and FUOTA enqueue, gateways send. H: times
derived from items still in the queue, loops that wait for a batch and then sleep an
interval, offline gateways. C: one frame per ping-slot, each handed over before its emission time,
expired items leave.

**FUOTA and application-layer packages** (`applayer/`, `storage/fuota.rs`,
`api/fuota.rs`). S: deployments, their jobs, the state per device. O: a chain of
ten jobs with retries, and the answers of devices. I: creates a multicast-group
and fills its queue, puts requests into device queues, handles uplinks on its
ports. H: a job that fails half-way is run again; its successor is created in
another call than its attempt count; answers race timeouts. C: one open job, the
chain ends, no fragment is sent twice, the result of a device is true.

**Class-B ping-slots** (`downlink/classb.rs`): pure functions of time and address.

**Roaming** (`storage/passive_roaming.rs`, `uplink/*_fns.rs`, `uplink/*_sns.rs`,
`downlink/roaming.rs`, `backend/roaming.rs`, `api/backend/mod.rs`). S: in the
visited network passive-roaming sessions in Redis, with a lifetime. O: start
(by an uplink or a join), forward, save, stop; downlinks through the visited
network. I: HTTP between the servers of two networks. H: handlers that save what
they loaded, a counter of 16 bits that finds the session, expiry. C: one session
per device, a stopped session is gone, uplinks reach home.

**Metrics** (`storage/metrics.rs`): counters in time buckets in Redis.

Others, which are I/O, conversions or tables: MQTT backend, integrations, event
streams, monitoring, gRPC API with authentication, payload codecs, LoRaWAN
library (`src/lrwn`), DevAddr and JoinEUI filters (`src/lrwn-filters`),
join-server client, web interface.

`PROJECT.json` has the same list with its status, and the hazards of the code,
each at its line with the properties that guard it.

## Modules

| Module | Content |
|---|---|
| `UplinkFCnt` | handlers of uplink frames and `f_cnt_up` |
| `InOrderUplink` | abstract: uplink events have increasing counters |
| `UplinkFCnt_proofs` | theorems about `UplinkFCnt` |
| `DeviceDownlink` | queue, session and downlinks of one device |
| `DownlinkQueue` | abstract: the FIFO queue a user sees |
| `DeviceDownlink_proofs` | theorems about `DeviceDownlink` and its refinement of `DownlinkQueue` |
| `DeviceLock` | the scheduler lock of one device, in seconds |
| `Multicast` | the queue of one multicast-group, in seconds |
| `Schedulers` | the loops of a server: `DeviceLock`, `Multicast` and `Alerts` together |
| `Schedulers_proofs` | theorems about the three loops |
| `Join` | activations and device-keys of one device |
| `Join_proofs` | theorems about `Join` |
| `Dedup` | collect set and lock of one uplink, with time |
| `Dedup_proofs` | theorems about `Dedup` |
| `Alerts` | alert loops and the alert state of one entity |
| `ChannelMask` | operators: channels to masks and back |
| `Adr` | operators: the default ADR algorithm |
| `RelayLists` | operators: uplink and filter list of a relay |
| `MacCommands` | the exchange of MAC-commands with one device |
| `MacCommands_proofs` | theorems about `ChannelMask` and `MacCommands` |
| `Fuota` | one FUOTA deployment: jobs, flows, devices |
| `Fuota_proofs` | theorems about `Fuota` |
| `Roaming` | passive-roaming sessions of one device |
| `Roaming_proofs` | theorems about `Roaming` |
| `MC*` | instances for TLC: profiles, scenarios and symmetry sets |

`MacCommands` extends the three operator modules, `Schedulers` is made of
instances of `DeviceLock`, `Multicast` and `Alerts`; `UplinkFCnt` and `DeviceDownlink`
instantiate their abstract specifications. Every module is about one device,
uplink, group, deployment or entity: these do not interact
otherwise. A statement, a transaction, a Redis pipeline or a request to another
server is one action; a
handler is a sequence of actions with a program counter `pc`, and its local data
(above all its copies of rows) are in `task` (`scan` in `Alerts`, `flow` and
`answer` in `Fuota`). Between two
actions of a handler any other may run. `Abort`, `Stop`, `Fail` and `Crash` end a
handler between two steps: a call returned an error, or the process stopped. The
transaction or row written before stays. `PROJECT.json`, "map", names the lines
of each definition. "Faulty variants" are definitions that change an action the
way a bug would; they are part of no specification and show which property
notices. Several modules have a record (`profile`, `config`, `scenario`) that the
initial state chooses and no action changes, so that one run covers several
configurations.

### UplinkFCnt

`fCntUp` is `device.f_cnt_up`. `Receive` is a frame-set handed to a handler by
the de-duplication: late, reordered, repeated or never. `GetDevice` and
`IncrFCntUp` are `get_for_phypayload_and_incr_f_cnt_up` before and at its
conditional `UPDATE`; they are separate because another handler may update the
row in between. `FilterFails` and `FilterPasses` are `filter_rx_info_by_tenant`
and `handle_retransmission_reset`, `SendUplinkEvent` and `UpdateDevice` the end
of `_handle`. A frame is its full counter; the MIC is valid for that counter
only, so that a MIC check is the question whether the derived counter is the
right one (`MicOk`). `FullFCntUp` keeps the widths: the transmitted counter is
modulo `FCntModulus`, the result modulo `U32`.
`Pipelined` says whether frames with different counters are handled at the same
time, which happens with traffic faster than a handler.

### DeviceDownlink

The state is the queue (`queue`), the session's counters (`session`), the lock
(`locked`), the frames on their way to a gateway (`frame`) and the device's
knowledge (`device`). Tasks are uplinks (`Uplink` to `DeleteAcked`, then the
response flow), scheduled flows (`SelectDevice`, `LoadDevice`) that share `GetNext`
to `SendFrame` with the responses, and tx acknowledgements (`TxAck` to
`AckSaveSession`). `profile` is the device (class, Class-B without Class-A
downlinks, LoRaWAN 1.1 with two downlink counters, heard by a visited network),
what is enqueued for it (how many items, confirmed, encrypted by the
application, droppable), and what may happen: `serial` states that flows of the
device do not overlap, `events` names the troubles. A gateway accepts, rejects or never
sees a frame, its tx acknowledgement may be lost (`MessageLost`) or come after
the saved frame expired (`FrameExpires`). A frame for a roaming device goes to the
visited network in a request whose answer counts as the tx acknowledgement
(`XmitDataAns`). Time is reduced to "the timeout of the item is over"
and "the lock is over"; `TimelyTasks` states that a lock is not over while the
flow that took it runs, which `DeviceLock` looks at in seconds.

### DeviceLock, Multicast, Schedulers

Times are whole seconds relative to now: `Tick` decrements them, and no flow
takes longer than `MaxDelay`. In `DeviceLock`, `lock` is `scheduler_run_after`.
`Uplink` and `LockForWindows` are the reading and the writing statement of an
uplink handler, which writes the later of its own time and the time it read;
`Select` is the one statement in which a server selects devices and locks them;
`LockClassC`, `LockClassB` and `Send` are the flow of a task. The next ping-slot is
a choice within `Period`, but the same slot for the same question. The queue is a
number: what happens to items is in `DeviceDownlink`.

In `Multicast` an item is a frame for one gateway; `queue` holds its
`scheduler_run_after`, `emit` the emission time of its frame, `expires` its expiry.
`Enqueue` is the transaction that gives a frame its times (`Schedules`) for
the three kinds of groups: Class-B by ping-slot, Class-C with a delay between
gateways, Class-C timed by GPS. `Turn` is one query of a server's loop, for at most
`BatchSize` items; the server then waits for the tasks of this batch (`Discard`, `Send`,
`Fail`) until `EndBatch`, and sleeps an interval before its next turn: `working` and `elapsed` are
these two phases of each server, which a batch leaves within `MaxDelay` and a sleep within
`Interval`. Older items of other groups may take room in a batch, which counts as a
fault. `TxAck` is the answer of a gateway, which may be offline. `early` is a history
variable: the Class-B frames that left the queue before a frame of an earlier slot.

`Schedulers` composes both with the alert scans: the loops share settings
and no row, so the initial state chooses which of them has work, and a
behaviour of the composition is one of each module (`LoopsAreIndependent`).

### Join

`keys` is the device-keys row, `row` the device row with DevAddr and session,
`device` the device itself, `air` the accepts in its receive-windows. A session is
the pair of dev-nonce and join-nonce, from which the keys are derived. The row counts
join-nonces without a limit; the accept and the key derivation take three bytes of them
(`Wire`, modulo `JoinNonceModulus`), and the check for the last value stops one join
only. `rolled` (history) are the sessions from before the bytes started over.
`ValidateDevNonce` is one action because it is a database transaction with a row
lock; before and after it everything interleaves. The model is of one JoinEUI: the code
keeps dev-nonces per JoinEUI, and so does the device. `UpdateKeysGet` and
`UpdateKeysPut` are the two statements of the API's `update_keys`. `serial` is
chosen in the initial state: only copies of one frame are handled at a time.
`secondary_dev_addr` and the pending rejoin session are never set by the code and
are left out.

### Dedup

`DeduplicatePut` is the Redis transaction,
`DeduplicateCollect` the end of the sleep, at most `Slack` late. `Tick`, of an
absolute clock, does
not pass a task that must wake up. `Ttl` is twice the delay, at least `MinTtl`.

### Alerts

`Scan` is the query and `evaluate` of one entity; the steps behind it follow
with any delay, which stands for the entities before it in the list and their
e-mails. `SetAlertState` writes whatever the row holds now. `running` is the set of
servers, chosen in the initial state. Gateways and devices have the same code on two tables.

### ChannelMask, Adr, RelayLists, MacCommands

`ChannelMask` has the two directions of the channel-mask arithmetic of the
regions: `Payloads`, the masks of the LinkADRReq that leads from the enabled to the
wanted channels (block by block, or in US915 and AU915 from no narrow channel at
all, whichever is shorter), and `Applied`, what acknowledged masks leave enabled; the
masks of one request are a function from blocks to channels.
`Adr` is the default algorithm with SNR in half dB: RequiredSnr, margin, steps of
3 dB, the table of transmissions. `RelayLists` has, for each of the two lists,
what the next downlink asks for and what an answer changes. An entry of the uplink list has an
address (DevAddr and limits, which are compared) and a key (which is sent, and not compared).

`MacCommands` is the exchange. `session` is the part of the device-session that MAC-commands are
about, `device` what the device really uses, `config` what the network wants now. `UplinkReceived`
is the uplink handler: data-rate, reset of channels, answers (`HandleAnswers`, one handler per
command), history. `Respond` is the downlink flow: `SetMacCommands` computes all requests from
session and configuration, as a function from commands to what they ask for, since each command
occurs once; those that fit, in the order of `CidOrder`, become pending, the session is saved and
the frame sent. `k` and `j` are how many requests fit the larger of the receive-windows, which
decides what is pending, and the one used; a window may have room for none. `Reconfigure` changes
the configuration. `UplinkLost`, `DownlinkLost` and `NoResponse` (also: the flow failed) are the
link. The device (`DeviceLinkADR`, `DeviceNewChannel`, `DeviceParams`, `RelayReceives`, `Backoff`)
is the LoRaWAN specification's: it applies a LinkADRReq as a whole or not at all, answers once,
repeats RXParamSetupAns and RXTimingSetupAns until it hears a downlink, and falls back when it hears
none. Parameters of one request and one value (`Param`) differ in whether refusals are possible and
counted.

### Fuota

`jobs` are the rows of `fuota_deployment_job`, of which the name is the key; `flow` are the tasks
that run one. A flow selects a due job and locks it (`Select`), does the work of the job
(`SetupGroup`, `Unicast` with `AskDevice` per device, `Enqueue` with `EnqueueFragment` (the API
accepts an empty payload, which has no fragments: the job then ends at once), `DeleteMcGroup`,
`Complete` for the devices and `CompleteDeployment` for the deployment), then stores its copy of the
row (`UpdateJob`) and creates the next one (`CreateJob`), in two calls. `FailBody` and `Stop` are an
error and a stop of the server. An answer of a device is two steps: `Answer` loads the row of the
device, `StoreAnswer` writes all its columns. `Broadcast` sends a fragment to the devices that hear
it. `config.trouble` names what may go wrong, once.

### Roaming

`sess` are the Redis keys of the visited network, `left` their lifetimes,
`byEui` the index by DevEUI that only sessions of a join have. A handler
(`Receive`, `GetSessions`, `StartSession`, `Forward`, `Save`) loads the sessions that
match the frame, starts one if there is none, forwards the uplink and saves the
sessions as it loaded them. What the home server does within a request is one
step: `PRStop` deletes the sessions of a device, of which any may fail to be deleted,
`HomeFinds` and `HomeHandles` use `homeFCnt`, `device.f_cnt_up` of the home
network, which the home's own gateways move as well (`HomeHears`). `profile` is
the agreement: MIC validated or not, lifetime (0: stateless), LoRaWAN version,
joined through the visited network or not, serial or not, reliable or not.

## Model checking

`tlc -config <cfg> <module>`; all runs check for deadlock except those whose
bounds let the system stop: `dedup_copies` (all copies handled, time over),
`fuota_deployment` (the deployment ended), `scheduler_loops` and `multicast_gps`
(the frames are used up, nothing is queued, and time has stopped telling
anything apart).

| Run | Instance | States | Shows |
|---|---|---|---|
| `fcnt_pipelined` | 3 handlers, counters 0..2, copies and different frames at once, filters, failures | 3.1 M | `RedeliveryNeedsReopen` |
| `fcnt_sequential` | 3 handlers, counters 0..4, transmitted modulo 4, one frame at a time | 129 k | `WindowRecovered`, `RefinesInOrderUplink`, `FreshUplinkDelivered` |
| `downlink_queues` | 2 tasks; overlapping flows with 2 confirmed items in Class-B and C; flows one by one with 3 items (confirmed, droppable, encrypted) in all classes, 1.1 and roaming; losses, flushes, failures | 2.0 M | `PendingWasAccepted`, `PendingIsOldest`, `SettledOnce`, `NoCounterReuse`, `AckEventTruthful`, `RefinesDownlinkQueue` |
| `downlink_live` | 1 task, 2 confirmed items, Class-C | 31 k | `ItemsLeaveQueue` |
| `scheduler_loops` | device: Class-B and C, 2 tasks, 2 items, 2 uplinks, the default locks (5 s, 5 s, 2 s) and advance (5 s); group: Class-B and Class-C with delay, 1 server with batches of 1 item and up to 1 s, interval 2 s, 1 gateway, 3 frames, 1 fault; alerts: 2 servers, failures | 377 k | `OneTask`, `OneFramePerSlot`, `ClassCSpaced`, `WindowsKept`, `SlotsDistinct`, `SlotInTime`, `EventsChain`, `ExpiredLeave` |
| `multicast_gps` | GPS-timed group, 2 gateways, 2 frames | | counterexample to `HandedOverInTime` |
| `join_activations` | 2 handlers, 2 dev-nonces, join-nonces modulo 2, 2 API edits, failures | 1.73 M | `NonceAcceptedOnce`, `KeysUsedOnce`, `SessionAgreed` |
| `dedup_copies` | 3 copies over 11 time units, delay 2, TTL 4, late wake-ups, crashes | 61 k | `OneSetPerTtl`, `SetIsComplete`, `SetIsRecent`, `CopyAccountedFor` |
| `alerts_scans` | 1 or 2 servers, failures | 6 k | `StateSettles` |
| `mac_exchange` | 22 networks and devices: dynamic and fixed channel-plans, channels and data-rates that change, refusals, ADR up, down and with fading, power indices with gaps, parameters, relay lists | 71 k | `MasksAreKnown`, `NeverAsksRefused`, `ReceiveParamsAgree`, `RelayKnows`, `Settles` |
| `fuota_deployment` | 2 flows, 2 fragments; 2 devices without trouble, 1 device with a retry, a fault, a slow flow or a stale answer | 1.08 M | `OneOpenJob`, `FragmentsOnce`, `CompletedHasImage`, `EveryDeviceAccounted`, `Ends` |
| `roaming_sessions` | 7 agreements, 2 handlers, counters 0..5 transmitted modulo 4, 3 sessions, lifetimes 0..2 | 319 k | `OneSession`, `StoppedForGood`, `UplinkArrives` |

What the properties say, and how strong they are:

- **`RedeliveryNeedsReopen`.** A frame is *not* always reported once: a handler
  writes `f_cnt_up` of its own frame at its end, unconditionally, and a copy of a
  later frame gets in again when that moves the counter back. The property says
  that this is the only way; the conditional `UPDATE` keeps copies of one frame
  apart, whatever they do.
- **`RefinesInOrderUplink`.** When frames are handled one after the other (a
  normal device sends less often than a handler takes), events are strictly in
  order, including over the rollover of the transmitted counter: five counters
  with modulus 4.
- **`FreshUplinkDelivered`.** A new frame leads to its event although copies
  compete for the counter. A copy that only gateways of other tenants received
  can win the counter and is then dropped; this is the exception the property
  names.
- **`SettledOnce`, `PendingIsOldest`, `PendingWasAccepted`** hold for overlapping
  flows: each deletion is of one row, and its event comes after it. All three are
  proved. For a roaming
  device "accepted" only means that the visited network took the request.
- **`NoCounterReuse`, `RefinesDownlinkQueue`** need flows
  that do not overlap (`serial`). With overlapping flows a tx acknowledgement and
  an uplink handler overwrite each other's session. The counter is used again
  only if the tx acknowledgement of the earlier downlink never reached the
  session. Profiles whose flows overlap are mapped to a queue that never gets an
  item: nothing is claimed of them.
- **`AckEventTruthful`.** The server credits an acknowledgement to the item that
  is pending when it handles it. That is the right one, if flows do not overlap,
  in Class-A and in LoRaWAN
  1.1, where the MIC covers the acknowledged counter, provided that every tx
  acknowledgement was counted. In Class-C with 1.0 it may be another. With overlapping
  flows it may be another in Class-A as well.
- **`ItemsLeaveQueue`** ends at the bound on frames; within it, timeouts free the
  queue of a Class-C device without its help.
- **`OneTask`, `OneFramePerSlot`** are what the lock of the selection is for. Tasks
  shorter than it are not enough: a task replaces the lock by its own, and an uplink
  between selection and end of the task by one computed from the row as it
  was before. The condition is `LocksOutlastFlows`: each of these locks lasts as long as
  the flows that may be at work under it (`2 * MaxDelay <= ClassALock`, and for Class-C
  `MaxDelay <= ClassCLock`). `OneFramePerSlot` also needs a device that is not
  given back too long before its slot (`Advance <= ClassALock - MaxDelay + 2`): a lock of an
  uplink that ends before the slot lets a second frame in. The defaults meet both with
  flows of up to two seconds.
- **`ClassCSpaced`.** The lock is taken before the frame is sent, and an uplink that read
  the row before may set it back to its own: the distance is the shorter of the
  two locks, the latter less one delay, less the delay of the task.
- **`WindowsKept`** excepts tasks that were selected before the uplink locked the device, and what
  follows from the lock they overwrite: the selection does not know of an uplink that is being
  handled. The condition is `LockCoversWindows`: the lock of an uplink (`class_a_lock_duration`, 5 s
  by default) reaches to the end of its windows. The defaults meet it, with windows that open after
  1 and 2 s; nothing compares the two settings, and `rx1_delay` may be 15 s.
- **`SlotsDistinct`, `SlotInTime`.** The slot of a frame is looked up behind the last one in the
  queue, or a margin ahead when the queue is empty. The margin must cover the two loop intervals by
  which items are handed over early (`MarginCovers`; 5 s and twice 1 s by default), or an item
  already acknowledged would leave its slot to the next frame. With three frames it may do so all
  the same: when the acknowledgement of the second frame arrives before that of the first, the third
  gets the slot of the second. The property says that this is the only way (`early`). In time is a
  frame that met an empty queue; a queue that got stuck (`LoseAck`, `GoOffline`) drags later frames
  behind it. The turns of a loop are an interval *and a batch* apart, since the loop waits for its
  tasks before it sleeps: two batches, the one before and the item's own, must fit into one of the
  two intervals (`BatchesAreShort`: at the default of 1 s, batches of half a second), and the item
  must find room in the batches.
- **`ExpiredLeave`** holds with offline gateways only because the selection does not
  ask for a recent `last_seen_at` when the item is expired.
- **`NonceAcceptedOnce`, `KeysUsedOnce`** hold for all interleavings, with the
  exceptions that the API makes: a flush, a deletion, or a write-back of keys that
  were read before a join. For the same keys to be derived twice the dev-nonce must have been forgotten
  *and* the join-nonce must repeat: it was set back, or its three bytes have started over
  (`rolled`), which the code does not prevent (`JoinNonceInRange`, under the disagreements).
- **`SessionAgreed`** fails when handlers of different requests overlap (each writes
  the row, the device takes either accept), hence `serial`.
- **`CopyAccountedFor`.** A copy is lost in two cases only: it came between the
  collection and the end of the lock, or the task with the lock crashed.
- **`EventsChain`** is for one server, as the design accepts
  duplicates from several. The exceptions are in `spoiled`: the state could not be
  stored after its event (the next scan reports again, or never if the entity
  recovered first), and alerts enabled while a scan is at work, whose old
  state overwrites the reset; the first observation after that is then not silent.
- **`MasksAreKnown`.** A LinkADRReq never enables a channel whose frequency the
  device was not told, although the server
  learns what the device knows only from answers that get lost, some channels of
  a request are refused, and a back-off makes the device forget. While the plan
  stays, it never leaves the device without channels either (`PlanStays`). After a change
  of the plan it may (`NarrowChange`): a device turned off all channels but 4..7 and its answer is
  lost; the plan becomes 0..3; the server, which believes in all channels, asks it to turn
  off 4..7 and nothing else. The device refuses that, until the count of errors stops the server.
- **`NeverAsksRefused`** needs the largest index learned from a refusal to be one
  less than the refused one, through all later ADR decisions. It is for devices whose
  indices go from 0 to some index above it (`ContiguousPowers`), as the regional
  parameters have them; `OddPowers` are the others, for which it fails (see the observations).
- **`ReceiveParamsAgree`.** RX parameters that differ would cut off the device.
  They agree unless an answer is still being repeated, or was taken for that to a
  later request (`mismatch`): the answer carries no value.
- **`RelayKnows`.** An entry the server takes for acknowledged is the entry the relay has,
  although answers name no slot, requests follow each other with lost answers in
  between, and devices are replaced or activate again. An entry that the server
  told the relay to remove is excepted (`MemberReturns`, see the observations).
- **`Settles`.** In a steady network the exchange ends: channels, data-rates,
  parameters and relay lists are what the network wants, as far as the device accepts, and
  what is still asked for it has already, or refuses for ever. The keys in a relay's list
  are no part of it (`KeysSettle`), and the first request must fit a downlink again and again. Not steady
  are the scenarios in which the configuration changes while an answer that will
  be lost is on its way, or the link changes for ever.
- **`OneOpenJob`, `FragmentsOnce`** need flows within the lock of their job; with
  `slow`, a flow stores its stale copy over the row its successor completed.
- **`CompletedHasImage`, `EveryDeviceAccounted`.** The result of a device is
  true, and there is one: answers, timeouts and completion write the same row, and the
  deployment is completed in a later call than its devices. The
  exceptions are an answer to an earlier deployment (`stale`), and a row
  written back over a timeout or completion (`lost`).
- **`Ends`.** Whatever devices do and one fault: the chain of jobs ends, because
  every job has an attempt count and stores it before the next one is created.
- **`OneSession`** holds while counters fit into the transmitted bits: after a
  rollover every second uplink starts another session, since the stored
  counter is the truncated one. It also excepts LoRaWAN 1.1 with a validated MIC.
- **`StoppedForGood`** excepts sessions that a handler held when they were stopped:
  it saves them again. Stopped are the sessions that were deleted; the answer to PRStopReq does
  not tell.
- **`UplinkArrives`** is the promise of roaming: over sessions that expire, are stopped,
  or no longer match, a new uplink reaches home when requests do.

**Bounds.** Properties about two frames, items, joins or events that interfere need two actors and
at most three steps of the counter: one to be replaced, one that replaces, one to observe. Three
handlers are the smallest number with a claim, a competitor and a handler that moves the counter
back. Three items are the smallest queue in which an item can overtake one behind the head. `Dedup`
needs two locks in a row and a copy in the gap: `LastCopy` = 10 is two full TTLs and a half. The
times of `DeviceLock` are the defaults of `config.rs`, with a ping-slot period (7) longer than the
advance, so that both branches of Class-B happen. In `Multicast` three frames are the fewest of
which one can leave its slot to another, and one fault makes a queue that is stuck. Batches take up
to half an interval, the most that `SlotInTime` allows, and hold one item, so that some wait for the
next turn; several gateways are in `multicast_gps`, and the theorems are about any number. A block
of four channels (`BlockSize`) has dynamic plans in one block and fixed ones in three; a history of
two uplinks is full after two. `RelayMax` = 3 leaves two filter entries for three devices, which is
the shortage the code has at 15. Two fragments are a job that fails half-way. Counters modulo 4 up
to 5 roll over once, and join-nonces modulo 2 several times. The bounds are guards: `MaxFCnt`,
`MaxDevNonce`, `MaxEdits`, `NItems`, `MaxFrames`, `LastCopy`, `MaxItems`, `MaxUplinks`, `MaxFaults`,
`MaxPast`, `MaxSessions`, and `scenario.moves`, `config.trouble`, `config.later`. Where `MaxFrames`
of `DeviceDownlink` is reached, Redis fails for good.

**Fairness.** Weak fairness on the steps of a task: tokio polls a task until it ends (`HandlerStep`,
`ServerStep`, `FlowStep`). Weak fairness on time (`TimeoutPasses`, `LockEnds`, `Tick`,
`SessionStarts`, `SessionEnds`), on the selection of items and jobs that stay due (a loop that never
ends), and on a gateway's answer. Each server of `Multicast` has its turn, ends its batch, and its
items are sent or discarded (weak fairness). Strong fairness on `SelectDevice`, because the lock
comes and goes while the scheduler's loop keeps asking, and on outcomes of calls that may fail, but
not for ever (`SendFrame`, `TxAck`, the calls of `Alerts`). `MacCommands` is about a device that
keeps sending over a link that does not lose for ever what matters: weak fairness on the end of each
phase (`UplinkReceived`, `NoResponse`, `DownlinkLost`), strong fairness on uplinks with answers, on
responses that carry a request, and on their receipt. A downlink without room for any request may
come as often as it likes. Elsewhere no fairness is assumed of the device, of users or of radio;
nothing is assumed of the devices of `Fuota`.

## Proofs

`tlapm` on the modules `*_proofs`. The assumptions are the ones declared with the constants
(`FCntAssumption`, `DownlinkAssumption`, `JoinAssumption`, `DedupAssumption`,
`FuotaAssumption`, `RoamingAssumption`, `SchedulersAssumption`, and of the exchange
`BlockSizeAssumption`, `AdrAssumption`, `RelayAssumption`, `MacAssumption`, `ScenariosAssumption`):
natural numbers, booleans, finite sets, a counter that fits its width, roaming devices
in `DeviceDownlink` of Class-A, flows shorter than `SchedulerLock`, channel-plans as regions have them
(`IsPlan`) whose default channels no configuration changes. Nothing is assumed of
the number of handlers, counters, nonces, copies, servers, channels, queue-items, frames,
gateways, relay slots, devices, fragments or of the times. Two
theorems have an assumption of their own, which they state: a modulus of 2^16,
and tasks that wake up less than `Ttl - Delay` late. The conditions of `OneTask`, `OneFramePerSlot`,
`WindowsKept`, `SlotsDistinct`, `SlotInTime`, `MasksAreKnown` and `NeverAsksRefused` are parts of these properties;
the constants of `scheduler_loops` meet theirs, and `mac_exchange` has networks and devices that
do and some that do not.

| Theorem | States |
|---|---|
| `UplinkFCnt_proofs!TypeCorrect` | `TypeOK` |
| `UplinkFCnt_proofs!ClaimsAreSound`, `OneEventUnlessReopened` | `ClaimInv`, `RedeliveryNeedsReopen` |
| `UplinkFCnt_proofs!FullFCntRecovered` | `WindowRecovered`, for modulus 2^16 |
| `UplinkFCnt_proofs!OneFrameAtATime` | `OrderInv` |
| `UplinkFCnt_proofs!SequentialIsInOrder` | the refinement of `InOrderUplink`, not pipelined, neither skip flag set |
| `Join_proofs!TypeCorrect` | `TypeOK` |
| `Join_proofs!KeysCovered`, `OneSessionPerDevNonce`, `OneSessionPerKeys` | `KeysInv`, `NonceAcceptedOnce`, `KeysUsedOnce` |
| `Join_proofs!SessionsAgree` | `SessionAgreed` |
| `DeviceDownlink_proofs!TypeCorrect`, `PendingStaysOldest` | `TypeOK`, `PendingIsOldest` |
| `DeviceDownlink_proofs!EveryItemSettledOnce`, `PendingItemsWereAccepted` | `SettledOnce`, `PendingWasAccepted` |
| `DeviceDownlink_proofs!ImplementsDownlinkQueue` | `RefinesDownlinkQueue` |
| `DeviceDownlink_proofs!CountersAreNotReused`, `AckEventsAreTruthful` | `NoCounterReuse`, `AckEventTruthful` |
| `Fuota_proofs!TypeCorrect` | `TypeInv`: `TypeOK` and the shape of a flow |
| `Fuota_proofs!OneJobAtATime`, `NoFragmentTwice` | `OneOpenJob`, `FragmentsOnce` |
| `Fuota_proofs!CompleteMeansImage`, `NoDeviceForgotten` | `CompletedHasImage`, `EveryDeviceAccounted` |
| `Roaming_proofs!TypeCorrect` | `TypeOK` |
| `Roaming_proofs!StoppedSessionsStayStopped`, `AtMostOneSession` | `StoppedForGood`, `OneSession` |
| `Dedup_proofs!TypeCorrect` | `TypeOK` |
| `Dedup_proofs!LocksAndSetsAreSound`, `LocksDoNotOverlap` | `DedupInv`, `OneSetPerTtl` |
| `Dedup_proofs!SetsAreRecent`, `SetsAreComplete`, `TimelyTasksSucceed` | `SetIsRecent`, `SetIsComplete` (timely wake-ups), `NothingExpires` |
| `Schedulers_proofs!LoopsAreIndependent` | `Schedulers` implements `DeviceLock`, `Multicast` and `Alerts` |
| `Schedulers_proofs!DeviceTypeCorrect`, `AlertsTypeCorrect` | `TypeOK` of `DeviceLock` and of `Alerts` |
| `Schedulers_proofs!LocksHold`, `NeverTwoTasks`, `PingSlotsTakenOnce` | `LockInv`, `OneTask`, `OneFramePerSlot` |
| `Schedulers_proofs!ClassCFramesSpaced`, `WindowsAreKept` | `ClassCSpaced`, `WindowsKept` |
| `Schedulers_proofs!GroupSlotsTakenOnce`, `SlotsReachedInTime` | `SlotsDistinct`, `SlotInTime` |
| `Schedulers_proofs!ScansAreSound`, `UserKnowsState`, `EventsFormChain` | `ScanInv`, `ToldAgrees`, `EventsChain` |
| `MacCommands_proofs!BlocksReachWanted`, `ResetReachesWanted`, `PayloadsReachWanted` | the acknowledged payloads lead to the wanted channels, either way |
| `MacCommands_proofs!WantedIsSettled` | a device with the wanted channels is asked for nothing |
| `MacCommands_proofs!PayloadsEnableKnown` | no mask enables a user-defined channel the device is not believed to have |
| `MacCommands_proofs!SpecMatched`, `SpecTypeOK` | `Matched`, `TypeOK` |
| `MacCommands_proofs!SpecReceiveParamsAgree`, `SpecRelayKnows` | `ReceiveParamsAgree`, `RelayKnows` |
| `MacCommands_proofs!SpecMasksAreKnown`, `SpecNeverAsksRefused` | `MasksAreKnown`, `NeverAsksRefused` |

*One event per frame.* `RedeliveryNeedsReopen` is not inductive: it does not say
who may still send. `ClaimInv` adds the claim: a handler whose conditional
`UPDATE` wrote a row claims its counter until it sent the event. A claimed or
delivered counter is below `f_cnt_up` or was reopened, so only a reopened
counter is claimed again. The proof goes action by action: only `IncrFCntUp`
makes a claim, only `FilterFails` and `UpdateDevice` lower the counter, and both
record what they reopen (`NoNewClaim` treats the other actions together).

*In order.* While handlers at work are about one frame, at most one holds its
counter, `f_cnt_up` is just above it, and a copy that is filtered out writes back
a value that changes nothing for later frames (`OrderInv`). `NoneAhead`, that no
counter above the last event was delivered, makes each event of `UplinkFCnt` a step
of `InOrderUplink`. Every other step is a stutter.

*Counter recovery.* With 16 transmitted bits every counter from the last one to
2^16 - 2 above the expected one is recovered: arithmetic modulo 2^16, a case for
the re-transmission.

*Keys.* What was accepted is in the stored nonces or freed by the API, what was
issued has three bytes below the stored ones, or was lost, or its bytes have started over
since (`KeysInv`); the one transaction that accepts preserves both, as it records what was issued
when it passes the last value.

*De-duplication.* The lock ends no earlier than `Ttl` after any task won it, so
that a new winner is `Ttl` behind all earlier ones (`LockInv`). The set holds every copy
of the last `Ttl`, and every copy in it is the latest or has a successor within
`Ttl` (`CollectInv`); a new copy keeps that because an expired set is started
anew. A task that wakes up in time therefore finds all that came since it slept.
`SetsAreRecent` needs no timely wake-up, `SetsAreComplete` does.

*Alerts.* A server at work was started from what the user was told: up to the event
that is also the stored state, between event and store the user is one ahead
(`ScanInv`). With two servers both are started from it, and the second event has the
previous state of the first; hence `SingleInstance`.

*Channel masks.* A block that is not in the payloads has no difference between
enabled and wanted channels, a block in them is replaced by its wanted ones;
the control that turns off narrow channels replaces all of them, as wide channels
share no block with narrow ones (`IsPlan`, what a region's channel-plan is).
These are statements about operators, for every plan and every set of enabled
channels; the proofs about `MacCommands` use them with the belief of the server.

*The exchange.* An answer is matched with the request that is pending, so the first
invariant is `Matched`: what is on the air is pending as it was sent, and what the device has
to answer once belongs to a pending request. On it stand four invariants, of which each says what an
answer on its way will make true. `ReceiveParamsInv`: a value the device took over and
the session has not is one it still repeats. `RelayInv`: the request of a list names a row of
the session, and once it is answered the relay has that row; rows the server no longer has
say nothing. `MaskInv`: the session enables only channels the device knows, unless the device fell
back and has not told yet; and, while the plan stays, the wanted default channels stay
enabled on both sides, which leaves no mask empty. `PowerInv`: every refused index is above the
largest index the session will ask for, above what is on the air, and above what is
pending with an answer under way; `DefaultAdrBounds` is what the ADR algorithm adds.

*Device scheduler.* While a task is at work the lock lasts at least as long as the task
may (`LockCoversTask`), and the lock an uplink handler is going to write does not end
earlier (`OwnLockInv`); so the selection finds no second task. `SlotInv` adds that a slot
that is taken stays locked until two seconds before it, `SpacedInv` that the age of the last Class-C frame and the
rest of the lock add up to the distance, `WindowInv` that the lock covers the receive-windows of
an uplink except for what an overtaken task overwrote, if it did when it was written.

*Multicast scheduler.* An item never runs earlier than two intervals before its slot
(`SlotsNear`), so what is handed over has its slot within two intervals, and the margin lies
behind that. `SlotsAscend` says that the slots of frames ascend, and that a frame which left the
queue has a slot no later than all in it, unless it is in `early`: that is what makes
"behind the last one in the queue" enough, although the queue forgets. `PromptInv` counts the
time: until an item is selected, its slot is further away than the rest of the batch at work,
the sleep behind it and a batch of its own; once selected, further than the rest of that batch.

*Session agreement* (`SessionInv`). Only the last request of the device opens a
session; its accept is sent when the row has that session; and an uplink, which
writes back the whole session it loaded, is never at work together with another
handler. That last part is what `serial` is for.

*Queue.* `PendingIsOldest` says nothing of the copy of an item a task holds
while others delete and add rows. `Basics` adds the items that all deletions have passed
(`ItemsPassed`) and, per step of a task, what its item can be. From it follow, for
overlapping flows, `SettledOnce` (`Settled` is the same, for all items) and,
with `AcceptInv`, `PendingWasAccepted`: a tx acknowledgement on its way carries an item
that some gateway accepted.

*Refinement of `DownlinkQueue`.* The mapping `Life` gives every item its stage.
Every step of the surroundings, of the session and of a task that writes no row
is a stutter; `Enqueue`, the deletions and the tx acknowledgement are the
abstract steps. It rests on `OneFlow`: if flows do not overlap, at most one task is at
work, and it does not put an item back as not pending that is pending.

*Counters* (`CountersInv`). The session's counter of a key is above every counter
of that key that was counted; a task holds a copy (`snap`) of the session that is
current up to its own changes; a frame that was accepted and not counted is in
flight, known to the task that will count it, or never counted at all. So a counter
is reused only after that last case, and `NoCounterReuse` follows with no exception
for equal payloads.

*Acknowledgements* (`TruthInv`). In Class-A, while the device owes an
acknowledgement, no item but that one becomes pending (`Owed`), since its next uplink
comes before anything else is sent. In LoRaWAN 1.1 `conf_f_cnt` of the session is
the counter of the pending item, unless its tx acknowledgement was not saved
(`Numbers`). Both rest on `Heads`: whatever is in flight is the pending item or nothing
is pending. `Excused` is the conclusion: an ack event about another item leaves a
frame that was accepted and never counted.

*FUOTA.* While no flow took longer than its lock (`slow`), one flow at most is
busy, its job is the open one and that job is locked (`OneFlow`): `OneOpenJob`. With it,
`EnqueueInv` follows the one attempt of the job that enqueues: before it nothing is
in the queue of the group, after it the attempt is recorded in the flow or in the row,
and a second one is refused. `ImageInv` needs no such condition: it holds of the row of a device
and of the copy of it that an answer on its way will write. `SettledInv` says that
a job exists only if the steps it builds on are settled, each device having
done them or being in error, and between the completion of devices and deployment (`Closing`) every
device has its result; a step that counts as settled stays so, except when an
answer writes an older copy of the row (`lost`).

*Roaming.* A stopped session can only return from a copy, so `StopInv` says that
every stopped session in a copy is in `held`. `OrderInv` says that every session, and every copy of the handler
at work, matches the frame that is handled next (`EveryOneMatches`), hence that a session
is started only when there is none; lemma `Recovered` is the arithmetic of
the transmitted counter.

### What the proofs changed

- `AckEventTruthful` was stated without `Serial` for Class-A. The proof does not
  go through, and TLC finds a counterexample of 30 states on a profile with two confirmed items
  and overlapping flows; the condition now names it.
- `NoCounterReuse` had excepted equal payloads. The proof does not need the exception.
- `DeviceDownlink!TypeOK` bounded the counters, which no code does.
- `Fuota!Enqueue` was not defined for a payload of no fragments.
- `OneTask` and `OneFramePerSlot` were stated with `MaxDelay < SchedulerLock` only, which the
  instance with the default locks does not tell from the condition needed; `ClassCSpaced` had a distance
  that an uplink's lock can undercut when it is shorter than `ClassCLock`. For other locks TLC finds the
  counterexamples.
- `SlotsDistinct` had no exception and was true of two frames. With three, TLC finds the
  acknowledgements that arrive out of order.
- `MasksAreKnown` and `NeverAsksRefused` had no conditions and were true of the networks and devices of the
  run. `NarrowChange` and `OddPowers` are the counterexamples the proofs led to.
- `WindowsKept` had a weaker form for Class-C than is true.
- `SlotInTime` was proved of a loop that has its turn at every interval. With the batch in between,
  the interval has room for it only under `BatchesAreShort`; for longer batches TLC finds the item
  that is late.
- `KeysUsedOnce` was proved of join-nonces without a width. With three bytes `rolled` is needed, and TLC finds the
  pair that repeats without it.

### What is only model-checked

The inductive invariants are proved and not part of a run; TLC found them to hold on the instances
of the runs before they were proved (add them to a configuration to see it), as `TypeOK` of all
modules. All safety properties of the passing runs are proved. Model-checked only are the liveness
properties (`FreshUplinkDelivered`, `ItemsLeaveQueue`, `CopyAccountedFor`, `StateSettles`,
`ExpiredLeave`, `Settles`, `Ends`, `UplinkArrives`): temporal reasoning with fairness and `ENABLED`
is outside the prover. So is `TypeOK` of `Multicast`, of which the proofs need `ClassBTypes`; and
the counterexample of `multicast_gps` is TLC's.

## Disagreements with comments and documentation

1. *`multicast_gps`.* The comment at `storage/multicast.rs:560-561` says that a
   margin is added because sending "now" would be too late for the gateway. The margin goes into
   `scheduler_run_after_ts`, and that same time becomes the emission time; the
   selection (line 700) takes an item when `scheduler_run_after` is over. A GPS-timed
   Class-C frame is therefore handed over from its emission time on, always too late.

These have no run of their own; their definitions are in the modules, and a
configuration that checks them finds the counterexample:

2. `FilterRestoresFCntUp` of `UplinkFCnt`. `uplink/data.rs:554-555` says that the
   original `f_cnt_up` is restored when no gateway of the tenant received the
   frame. The loaded device
   has `f_cnt_up` already replaced by the counter of the frame; the write stores
   that. A gap of lost frames is not restored. Harmless for the next new frame.
3. `AckEventAlwaysTruthful` of `DeviceDownlink`. The ack event is documented as
   being about the frame that
   was acknowledged; in Class-C with LoRaWAN 1.0 it may be about the next one.
4. `JoinNonceInRange` of `Join`. `src/lrwn/src/payload.rs:131` says that the maximum of a join-nonce is
   2^24 - 1, and `uplink/join.rs:631-632` refuses the join that has reached it. The check is with
   `==`, after the increment was committed: one join is refused, the next one has a
   join-nonce of 25 bits, of which accept and keys take the low three bytes, 0 again.
5. `KeysSettle` of `MacCommands`, with the scenario `Rekeyed` alone. `downlink/data.rs:1589-1590`
   says that a device of the uplink list of a relay is sent when it has not been provisioned or "the
   settings must be updated". The condition does not compare `root_wor_s_key`, which is stored with
   the entry and sent. A device that is activated again with the DevAddr it has (an ABP activation
   by the API) keeps its old key at the relay.

## Other observations

Seen while modelling. The models behave this way, except where they say
otherwise; no property claims the contrary.

*Uplink and downlink.* `is_pending` is
documented as set while a confirmation is still pending
(`src/api/proto/api/device.proto:603-605`), but `update_device_queue_item` of an
overlapping flow writes `is_pending = false` from its copy. A tx acknowledgement that
fails between storing the item as pending and saving `conf_f_cnt` makes an
acknowledgement of LoRaWAN 1.1 ambiguous as well. `_handle_response_relayed` never
calls `update_device_queue_item`. `set_uplink_data_rate_relayed` compares with the
data-rate of the relay's own frame (`uplink/data.rs:676`).

*MAC-commands.* Data-rates of a channel that have no code (`eu868.rs:800`) are an error of the whole
downlink flow, for every downlink of the device. Regions without gap sets encode the smallest and
largest data-rate of a set, so that a set with a gap is asked for again with every downlink. The
learned largest power index 0 means "unknown" (`link_adr.rs:141-142`), and a device that refuses
index 1 is asked again, as is one that does not support index 0. A change of the channel-plan while
the answer to a mask is lost can ask for a mask that leaves the device no channel (`NarrowChange`).
A block of requests that is longer than any downlink has room for (three NewChannelReq are 18 bytes,
AS923 has room for 11 bytes at its lowest data-rate under dwell-time) is never sent, and nothing
behind it in `CidOrder` is either: the loop over the blocks ends at the first that does not fit
(`downlink/data.rs:733`). `handle_mac_commands` is called for FOpts and for FRMPayload, and the
second call overwrites `must_send_downlink` of the first (`uplink/data.rs:797`, 815).

*Relay.* `add_device` compares with `count > RELAY_MAX_DEVICES`
(`storage/relay.rs:249`) and admits 16 devices, where its message says 15; of
those the filter list takes 14 (`1..15`, `downlink/data.rs:1924`), where
`storage/relay.rs:13-16` says 15. A refused RelayConfReq or EndDeviceConfReq is not
counted as an error and asked for with every downlink. A filter entry that is refused blocks
those behind it; in the model the relay refuses none. Of several removals of filter entries
only the answer to the first is looked at. A device that leaves the relay and
comes back before the answer to its removal stays in the session as acknowledged,
while the relay removed it (`MemberReturns`); a deactivated device keeps its entry.
`_update_uplink_list` and `ctrl_uplink_list::handle` write the complete session of
the end-device from the flow of the relay.

*Multicast.* Times of stale items are the base of new ones, so that a queue with items of
an offline gateway puts new frames into the past. The next ping-slot is looked up behind the
last item in the queue, so that a frame whose acknowledgement overtakes that of the frame before it
leaves its slot to the next one (`early`). The loop sleeps its interval after the
batch: with tasks of 0.9 s, or more items than `batch_size`, an item can be handed over after its slot.

*Scheduler locks.* A task that moves the lock to a slot far ahead, or to a short
`class_c_lock_duration`, can free the device while an uplink handler still holds the older row; only the
durations keep flows apart (`LocksOutlastFlows`), and nothing checks the configured ones. Nor is
`rx1_delay` compared with `class_a_lock_duration` (`LockCoversWindows`).

*FUOTA.* With overlapping flows a completed job is stored as open again; its
`create_job` then fails on the primary key at every round. A server that stops
between `update_job` and `create_job` ends the chain. An error among the fragments
counts as the attempt: the rest is skipped and the status is requested, also with
NoRequest. When the status times out the group is deleted at once, with the
fragments in its queue. `start_deployment` stores `started_at` before it creates
the first job, so a failure leaves a deployment that cannot be started
(`api/fuota.rs:311-320`). A call that fails between the completion of devices and of the
deployment is not repeated when its attempts are used up: the deployment then stays open.

*Roaming.* Sessions that an uplink started know neither DevEUI nor LoRaWAN version: those of 1.1
devices never match when the MIC is validated, and PRStopReq cannot find them, though
`passive_roaming.rs:59` says that sessions must be stoppable by DevEUI. Two overlapping uplinks
start two sessions. A visited network that validates the MIC needs a key the home may not have
exposed; the error then ends the handling of every uplink of that DevAddr. The downlink of a roaming
device counts as accepted when the request was answered. A session of a join has the counter 0 and
takes a first frame 65535 for a repetition. A stateless PRStartReq answers an error for a frame the
home already heard. PRStopReq is answered with Success although a session could not be deleted.
`get_passive_roaming_kek_label` and `get_net_ids_for_dev_addr` do not look at `roaming.default`.

## What is not modelled

- Contents of frames: payloads, sizes, encryption, regions beyond their channel arithmetic.
  The MIC is modelled by what it decides. `DeviceDownlink` knows of MAC-commands
  only that there is something to send; `MacCommands` has one exchange at a time.
- MAC-commands of the device that are answered from one frame (LinkCheckReq,
  DeviceTimeReq, PingSlotInfoReq, DeviceModeInd, RekeyInd, ResetInd), DevStatusReq,
  and of a relay NotifyNewEndDeviceReq and the wake-on-radio frame-counter.
- The LR-FHSS ADR algorithm, which chooses by chance, and JavaScript plugins.
- Relayed uplinks, joins and downlinks: the modelled flows with a second row.
- Join-servers (HTTP, key-wrapping); of roaming the transport, asynchronous answers, several
  home networks of one DevAddr and the conversion of meta-data.
- The choice of gateways for multicast by coverage; its frame-counter, which the
  transaction of `Enqueue` increments under the lock of the group.
- `get_and_del` of saved frames is a Redis pipeline that is not atomic; the MQTT
  subscription is shared, so that one server gets each message, and the
  duplicate is left out.
- The flags that skip the counter check are constants of `UplinkFCnt`, FALSE in
  all runs; the two copies of the flag (device, session) may differ.
- I/O, codecs, tables, the API's CRUD, authentication and the web interface: the
  larger part of the lines of the repository, with little state that changes in steps.

## Plan

1. The relayed flows, as a second row in `UplinkFCnt` and `DeviceDownlink`.
2. `DeviceDownlink` with the lock of `DeviceLock` instead of a flag, to find when
   `serial` and `TimelyTasks` hold.
