# Sanketly in TLA+

TLA+ models of Sanketly, checked with TLC and proved with TLAPS.
Sanketly is an offline alert messenger: phones form a store-and-forward mesh over
Google Nearby Connections (Android) or BLE, an alert travels hop by hop to its
recipient, and the recipient's signed acknowledgement travels back. A small relay
server and a web client offer the same end-to-end encrypted messaging online.
Paths below are relative to `src/`.

## 1. The system

| Component | Code | State | Operations |
|---|---|---|---|
| Packet rules | `packages/protocol/src/index.ts`, `packages/mesh-crypto/src/index.ts` | none; `DeduplicationCache` | create, encode, decode, encrypt, sign and verify messages, acks and announcements, `canRelay`, `relayPacket`, `selectNextHop`, `remember` |
| Mesh engine | `mobile/lib/mesh/mesh-engine.ts` | `seen` (memory), relay queue (storage) | `send`, `receive`, `drain` |
| Provider | `mobile/lib/sanketly-provider.tsx` | peers, announcement frame, messages (memory) | native events, `handleAnnounce`, `handleDecryptedMessage`, `handleAcknowledgement`, `queueMessage`, `startMesh`, `stopMesh` |
| Storage | `mobile/lib/storage.ts` | relay queue (512), outbox, alerts, relay events (1024), identity | `list`, `upsert`, `remove`, `append`, each a read followed by a write |
| Nearby runtime | `mobile/modules/ssa-nearby/android` | saved configuration, pending events (100), running, sink, endpoints | `start`, `stop`, `attach`, `sendPayload`, Nearby callbacks, foreground service, boot receiver |
| BLE transport | `mobile/modules/sanketly-mesh` (Swift and Kotlin) | GATT clients, subscriptions, frame counter, chunk assemblies | `start`, `stop`, `sendFrame`, `consumeChunk`, scan, connection and GATT callbacks |
| Relay server | `server/src/socket.ts` | `activeSockets`, Redis mailbox | connect, `message:send` to a user or group, disconnect, flush |
| Server accounts | `server/src/routes` | users, challenges, sessions, prekeys, groups | register, challenge, verify, upload and take a prekey, create a group |
| Web client | `client/src/transport`, `client/src/identity`, `packages/crypto` | socket, crypto sessions | connect, `ensureSession`, `sendMessage`, receive |

How they interact. A native transport reports *peer* and *payload* events to the
provider; the provider hands payloads to `MeshEngine.receive`, which answers through
callbacks (`onPacket`, `onMessage`, `onAcknowledgement`, `onQueued`, `onError`) and
sends through the provider back to the transport. Engine and provider share the
storage module's keys without a lock. On the server, HTTP handlers and socket handlers
share in-memory maps, and the socket handlers await Redis between steps. On Android the
Nearby runtime is shared by two threads, the queue of the Expo module and the main thread,
and outlives the application in a foreground service that the system restarts. A browser
keeps its keys and crypto sessions in storage that calls and message handlers read, await
and write back.

What is hard here: duplicate filters that die with the process next to queues that do
not; announcements that bind a link to a peer id and are themselves relayed; send calls
that resolve before the radio has failed; awaits between reading and writing one storage
key; a crash between two records of one operation; a mailbox read and deleted in
separate round trips while others append to it.

What would make each component correct, and how much of it holds. The code does not do all of
it: section 6 lists what goes wrong, and the properties say what is left outside those cases.

- *packets*: what is sealed and signed is read as it was written, by its recipient alone, over
  every relay; the filter forgets an id only when it must.
- *mesh*: "delivered" implies received, and for an alert stored, by the recipient; only the
  recipient stores; a copy keeps its origin; no bounce where nothing drains, no loop beyond the
  hop limit; the last copy of an undelivered message goes only in ways that are named; a
  message is shown once in a life of the process; on links that hold, queued is eventually
  delivered. The relay queue is not worked off, since nothing calls `drain`.
- *storage and status*: an acknowledgement stays recorded, nothing says delivered before the
  outbox, and between calls the three records of a status agree; all of it only while no
  two calls overlap on a list, which is when the code loses updates.
- *Nearby runtime*: start and stop leave the transport in the state asked for last, kills
  and reboots included; a running transport has its service; the provider hears events in
  order; what it shows as connected is, and an open link is shown until discovery speaks of
  the endpoint. Starts that cross a waiting stop, and emissions that race a drain, are outside.
- *BLE transport*: a frame is put together from its own chunks, whole; what arrives is
  delivered; devices that meet hear each other and, iPhone centrals, can be answered; unless
  frame ids begin again.
- *server*: a message accepted for a user is handed out, waits, expires or is lost in the crash that
  interrupts its storing; nobody gets mail of others, nor twice unless two of their flushes
  overlap; a stored list keeps the order of direct messages. A message pushed during a flush
  is lost, and the order on a socket is not kept.
- *accounts*: a name stays with the browser that registered it, and an undisturbed login
  succeeds, also after the server has forgotten everything.
- *client*: every message that reaches its handler can be read, no message key is used
  twice, and no browser takes two of a user's prekeys, outside crossing first messages and
  overlapping sends.

## 2. The modules

### MeshRouting and MeshNetwork

`MeshRouting` holds the pure rules of the protocol package as operators: the packet, the
relay predicates, `RelayPacket`, and `NextHops`, the set of links `selectNextHop` can
return. The source ranks candidates by a score of destination (1000), verification
(100), transport and freshness (at most 60 together); the set contains every link of
the best class, so the ranking inside a class is open, and the classes are exact.

`MeshNetwork` composes devices. One action is one JavaScript turn whose halves nobody
else sees, and one per way through a handler:

| Action | Code |
|---|---|
| `QueueMessage`, `SendPending` | `queueMessage` up to `outbox.upsert`; `MeshEngine.send`, for messages and for acknowledgements |
| `ReceiveDuplicate`, `ReceiveAnnounce`, `RelayFrame`, `ReceiveMessage`, `ReceiveAck` | the branches of `MeshEngine.receive` with the provider callbacks they call |
| `DrainStart`, `DrainExpired`, `DrainSkip`, `DrainSend`, `DrainRemove`, `DrainFail` | `MeshEngine.drain`: the read of the list, then one record of it after the other with the time and the peers of the call (`draining`); the send and the removal are two steps because an await separates them |
| `PeerConnected`, `PeerLost` | `handleNearbyEvent` for a peer event |
| `StartMesh`, `StopMesh`, `FinishStop` | the provider's callbacks, `stopMesh` split at its await |
| `LinkUp`, `LinkDown`, `LoseFrame`, `Restart`, `RestartFromService`, `Tick` | the radio, the operating system, the clock |

Durable state is `queue`, `outbox` and `alerts`; `seen`, `peers`, `shown`, `draining`,
`sending`, `pendingSend` and `announceFrame` die in `Restart`. `native` is what the Android runtime
has saved and runs, because that decides whether a send throws: `Send` fails only when
the device's own transport is down, and a link that closed at the other end swallows the
payload. `cameFrom`, `excused` and `swallowed` are history variables.

Abstractions. A peer id, a link and a device are one value, because a Nearby endpoint
names one remote device. A packet id is what the packet was created for and a number.
The messages in `Alerting` carry a structured alert, which `handleDecryptedMessage` stores
before it acknowledges; the others are plain texts, shown and acknowledged without being
stored (`mesh_live` has one of each). A write of a store is one step here,
with the read before it: the loss of updates between overlapping calls is the subject of
`DeviceRecords`, and no property of this module is about it. A packet that claims a sender comes from it: that
is what `AlertExchange` proves of the signatures. The devices' clocks agree. The duplicate
filter does not reach its 2048 entries (`AlertExchange` has its limits) and the relay queue
does not reach its 512 (`DeviceRecords` has that one).

### MeshPackets and AlertExchange

`MeshPackets` is what a packet carries: the fields and `isMeshPacket` of the protocol package and
when `encodePacket` makes a frame of them, the structured alert of the domain package, and of
mesh-crypto the identity, `encryptMeshMessage`, `decryptMeshPacket` and the two halves of an
acknowledgement. A function that throws is a pair: when it returns (`CanEncrypt`,
`CanDecrypt`, `CanAcknowledge`) and what it returns. `AlertExchange` is what the devices do
with such packets:

| Action | Code |
|---|---|
| `QueueMessage` | `queueMessage`, `queueAlert`: encrypt for the recipient's entry, write the outbox |
| `ReceiveDuplicate`, `ReceiveMessage`, `ReceiveAcknowledgement`, `ReceiveOther` | `MeshEngine.receive` behind `DeduplicationCache.remember`: decrypted and shown, verified and recorded, or neither |
| `SendAcknowledgement`, `FailAcknowledgement` | `sendAcknowledgement`, which may come too late |
| `OverwriteOutbox`, `Restart`, `Tick` | an outbox write from an old copy, a new process, the clock of one device |

`MeshNetwork` has packets whose origin nobody can dispute; here any packet a frame can hold
may arrive anywhere, any number of times, damaged or old, except that a signature that fits
its text was made by a device (`Arrives`). Signatures, hashes and sealed boxes are terms that
are equal when what they were made of is equal, which is the promise of libsodium and no
more. A JSON text is the set of its name/value pairs, since the signed texts are made with
their fields in a fixed order and a parser looks them up by name. The filter is a list of
what it took in and the set of places it still holds: eviction of the oldest, one by one, is
the newest `MaxEntries` in closed form. Sessions of a device share its identity, which
`loadMeshIdentity` keeps.

### ServerRelay and Mailbox

`ServerRelay` is `server/src/socket.ts`. One action is one turn of the event loop:

| Action | Code |
|---|---|
| `Login`, `CreateGroup` | `/auth/verify`, `/groups`, as far as the sockets depend on them |
| `Connect`, `Break`, `Disconnect` | the authentication middleware and the connection handler; a connection that broke and that the server has not noticed; the disconnect handler |
| `Send` | `message:send`: lookup of the group, then `FanOut` up to the first absent member |
| `QueueSet`, `QueuePushed` | the continuations of `setex` and `rpush` in `queueMessage`; the second goes on with the fan-out |
| `FlushKeys`, `FlushFound`, `FlushMissing`, `FlushDeleted` | the continuations of `lrange`, `get` and `del` in `flushMessages` |
| `Expire`, `Receive`, `Restart` | Redis, the client's end of a socket, the operating system |

All Redis commands go over one connection, which executes and answers them in order, so
`replies` is one sequence of continuations; a command takes effect in the turn that
issues it, and other turns run before its continuation. In-memory state (`sessions`,
`active`, `groups`, `replies`) dies in `Restart`, `store` and `list` do not. A message is
a model value, since nothing looks into the ciphertext; a message the handler rejects for
its form changes nothing and is left out.

`Mailbox` is the promise without the mechanism: each delivery, a message and one
addressee, goes from new over taken and stored to emitted or expired, and only a crash
loses one, only before it is stored. `ImplementsMailbox` states that `ServerRelay`
implements it, with `Fate(d)` computed from the store, the continuations and the history.

### DeviceRecords

`DeviceRecords` is one phone's storage under the calls that write it. `MeshNetwork` takes
`queueMessage`, `handleAcknowledgement` and the rest for single steps on sets;
here each call is a task that moves one await at a time (`pc`), and `upsert` is what
`storage.ts` does: read the list into `copy`, change it, write it back, with no lock.

| Action | Code |
|---|---|
| `QueueMessage`, `ReceiveAlert`, `Acknowledgement` | the first turn of `queueMessage`, `handleDecryptedMessage`, `handleAcknowledgement` |
| `WriteOutbox`, `WriteAlerts`, `WriteRelay` | the `setItem` turn of the three `upsert`s; the relay queue is cut to `MaxRelay` |
| `SendPacket`, `SendResolves`, `SendFails`, `RelayWritten` | `MeshEngine.sendOrQueue` around its awaits |
| `AckOutboxListed`, `AckOutboxWritten`, `AckAlertsListed`, `AlertsWritten` | the turns after each await of `handleAcknowledgement`, the last one shared with the two other callers |
| `Restart` | the process dies; the next one reads the alerts |

`stale` records the keys that were ever written from a copy that was no longer the
stored list. The properties are about what holds while that has not happened to their key:
a lost update is a known failure of the read and write in `storage.ts` (section 6), and
the properties ask whether the order of the calls is right without it. `early` holds the messages acknowledged while `queueMessage`
was still running: their alert record is written, as queued, after the acknowledgement
looked for it, so the shown and stored alert stay behind the outbox. `StatusAgrees` and
`ScreenIsStored` leave those messages out; `AckIsRecorded` does not. `StatusAgrees` compares the
outbox, the stored alert, the alert on the screen and the message in the chat: at every moment,
crashes included, none of the others says delivered before the outbox does, and while no call
on the message is under way they are the same. A crash between the outbox write and the alert
write of an acknowledgement leaves the alert behind for ever, since nothing reconciles the two
(section 6); a call that a crash has torn has not ended.

The type of `Task` decides which call a task is; a stranger's packet and an
acknowledgement to send start at `sendOrQueue`. What the transport does is one choice:
the send resolves or fails. `left` holds what it was given, and an acknowledgement can
only come for that. Nothing in the application calls `drain`, so a record stays in the
relay queue.

### NearbyRuntime

`NearbyRuntime` is the Android transport below the provider: the Expo module, the object
`SsaNearbyRuntime`, the foreground service and the boot receiver, between an application
that opens, subscribes and is swiped away and a system that kills and restarts the process.
Two threads share the fields and the preferences:

| Thread | Actions | Code |
|---|---|---|
| module queue (`call`) | `SetSink`, `Drain`, `Save`, `Run`, `Begin`, `HaltTransport`, `Clear`, `Answer` | `attach`, `start`, `stop`, `acceptConnection`, `rejectConnection`, split where the main thread can see a half |
| main (`main`, `out`) | `Create`, `StartCommand`, `StickyCommand`, `StopCommand`, `TaskRemoved`, `Destroy` | the service's callbacks, in the order of their intents |
| main | `EndpointFound` to `PayloadReceived`, `TransportStarted`, `TransportFailed`, `RequestAnswered` | the Nearby callbacks and task listeners |
| main | `Emit`, `Persist` | `emit`; `persistEvent` reads the list in the first and writes it in the second |
| application | `Open`, `Subscribe`, `CallStart`, `CallStop`, `Swipe` | `OnCreate`, `OnDestroy`, the provider's effect, `startMesh`, `stopMesh` |
| system | `Kill`, `Crash`, `Boot`, `SwitchRadio`, `Nearby` | process death with intents delivered again, the exception of `requireClient`, `SsaNearbyBootReceiver`, the radios, Nearby Connections |

`startTransport` on the module queue reads `running` in `Run` and starts in `Begin`, so a start of
the service can fall between. On the main thread it is one step (`StartTransport`): what the
other thread does between its check and its start is to halt, or to start a transport that
this one replaces, and either comes to the same when it happens before the check.

`asked` is the call that ended last. `crossed`, `failed`, `raced`, `late`, `masked` and `blind`
record the situations the properties leave out, each of which the code is exposed to: an intent
issued while a STOP waits, a start that failed, an emission that raced a drain, a callback
left over by a stop or by a start that replaced another, an endpoint of which discovery (a find,
a loss, the answer to a request) spoke last, one whose last event was not heard. `n` numbers
events in the order in which they happened. Nearby finds and loses an endpoint whether or not it
is connected, and a remote device may connect before it is found.

A service object lives from its first intent to `onDestroy`. STOP calls `stopSelf`, after
which the system has no started service (`up`): intents that wait already are still handled
by the old object, later ones create the next, so two services can wait in one queue.
`Current` are the intents of the one the system started last, which are the ones it delivers
again after a death, and a STOP handled by an object that was stopped before ends nothing
more (`BroughtDown`).

Abstractions. Status and connection-request events are left out, nothing decides on them.
There is one configuration, since a device keeps one service id and one name. A handler of
the main thread is one step but for its emission. `apply()` reaches the disk before the
process dies. The application opens and is swiped away while no call is under way.
Android's limits on starting services from the background are not modelled.

### WebAccounts and WebSessions

`WebAccounts` is how a browser gets an account and a socket: `connectTransport` is taken
apart at its awaits (`call[c].pc`), each request is one step with its handler on the
server, and may fail before or after the handler has run. The server's maps die in
`ServerRestart`; the identity in IndexedDB (`idb`) and the Proteus identity in local storage
(`ident`) outlive a `Reload`. Calls of one browser share `socket`, `localUsername` and
`localIdentity`, so a second call, a disconnect or a reload falls between any two steps.

`WebSessions` extends it with the messages: `Load`, `FetchPrekey`, `SaveNewSession`,
`Encrypt` and `Emit` are the turns of `sendMessage` and `sendGroupMessage`, `OpenMessage`
and `KeepMessage` those of the `message:receive` handler. A send to a group asks for its
members in `GetGroup` and checks each of them against `localUsername` when its turn comes
(`SkipMyself`): a disconnect in between clears the name, and then only the server, which does
not relay to the sender (`Relayed`), keeps the message from coming back. A server that
restarts forgets the group, also for calls on their way to it (`via`). `store` holds one session for a
browser and a peer, read in one turn and written in a later one.

Abstractions. A Proteus session is reduced to what decides whether a message can be read:
its tag, the chain it sends on with its counter, the chain that one answers, and what was
read on each chain; its limits of five chains and 1000 skipped keys are not reached.
Accepted messages wait for their user in one queue in order; `ServerRelay` is about that
queue, and is not repeated. A connection that is out buffers what is emitted, as socket.io
does: the operation waits at `emit`. `spoiled` holds the sessions, by browser and peer, whose
first messages crossed or whose sends overlapped another operation on the session; `disturbed`, `twofold`,
`doubled` and `lacking` are the calls, browsers and names the account properties leave out: names
of which an upload was lost or forgotten, or a prekey went to a send that failed, are `lacking`.
`takers` are the browsers to which prekeys of the present bundle went. The client never
uploads new ones, so `PrekeysMatch` counts them: what the server has left and the browsers that
took one are `MaxPrekeys` together, and an empty bundle means that so many peers have a session.

### BleMesh

`BleMesh` is the Bluetooth transport on both platforms with the provider's peer entries.
A pair of devices may be connected in both directions, each central of one. `down` and `up`
are what is on the air to the peripheral and to the central, in order.

| Action | Code |
|---|---|
| `Start`, `Stop`, `SendFrame`, `SendNumbered` | the three functions of the module; `sendFrame` reads the frame counter in one step and writes it in the next |
| `DidDiscover`, `OnScanResult`, `Connected`, `ConnectFails` | scan results and the central's connection callbacks; an iPhone hears of a peripheral once per scan |
| `DidDiscoverCharacteristics`, `OnServicesDiscovered` | the characteristics are known, the announcement goes out; only an iPhone subscribes |
| `CentralConnected`, `DidSubscribe`, `OnDescriptorWriteRequest` | what a peripheral hears of a central |
| `WriteArrives`, `NotificationArrives` | a chunk arrives: `consumeChunk`, then the engine and `handleAnnounce` |
| `Cut`, `CentralLosesLink`, `PeripheralLosesLink`, `Die` | broken connections and dead processes |

`Transmit` makes the chunks and loses any subset of them when its budget allows: nobody
looks at the answer of `updateValue` or `writeCharacteristic`. `OnAir` are its subsequences. `sendFrame` prefers the
device's own connection to a peer and falls back on a notification (`Route`). The counter of
frame ids is incremented without a lock by `sendFrame` on the module queue and by the callbacks
that announce, so a callback (`Announce`) may fall between the read and the write of
`SendNumbered`, which then gives the same id again. `life` counts how often the ids of a
device began again, by that race or by a death of the process.

Abstractions. The radio is on and permitted. A connection delivers in order in each
direction. A link id is the peer. Both ends have heard of a broken connection before it is
asked for again. A chunk carries two bytes, an announcement has three and other frames four,
so that a last chunk is short or full and a frame has two chunks (160 bytes in the code).
Two threads that send append their frames to a connection one after the other, and of two that
number frames at once the callback is the faster: the other order uses one id twice as well.
State restoration of iOS only reports a status. `startMesh` starts this module on iPhones
alone; the Kotlin module is modelled as what it offers.

### Plan

All components that keep state are modelled, and every safety property is proved. What is left: that
`MeshNetwork`'s packets are those of `AlertExchange`, a refinement that needs one name for a
packet in both.

## 3. The runs

| Run | Instance | Shows |
|---|---|---|
| `mesh_faults` | line a-b-c, hop limit 1, a link loss, a restart and two reconnections, a drain caller | delivered means received and stored, provenance of every copy, last hop, shown once in a life, custody |
| `mesh_meeting` | triangle, no initial binding, no drain caller | no packet goes back over the link it came by |
| `mesh_custody` | line a-b-c-d, hop limit 3, a link loss, a lost frame, a stop, a drain caller | custody, durable queue |
| `mesh_live` | line, an alert and a plain text in opposite directions, no faults | every queued message is delivered |
| `relay_mail` | two direct messages to a user with two sockets; broken connections, a crash, an expiry | presence, no duplicates by reconnecting or crashing, order of direct messages |
| `relay_box` | a direct and a group message, a crash, an expiry, fairness | the abstract mailbox is implemented, every recipient is served, a flush goes through |
| `relay_lost` | two direct messages, two sockets, no faults | violated: a key pushed during a flush is deleted from the list with the others |
| `records` | an alert sent, one received, a packet relayed, a relay queue of two, one restart | acknowledgements stay recorded, nothing says delivered before the outbox and all agree between calls, the relay queue keeps the newest |
| `nearby` | one endpoint; eight scenarios: a killed process, a swiped task, crossing starts and stops with a failing radio, a death around them, a link that comes and goes, one that is refused, an endpoint found, lost and connected in any order, a reboot | the last call wins, a running transport has its service, events in order, what is shown as connected is, a start succeeds |
| `web` | two browsers, three names, at most three calls and two operations at once; one name asked for by two browsers, restarts, failures, reloads, two users writing to each other, a group used across a restart and across a disconnect | accounts stay with their owner, a connected user's prekeys are where they should be, the tab matches its sockets, logins succeed, every message is read, fresh keys |
| `ble` | two iPhones, two Android devices, or one of each; a lost subset of chunks, a broken connection, a stop, a death or two threads that number frames at once | frames whole, complete means delivered, links can be answered, announcements are heard |
| `ble_verified` | two iPhones, no faults | violated: a peer stays unverified, see section 6 |

Bounds. `MaxTime` stops the clock after every expiry of the instance, `MaxStarts` and
`MaxEnv` bound how often each environment event happens, per run, so that each run has
the events its question is about. Three devices are the smallest network with a relay. With four and hop limit 3 a relay can
run out of hops with the recipient out of reach, and can send a drained copy back to
the one it came from: two of the ways in which the code loses a last copy.
Retries are cut from eight to two and the backoff base to one tick: the code only
compares them. On the server each socket connects once and two sockets of one user are
enough for two flushes to overlap and for presence to pass from one to the other; two
messages are enough for an order, a group of two for a fan-out that goes on after an
absent member. `MaxRestart` is one: what a crash leaves behind meets a whole new life of
the process. On the phone, three calls over one key are enough to write from an old copy
and to exceed a relay queue of two (`MaxRelay`, 512 in the code), and each outgoing alert
brings two tasks, its own and its acknowledgement's.

In the three newer modules a scenario gives each environment event a number of times it may
happen and is chosen in `Init`, so one run covers several questions without their product.
For Nearby one endpoint is enough, since no handler relates two; a buffer of two
(`MaxPending`, 100 in the code) overflows. For the web client two browsers are the two ends
of a session and the two rivals for a name, three calls let one overlap two others, two
operations overlap a send with a send or a receive, and two prekeys (`MaxPrekeys`, 10) run
out. For BLE a pair of devices with both directions between them is where the code meets
itself; there is no multi-hop state in the transport.

Deadlock is not checked: a network, a server or a phone where every bounded event has
happened and every call has ended has nothing left to do.

Fairness. `AppFairness` is weak fairness of handling what has arrived, of the promise
continuation that follows `outbox.upsert`, and of time: JavaScript runs every callback
whose event has been delivered. The user, the radio and the operating system get none,
and neither does `drain`, which the application never calls. On the server, `Fairness` is
weak fairness of `Reply`, that Redis answers and the event loop runs the continuation,
and of `Receive`, that an open connection carries what was emitted. An error that Redis
answers with is not modelled; `EveryRecipientIsServed` excludes runs with a crash of the
server, which the fan-out does not survive.

In `NearbyRuntime` the two threads and the Nearby tasks are weakly fair: a queue is worked
off and a task answers. The user, the system and the radio promise nothing, which is why
`StartSucceeds` names them. In `WebAccounts` the turns of `connectTransport` and the
reconnection of socket.io are. In `BleMesh` one weak fairness covers scan results, callbacks
and what is on the air: the Bluetooth systems go on as long as there is something to do.

## 4. The proofs

The theorems hold for every value of the constants that the named assumption of the module
admits, and those assumptions say no more than what a constant is (a function, a number, a
name that is not another's). TLC evaluates each of them. Most inductive invariants below were
first checked by TLC as an invariant of the instances of section 3 or of larger ones (up to
2.2 million states), where they failed more than once; what they then needed is what is told here.

**The mesh** (`MeshNetworkProofs`, `MeshCopiesProofs`), for every set of devices and topology.

- `TypeCorrect`: `TypeOK`.
- `EvidenceCorrect`: `DeliveredIsEvidence`, with `OnlyRecipientStores` and `Provenance`.
  `DeliveredIsEvidence` is not inductive: an acknowledgement on the wire has to be
  genuine, hence `Provenance` of every copy wherever it waits, hence that only the
  recipient creates one, after it has decrypted the message and stored its alert
  (`ReceivedStays`). `EvidenceInv` is their
  conjunction with `TypeOK`; `ProvenanceCorrect` names `Provenance` alone.
- `CopiesCorrect`: `LastHopIsSender`, with `HopBudget`, which has no run. The invariant
  `FitInv` adds that a packet's hop count stays within its limit wherever it waits, an
  announcement frame included.
- `ShownOnceCorrect`: `ShownOnce`, with `EvidenceInv` for the id under which a message
  is filtered.
- `QueueDurable`: the action property `QueueIsDurable`. A record that another takes the place
  of could otherwise count its attempts from the start, so a queue has one record for a packet
  id (`OneRecord`). And drain decides on what it has read: what it has still to look at is in
  the queue with the same attempts (`DrainInv`), since only the drain itself takes records away.
- `NoBounceCorrect`: `NoBounceBack` of `AppSpec`, the application, in which nothing drains
  (with a drain it is false: the stored copy no longer knows its link). A device holds a
  packet id in one place, wire, pending send or queue (`SingleCopy`), and an id not given yet
  is nowhere (`NameInv`); `TravelInv` is their conjunction.
- `CustodyKept`: the action property `CustodyIsKept`: while a message is neither expired nor
  received, a step takes its last copy only in the ways `GivenUp` names: the radio, a spent
  retry budget, a link that had closed, the removal of a drained record after it was sent, the
  author's crash before the first send, and a device that refuses the frame because it has
  seen the message, made it, or finds its hops spent. An author or a relay without a route, or
  whose send failed, is not among them: it keeps the copy. A copy
  is known by its id and expires when the outbox record says (`CarryInv`), so one that is
  dropped as expired belongs to a message that is; and the queue that refuses a packet for
  its attempts holds a record of it (`SendOrQueueHolds`).

**Packets and devices** (`AlertExchangeProofs`), without a run of their own: their conclusions
are about terms that TLC could only enumerate for a handful of packets (an instance with two
devices and 350,000 states was checked).

- `RelayedReadsTheSame`: `relayPacket` yields a packet again, within the size
  limit, that decrypts and verifies as the original does. `WrittenIsRead`: what a device seals
  for a reader, the reader decrypts until it expires; `AnswerIsVerified` says that of
  acknowledgements. Their hypotheses are the code's own checks (`CanEncrypt`,
  `CanAcknowledge`) and that ids, keys and hashes are not empty.
- `ShownCorrect`, `DeliveredCorrect`: a message shown was written by the device it names for
  the one that shows it, with this text and alert; one held for delivered has been shown. No
  assumption about the constants. The invariant `ExchangeInv` is `Shape` of the stored
  records, `RecordsInv` (who wrote, signed and answered what) and the two properties: a packet
  that decrypts carries a signature, some device made it, and the two signed texts differ in
  their first field, so the device has the record of just this message.
- `FilterCorrect`: one process takes in an id twice only after the retention or after
  `MaxEntries` others. An entry that is no longer held is too old or has that many behind it
  (`HeldOrOld`).

**The relay server** (`ServerRelayProofs`), for all users, sockets, messages and groups.

- `RelayTypeCorrect`: `TypeOK`: no user is kept or handed a message addressed to somebody
  else, through presence, lists, continuations and flushes. `PresenceCorrect`:
  `PresenceFollowsLatest`, inductive together with it.
- `RelayImplementsMailbox`: `ServerRelay` implements `Mailbox`. The abstract state `Fate(d)`
  is computed from six places, so each step has to be shown to change it for the deliveries of
  one fan-out or flush alone. `MailInv` (proved by `MailInvCorrect`) says enough for that:
  what is anywhere was accepted (`KnownInv`), a message has one fan-out, which comes to a
  recipient once (`LoopInv`), and what it has still ahead is nowhere else, what a flush has
  read was stored (`PlaceInv`).
- `DirectOrderCorrect`: `DirectKeepsOrder`, by `OrderInv`: each list holds direct messages in
  the order of acceptance, and what is about to be pushed comes after all of it. It is about
  the list alone: a message emitted during a flush overtakes on the socket what still waits.
- `OncePerUserCorrect`: `OncePerUser`. A user without overlapping flushes has one flush under
  way (`SoleFlush`), what was emitted is gone from store and list (`GoneInv`) and what can
  still be emitted is in one place (`ReachInv`).

**A phone's records** (`DeviceRecordsProofs`), for every interleaving of calls.

- `RecordsTypeCorrect`: `TypeOK`: one record for an id in every stored list, the relay queue
  within its limit, once the copies that tasks hold have one record for an id too (`TypeInv`),
  by lemmas about `upsert` and the slice.
- `AckCorrect`: `AckIsRecorded`. Every task stays on the path of its kind (`PathInv`); a
  message leaves, and its acknowledgement starts, only after `queueMessage` has left its
  outbox write behind (`OrderInv`); and while no outbox write was made from an old copy, a
  message that may leave has a record, which the acknowledgement's list contains
  (`OutboxInv`). Then the only call that would write queued over it has finished writing.
- `RelayCorrect`: `RelayKeepsNewest`. A packet is put in the queue once and so appended
  (`QueuedInv`): the slice drops the oldest.
- `StatusCorrect`, `ScreenCorrect`: `StatusAgrees` and `ScreenIsStored`. `StatusInv` says for
  each message which of outbox, alerts, chat and screen may be ahead at each await of its two
  calls (`MessageInv`), and the same for each alert received (`ReceivedInv`). `AgreesInv` adds,
  while no write was made from an old copy, that the outbox is the first to say delivered
  and what a call that has ended left (`AgreeInv`).

**The Nearby runtime** (`NearbyRuntimeProofs`), for any endpoints, buffer and budget of calls,
kills, swipes and restarts.

- `TypeCorrect`: `TypeOK`, the bound of the buffer included.
- `LastCallCorrect`, `RunsCorrect`: `LastCallWins` and `RunsInService`. The main thread's queue
  may hold the intents of several services; its shape (`QueueInv`) is that a service is
  created only behind the end of the one before, that intents have a service, and that the
  system has a service as started exactly when one lives at the end of the queue. From the
  queue follows what will be saved when it has been handled (`SavedInv`), which is what the
  last call asked for; and unless a start crossed a stop, no start waits behind one and what
  runs has a service (`CrossInv`).
  The attempt to prove `RunsInService` from an earlier form of the model failed at two STOPs
  that overlap: a second one, handled by an object already stopped, brought the next service
  down. The system does not do that, and the model no longer does (`BroughtDown`, `Current`).
- `HeardCorrect`: `HeardInOrder`, by `EventsInv`: what is kept for a detached application is
  newer than what it has heard and has no gap but lost events (`KeptInv`), and a list that is
  about to be written is the kept one unless a drain raced it (`CopyInv`).
- `ViewCorrect`: `ViewMatches`. The newest word on an endpoint, wherever it is (the last report
  in the main thread's queue, else the event being emitted, else the last one kept, else what
  the provider shows), says connected only if its link is open, and says it then unless
  discovery has spoken since (`MatchedInv`, with the two bounds `may` and `must`); only a
  stop the provider has called may be ahead of it, between its two steps. That needs the order
  of the calls, since a stop comes after an attachment that emptied the buffer (`CallInv`), and
  that a service that is brought down leaves events only of endpoints that are late (`LateInv`).
  The property was once an equivalence, in a model whose endpoints were found before they
  connected and not lost while connected; the callbacks promise neither.

**Bluetooth** (`BleMeshProofs`), for any devices, any lengths and chunk size, any budget of
lost chunks, broken connections, stops and deaths.

- `TypeCorrect`: `TypeOK`, by `TypeInv`: the variables' ranges, what the air may hold of whom
  (`AirInv`), that parts wait under their own link, id and place (`FiledInv`), and what a
  connection's state says of its two ends (`LinkInv`).
- `AnswerCorrect`: `AnswerableLinks`. An iPhone's subscription is at the peripheral or on the
  way ahead of every chunk (`AskedInv`), so whoever hears its announcement can notify it.
- `WholeCorrect`: `FramesWhole`. Every chunk under way or arrived is cut from a frame of its
  length (`Cut1`) that its sender has made, and as long as the ids do not begin again they go up
  with the frames (`FrameInv`): a call that has read the counter holds its present value, so parts with one link, id and life are of one frame. That they are then as
  long as the frame is `SizeWhole`: the sizes of ceil(n / c) chunks add up to n, proved by a
  bijection of the bytes of the frame with the bytes of the chunks.
- `DeliveryCorrect`: `CompleteIsDelivered`, by `ArrivalInv`: of a frame that is not delivered,
  the parts that wait are all that have arrived, and they are not all of it. A chunk that
  arrives then either completes the frame, whose length is right by `SizeExact`, or waits.

**The web client** (`WebProofs`), over `WebSessions`, for any browsers, users and calls. Of the
messages only one step matters to accounts: a send takes a prekey (`Aside`).

- `OwnerCorrect`: `AccountStaysWithOwner`. Once an identity is stored every call of the browser
  uses its key (`KeysInv`), and of the calls before that one generates it, unless two have read
  none (`FirstInv`).
- `PrekeysCorrect`: `PrekeysMatch`: a name with an identity has sent its prekeys or a call is
  about to (`SentInv`), unless the upload was lost. A browser that took a prekey keeps a session
  with the user, or is about to, so it takes no second one, and left and taken add up
  (`TakersInv`). It rests on the invariants of `FreshCorrect` and `ReadCorrect` about
  what an operation loads.
- `TabCorrect`: `TabMatchesSockets`. Until calls overlap, a browser has one call under way or
  one socket that is not closed (`OneInv`), and the module's variables are about it (`HeldInv`,
  `SpokenInv`).
- `TypeCorrect`: `TypeOK`: a session that still offers its prekey has read nothing, a prekey
  message travels on the chain that is its tag, and a message that waits has not been handled.
  It follows from `MessagesInv`: what an operation holds at each of its turns, the addressee
  of everything that waits, and that every chain named anywhere exists.
- `FreshCorrect`: `FreshKeys`: no two messages use one key unless their session is spoiled.
  Two operations hold one session only to read, or it is spoiled (`ExclusiveInv`); a chain is
  sent on in one place (`HomeInv`); every copy of a session, in the store or in an operation's
  hands, has counted past every key used on its chain (`BoundInv`); so the keys sent and those
  about to be sent differ (`OnceInv`). The proof set the form of the property: with `spoiled`
  by pairs of users `ExclusiveInv` is not inductive, because a browser that changes its user
  between `encrypt` and `emit` sends as the one what was tangled as the other. It is
  therefore by browser and peer, as the sessions are in the browser's storage.
- `ReadCorrect`: `EveryMessageRead`: between two users with a browser each, whose session
  nothing has spoiled, no message fails. It rests on three layers. *Who*: a send, a handler, a
  message and a bundle are of a browser with an identity of the user's name (`WhoInv`), what
  waits is not to its own sender (`SelfInv`) and has one handler, once (`HandlerInv`). *One
  end*: an unspoiled operation holds what is stored (`LoadedInv`); what a copy has read on a
  chain was decrypted by a handler, and the chain that it answers is one it has read
  (`CopyInv`); who has said or read something keeps the session (`SaidInv`, `ReadersInv`).
  *Two ends* (`PairInv`): of the copies and messages of the two, as sets, `Talk` says that they
  have one tag, that as long as one end keeps nothing the other says prekey messages only, and
  that everything said is on a chain the reader's every copy knows or on one that answers the
  copy's own. `Talk` is preserved by what a step can do to those sets (`TalkEncrypts`,
  `TalkBegins`, `TalkReads` and the others), and every step of the system does one of these
  (`CopySteps`). A message is then refused only if its counter was read before, which
  `OnceInv` and `HandlerInv` exclude. `SelfInv` could not be proved of an earlier form of
  the model, in which a member that disconnected during a group send got its own message back;
  the client (`index.ts:214`) and the server (`socket.ts:94`) both leave the sender out, and
  the model now does (`SkipMyself`, `Relayed`).

**Checked by TLC only.** Liveness (`QueuedIsDelivered`, `EveryRecipientIsServed`,
`FlushGoesThrough`, `StartSucceeds`, `LoginSucceeds`, `HeardAtLast` and the rest) rests on
fairness, which is out of the prover's reach.

## 5. What is not modelled

The user interface, notifications, readiness checks and formatting keep no state the
properties speak of. The primitives of libsodium and Proteus are taken to keep their promise;
what the code makes of them is modelled. `nextDeliveryState` of the domain package has no
caller. The relay event log of a phone is for diagnostics and nothing reads it back. A JSON
text is a set of fields, not bytes: how a number or a string is written is left out, and so
is the order of fields, which no reader looks at. Frame ids and event numbers do not wrap
around. `openBatterySettings` and `getReadiness` change nothing.

## 6. What the code does that it should not

Two runs show a disagreement with what the repository says of itself:

- `relay_lost`: `flushMessages` deletes the whole list, keys pushed since its `lrange`
  included; such a message is stored and never found.
- `ble_verified`: an iPhone that has verified a peer on one connection shows it as
  unverified again when the other direction reports a peer event, and the announcement that
  follows is dropped as a duplicate, since it keeps its packet id for the whole of one
  `startMesh`. A reconnection over Nearby has the same effect.

The models also contain, and their properties leave out by name, what follows. None of it is
refuted by a run that expects a violation, because no sentence of the repository promises it;
none of it is covered either.

Mesh and storage:

- nothing in the application calls `drain`: a record in the relay queue is neither sent
  again, nor expired, nor removed (`mesh_custody` shows what `drain` would do); and a drained
  record can go back to the device it came from, which drops it as a duplicate while the relay
  removes its copy (`GivenUp`);
- a packet whose hops are spent, a spent retry budget and a payload handed to a link that had
  closed leave no record (`GivenUp`); after a restart a device shows and acknowledges again
  what it has shown before;
- two `upsert`s of one storage key that overlap lose one of the two records (`stale`);
- an acknowledgement handled before its `queueMessage` has ended, or torn by a crash between
  its two writes, leaves the stored alert queued for ever (`early`, a call that does not end).

Server:

- two flushes of one user at once emit a message twice (`overlapped`); group messages overtake
  each other, and a message emitted during a flush overtakes those that wait (the order of
  the list says nothing of the order on the socket);
- a crash between `setex` and `rpush` leaves a key no list names, and one in the middle of a
  fan-out loses the members after the awaited one: the abstract `Mailbox` allows both.

Nearby runtime:

- a start that crosses a waiting STOP runs without its service; a swiped task re-issues a
  start behind a stop; a failed start is not retried because `running` is set (`crossed`,
  `failed`);
- an emission that races a drain is heard late, or the events read with it a second time (`raced`);
- a connection initiated while the user stops crashes the process (`Crash`); events kept
  across a death are replayed although their links are gone (`late`);
- discovery and connection share one state of the view: a find, a loss or a late answer
  to a request hides a link that is open (`masked`).

Web client:

- two first messages that cross cannot be read; overlapping sends of one session use one
  key (`spoiled`);
- prekeys are sent once and never again, after the server has lost them or ten peers have
  used them up, and a send that fails after its request wastes one (`lacking`);
- two overlapping first calls can lock a browser out of its name (`twofold`); a call while
  the socket is out opens a second one (`doubled`).

Bluetooth:

- frame ids begin again when a process dies, and are used twice when two threads number frames
  at once: chunks of two frames can then be put together (`life`);
- an Android central does not write the peripheral's descriptor, so the peripheral cannot
  answer it by notification; an iPhone does not connect again after a broken connection
  until its mesh is restarted.
