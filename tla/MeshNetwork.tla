---------------------------- MODULE MeshNetwork ----------------------------
(***************************************************************************)
(* A network of devices running SanketlyProvider and MeshEngine            *)
(* (mobile/lib/sanketly-provider.tsx, mobile/lib/mesh/mesh-engine.ts): an  *)
(* alert travels hop by hop to its recipient, the recipient's signed       *)
(* acknowledgement travels back, and every device keeps a duplicate filter *)
(* that dies with the process and a relay queue that does not.             *)
(*                                                                         *)
(* One step is one JavaScript turn that the others cannot see half of,     *)
(* except that a created packet waits in pendingSend until engine.send     *)
(* runs and a drained record waits in sending until it is removed: the     *)
(* process may die in between.  The awaits inside the storage calls are    *)
(* the subject of another module.                                          *)
(***************************************************************************)
EXTENDS MeshRouting

CONSTANTS
    From, To,        \* the author and the recipient of each message
    Alerting,        \* messages whose body is a structured alert; the others are plain text
    Link,            \* pairs of devices that can come into radio range
    InitialBinding,  \* <<n, l, p>>: at the start n holds link l verified as p
    MessageTtl,      \* expiresAt - createdAt of queueMessage, in ticks
    AckTtl,          \* ttlMs default of createAcknowledgementPacket
    AnnounceTtl,     \* ttlMs default of createAnnouncePacket
    MaxTime,         \* bound: the clock stops here
    MaxStarts,       \* bound: calls of startMesh per device
    MaxEnv        \* bound: how often each environment event may happen

EnvEvent == {"linkUp", "linkDown", "restart", "stop", "loss"}

ASSUME NetworkAssumption ==
    /\ From \in [Message -> Node] /\ To \in [Message -> Node]
    /\ \A m \in Message : From[m] # To[m]
    /\ Alerting \subseteq Message
    /\ Link \subseteq {pair \in SUBSET Node : \E a, b \in Node : a # b /\ pair = {a, b}}
    /\ InitialBinding \subseteq Node \X Node \X Node
    /\ MessageTtl \in Nat \ {0} /\ AckTtl \in Nat \ {0} /\ AnnounceTtl \in Nat \ {0}
    /\ MaxTime \in Nat /\ MaxStarts \in Nat
    /\ MaxEnv \in [EnvEvent -> Nat]

NoFrame == NoPeer

VARIABLES
    now,            \* the devices' clock (their clocks are taken to agree)
    native,         \* SsaNearbyRuntime of each device: no saved configuration, a saved
                    \* configuration but no transport, or a running transport
    stopping,       \* devices whose stopMesh awaits the native stop (volatile)
    up,             \* links the native transports currently hold open
    events,         \* events[n][l]: last native peer event JavaScript has not handled
    wire,           \* frames a transport carries or JavaScript has not handled yet
    peers,          \* peersRef of each device
    announceFrame,  \* announceFrameRef of each device
    starts,         \* announcements each device has created
    seen,           \* DeduplicationCache of each device (volatile)
    queue,          \* sanketly.relay-queue.v1 of each device (durable)
    draining,       \* what a running drain has read and not looked at yet (volatile)
    sending,        \* ids whose drained copy was sent and not yet removed (volatile)
    pendingSend,    \* packets created whose engine.send has not run yet (volatile)
    outbox,         \* sanketly.outbox.v1: the record of each message (durable)
    alerts,         \* messages written to sanketly.alerts.v1 (durable)
    shown,          \* copies of each message in the messages state (volatile)
    ackCount,       \* acknowledgements created for each message
    cameFrom,       \* history: the link each relayed packet last came in by
    excused,        \* history: packet ids of which the radio lost a copy or a retry budget was spent
    swallowed,      \* history: packet ids handed to a link that was already closed
    happened        \* how often each environment event happened

linkVars   == <<native, stopping, up, events, peers, announceFrame, starts>>
drainVars  == <<draining, sending>>
stateVars  == <<seen, drainVars, pendingSend>>
recordVars == <<outbox, alerts, shown, ackCount>>
historyVars == <<cameFrom, excused, swallowed>>
vars == <<now, linkVars, wire, queue, stateVars, recordVars, historyVars, happened>>

Frame == [from: Node, to: Node, packet: Packet]
QueueRecord == [packet: Packet, attempts: Nat, nextAttemptAt: Int]
DrainCall == [left: SUBSET QueueRecord, at: Nat, table: PeerTable]
OutboxRecord == [state: {"none", "queued", "delivered"}, expiresAt: Nat]

TypeOK ==
    /\ now \in Nat
    /\ native \in [Node -> {"stopped", "configured", "running"}]
    /\ stopping \subseteq Node
    /\ up \subseteq Link
    /\ events \in [Node -> [Node -> {"none", "connected", "disconnected"}]]
    /\ wire \subseteq Frame
    /\ peers \in [Node -> PeerTable]
    /\ announceFrame \in [Node -> Packet \cup {NoFrame}]
    /\ starts \in [Node -> Nat]
    /\ seen \in [Node -> SUBSET PacketId]
    /\ queue \in [Node -> SUBSET QueueRecord]
    /\ draining \in [Node -> DrainCall]
    /\ sending \in [Node -> SUBSET PacketId]
    /\ pendingSend \in [Node -> SUBSET Packet]
    /\ outbox \in [Message -> OutboxRecord]
    /\ alerts \in [Node -> SUBSET Message]
    /\ shown \in [Node -> [Message -> Nat]]
    /\ ackCount \in [Message -> Nat]
    /\ cameFrom \in [Node -> SUBSET [id: PacketId, link: Node]]
    /\ excused \subseteq PacketId
    /\ swallowed \subseteq PacketId
    /\ happened \in [EnvEvent -> Nat]

-----------------------------------------------------------------------------
Happens(kind) ==
    /\ happened[kind] < MaxEnv[kind]
    /\ happened' = [happened EXCEPT ![kind] = @ + 1]

Open(n, l) == {n, l} \in up

Running(n) == native[n] = "running"

OnLink(a, b) == {f \in wire : {f.from, f.to} = {a, b}}
OfDevice(n)  == {f \in wire : n \in {f.from, f.to}}
IdsOf(frames) == {f.packet.id : f \in frames}

FrameTo(n, l, p) == [from |-> n, to |-> l, packet |-> p]

NoEntries == [l \in Node |-> NoPeer]
NoDrain   == [left |-> {}, at |-> 0, table |-> NoEntries]

\* The announcement a device made before the first state, when it has bindings then.
FirstAnnounce(n) == AnnouncePacket(n, 0, AnnounceTtl)

BoundBy(n)  == {b \in InitialBinding : b[1] = n}

Init ==
    /\ now = 0
    /\ native = [n \in Node |-> IF BoundBy(n) = {} THEN "stopped" ELSE "running"]
    /\ stopping = {}
    /\ up = {pair \in Link : \E b \in InitialBinding : pair = {b[1], b[2]}}
    /\ events = [n \in Node |-> [l \in Node |-> "none"]]
    /\ wire = {}
    /\ peers = [n \in Node |-> [l \in Node |->
                  IF \E b \in BoundBy(n) : b[2] = l
                  THEN (CHOOSE b \in BoundBy(n) : b[2] = l)[3] ELSE NoPeer]]
    /\ announceFrame = [n \in Node |-> IF BoundBy(n) = {} THEN NoFrame ELSE FirstAnnounce(n)]
    /\ starts = [n \in Node |-> 0]
    /\ seen = [n \in Node |-> {FirstAnnounce(b[3]).id : b \in BoundBy(n)}]
    /\ queue = [n \in Node |-> {}]
    /\ draining = [n \in Node |-> NoDrain]
    /\ sending = [n \in Node |-> {}]
    /\ pendingSend = [n \in Node |-> {}]
    /\ outbox = [m \in Message |-> [state |-> "none", expiresAt |-> 0]]
    /\ alerts = [n \in Node |-> {}]
    /\ shown = [n \in Node |-> [m \in Message |-> 0]]
    /\ ackCount = [m \in Message |-> 0]
    /\ cameFrom = [n \in Node |-> {}]
    /\ excused = {} /\ swallowed = {}
    /\ happened = [kind \in EnvEvent |-> 0]

-----------------------------------------------------------------------------
\* NearbyNative.sendPayload.  It throws only when the device's own transport does not
\* run; a payload for a link that has closed is taken and lost, and the failure reaches
\* nobody but the status line.  rest is what the handler leaves on the wire.
Send(n, links, p, rest) ==
    /\ Running(n)
    /\ \E l \in links :
          IF Open(n, l)
          THEN wire' = rest \cup {FrameTo(n, l, p)} /\ UNCHANGED swallowed
          ELSE wire' = rest /\ swallowed' = swallowed \cup {p.id}

\* MeshEngine.sendOrQueue: hand the packet to the chosen link, or store it.
StoredAttempts(n, id) ==
    LET stored == {r \in queue[n] : r.packet.id = id}
    IN  IF stored = {} THEN 0 ELSE (CHOOSE r \in stored : TRUE).attempts

Without(n, id) == {r \in queue[n] : r.packet.id # id}

\* Mutant: a packet with one hop left is not stored.
Store_NotLastHop(n, p) ==
    LET attempts == StoredAttempts(n, p.id)
    IN  queue' = IF attempts >= MaxRelayAttempts \/ p.hopCount + 1 >= p.hopLimit
                 THEN queue
                 ELSE [queue EXCEPT ![n] = Without(n, p.id) \cup
                         {[packet |-> p, attempts |-> attempts,
                           nextAttemptAt |-> NextRelayAttemptAt(attempts, now)]}]

Store(n, p) ==
    LET attempts == StoredAttempts(n, p.id)
    IN  queue' = IF attempts >= MaxRelayAttempts \/ p.hopCount >= p.hopLimit
                 THEN queue
                 ELSE [queue EXCEPT ![n] = Without(n, p.id) \cup
                         {[packet |-> p, attempts |-> attempts,
                           nextAttemptAt |-> NextRelayAttemptAt(attempts, now)]}]

\* Mutant: a packet whose send failed is not stored.
SendOrQueue_DropsFailedSend(n, p, excluded, rest) ==
    LET hops == NextHops(p, peers[n], n, excluded, now)
    IN  \/ /\ p.expiresAt <= now \/ (hops # {} /\ ~Running(n))
           /\ wire' = rest
           /\ UNCHANGED <<queue, swallowed>>
        \/ /\ p.expiresAt > now
           /\ Send(n, hops, p, rest)
           /\ UNCHANGED queue
        \/ /\ p.expiresAt > now /\ hops = {}
           /\ wire' = rest
           /\ Store(n, p)
           /\ UNCHANGED swallowed

SendOrQueue(n, p, excluded, rest) ==
    LET hops == NextHops(p, peers[n], n, excluded, now)
    IN  \/ /\ p.expiresAt <= now
           /\ wire' = rest
           /\ UNCHANGED <<queue, swallowed>>
        \/ /\ p.expiresAt > now
           /\ Send(n, hops, p, rest)
           /\ UNCHANGED queue
        \/ /\ p.expiresAt > now
           /\ hops = {} \/ ~Running(n)
           /\ wire' = rest
           /\ Store(n, p)
           /\ UNCHANGED swallowed

-----------------------------------------------------------------------------
\* queueMessage up to outbox.upsert; the engine.send that follows is SendPending.
QueueMessage(m) ==
    LET n == From[m]
    IN  /\ outbox[m].state = "none"
        /\ \E l \in Node : peers[n][l] = To[m]
        /\ outbox' = [outbox EXCEPT ![m] = [state |-> "queued", expiresAt |-> now + MessageTtl]]
        /\ pendingSend' = [pendingSend EXCEPT ![n] =
                             @ \cup {MessagePacket(m, n, To[m], now + MessageTtl)}]
        /\ UNCHANGED <<now, linkVars, wire, queue, seen, drainVars, alerts, shown, ackCount, historyVars, happened>>

\* Mutant: the transport's acceptance of the bytes counts as delivery.
SendPending_IsDelivery(n, p) ==
    /\ p \in pendingSend[n]
    /\ pendingSend' = [pendingSend EXCEPT ![n] = @ \ {p}]
    /\ SendOrQueue(n, p, NoLink, wire)
    /\ outbox' = IF p.type = "message" THEN [outbox EXCEPT ![p.messageId].state = "delivered"] ELSE outbox
    /\ UNCHANGED <<now, linkVars, seen, drainVars, alerts, shown, ackCount, cameFrom, excused, happened>>

\* MeshEngine.send, called by queueMessage and by sendAcknowledgement.
SendPending(n, p) ==
    /\ p \in pendingSend[n]
    /\ pendingSend' = [pendingSend EXCEPT ![n] = @ \ {p}]
    /\ SendOrQueue(n, p, NoLink, wire)
    /\ UNCHANGED <<now, linkVars, seen, drainVars, recordVars, cameFrom, excused, happened>>

-----------------------------------------------------------------------------
\* MeshEngine.receive, one action for each way through it.  JavaScript gets the events
\* of a link in order, so a frame waits for the link's connected event.
Arrives(n, f) ==
    /\ f \in wire /\ f.to = n
    /\ events[n][f.from] # "connected"

\* Mutant: the packet is remembered but a remembered packet is not refused.
Accept_Duplicates(n, f) ==
    /\ Arrives(n, f)
    /\ seen' = [seen EXCEPT ![n] = @ \cup {f.packet.id}]

Accept(n, f) ==
    /\ Arrives(n, f)
    /\ f.packet.id \notin seen[n]
    /\ seen' = [seen EXCEPT ![n] = @ \cup {f.packet.id}]

ReceiveDuplicate(n, f) ==
    /\ Arrives(n, f)
    /\ f.packet.id \in seen[n]
    /\ wire' = wire \ {f}
    /\ UNCHANGED <<now, linkVars, queue, stateVars, recordVars, historyVars, happened>>

\* The end of receive: relay what is for somebody else and has hops left.
RelayOnward(n, f) ==
    IF ShouldRelay(f.packet, n, now)
    THEN SendOrQueue(n, RelayPacket(f.packet, n), f.from, wire \ {f})
    ELSE wire' = wire \ {f} /\ UNCHANGED <<queue, swallowed>>

\* handleAnnounce: the link is bound to the announcement's author, whoever carried it,
\* and no other entry keeps that peer id.
Bind(table, link, peer) ==
    [l \in Node |-> IF l = link THEN peer
                    ELSE IF table[l] = peer THEN NoPeer ELSE table[l]]

ReceiveAnnounce(n, f) ==
    /\ f.packet.type = "announce"
    /\ Accept(n, f)
    /\ peers' = [peers EXCEPT ![n] = Bind(@, f.from, f.packet.sender)]
    /\ RelayOnward(n, f)
    /\ UNCHANGED <<now, native, stopping, up, events, announceFrame, starts, drainVars,
                   pendingSend, recordVars, cameFrom, excused, happened>>

RelayFrame(n, f) ==
    /\ f.packet.type \in {"message", "ack"} /\ f.packet.recipient # n
    /\ Accept(n, f)
    /\ RelayOnward(n, f)
    /\ cameFrom' = [cameFrom EXCEPT ![n] = {c \in @ : c.id # f.packet.id}
                                          \cup {[id |-> f.packet.id, link |-> f.from]}]
    /\ UNCHANGED <<now, linkVars, drainVars, pendingSend, recordVars, excused, happened>>

\* decryptMeshPacket and handleDecryptedMessage: an alert is stored, a plain text is only
\* shown, and either is acknowledged by SendPending.  An expired message is an error after
\* it was remembered.
ReceiveMessage(n, f) ==
    LET p == f.packet
        m == p.messageId
        expiry == IF p.expiresAt < now + AckTtl THEN p.expiresAt ELSE now + AckTtl
    IN  /\ p.type = "message" /\ p.recipient = n
        /\ Accept(n, f)
        /\ wire' = wire \ {f}
        /\ IF p.expiresAt <= now THEN UNCHANGED <<alerts, shown, ackCount, pendingSend>>
           ELSE /\ alerts' = [alerts EXCEPT ![n] = @ \cup ({m} \cap Alerting)]
                /\ shown' = [shown EXCEPT ![n][m] = @ + 1]
                /\ ackCount' = [ackCount EXCEPT ![m] = @ + 1]
                /\ pendingSend' = [pendingSend EXCEPT ![n] = @ \cup {AckPacket(p, ackCount[m], expiry)}]
        /\ UNCHANGED <<now, linkVars, queue, drainVars, outbox, historyVars, happened>>

\* verifyAcknowledgementPacket and handleAcknowledgement.
ReceiveAck(n, f) ==
    LET p == f.packet
        m == p.messageId
    IN  /\ p.type = "ack" /\ p.recipient = n
        /\ Accept(n, f)
        /\ wire' = wire \ {f}
        /\ outbox' = IF /\ p.expiresAt > now
                        /\ outbox[m].state # "none" /\ From[m] = n /\ To[m] = p.sender
                     THEN [outbox EXCEPT ![m].state = "delivered"] ELSE outbox
        /\ UNCHANGED <<now, linkVars, queue, drainVars, pendingSend, alerts, shown, ackCount, historyVars, happened>>

-----------------------------------------------------------------------------
\* MeshEngine.drain: it reads the queue once and goes through what it read with the time and
\* the peers of its call, one record after the other.  No code under mobile/ calls it.
DrainStart(n) ==
    /\ draining[n].left = {} /\ sending[n] = {} /\ queue[n] # {}
    /\ draining' = [draining EXCEPT ![n] = [left |-> queue[n], at |-> now, table |-> peers[n]]]
    /\ UNCHANGED <<now, linkVars, wire, queue, seen, sending, pendingSend, recordVars, historyVars, happened>>

AfterTurn(call, r) ==
    IF call.left = {r} THEN NoDrain ELSE [call EXCEPT !.left = call.left \ {r}]

\* The turn of the record r of the list that was read.
Turn(n, r) ==
    /\ r \in draining[n].left /\ sending[n] = {}
    /\ draining' = [draining EXCEPT ![n] = AfterTurn(@, r)]

DrainHops(n, r) == NextHops(r.packet, draining[n].table, n, NoLink, draining[n].at)

Due(n, r) ==
    /\ Turn(n, r)
    /\ r.packet.expiresAt > draining[n].at /\ r.nextAttemptAt <= draining[n].at

DrainExpired(n, r) ==
    /\ Turn(n, r)
    /\ r.packet.expiresAt <= draining[n].at
    /\ queue' = [queue EXCEPT ![n] = Without(n, r.packet.id)]
    /\ UNCHANGED <<now, linkVars, wire, seen, sending, pendingSend, recordVars, historyVars, happened>>

DrainSkip(n, r) ==
    /\ Turn(n, r)
    /\ r.packet.expiresAt > draining[n].at
    /\ r.nextAttemptAt > draining[n].at \/ DrainHops(n, r) = {}
    /\ UNCHANGED <<now, linkVars, wire, queue, seen, sending, pendingSend, recordVars, historyVars, happened>>

DrainSend(n, r) ==
    /\ Due(n, r)
    /\ Send(n, DrainHops(n, r), r.packet, wire)
    /\ sending' = [sending EXCEPT ![n] = @ \cup {r.packet.id}]
    /\ UNCHANGED <<now, linkVars, queue, seen, pendingSend, recordVars, cameFrom, excused, happened>>

DrainRemove(n, id) ==
    /\ id \in sending[n]
    /\ sending' = [sending EXCEPT ![n] = @ \ {id}]
    /\ queue' = [queue EXCEPT ![n] = Without(n, id)]
    /\ UNCHANGED <<now, linkVars, wire, seen, draining, pendingSend, recordVars, historyVars, happened>>

\* Mutant: the first failed attempt gives the record up.
DrainFail_GivesUp(n, r) ==
    /\ Due(n, r)
    /\ DrainHops(n, r) # {} /\ ~Running(n)
    /\ queue' = [queue EXCEPT ![n] = Without(n, r.packet.id)]
    /\ UNCHANGED <<now, linkVars, wire, seen, sending, pendingSend, recordVars, historyVars, happened>>

DrainFail(n, r) ==
    LET attempts == r.attempts + 1
        retried  == [r EXCEPT !.attempts = attempts,
                              !.nextAttemptAt = NextRelayAttemptAt(attempts, draining[n].at)]
    IN  /\ Due(n, r)
        /\ DrainHops(n, r) # {} /\ ~Running(n)
        /\ IF attempts >= MaxRelayAttempts
           THEN /\ queue' = [queue EXCEPT ![n] = Without(n, r.packet.id)]
                /\ excused' = excused \cup {r.packet.id}
           ELSE /\ queue' = [queue EXCEPT ![n] = Without(n, r.packet.id) \cup {retried}]
                /\ UNCHANGED excused
        /\ UNCHANGED <<now, linkVars, wire, seen, sending, pendingSend, recordVars, cameFrom, swallowed, happened>>

-----------------------------------------------------------------------------
\* startMesh: a fresh announcement, handed to every link that connects from now on.  A
\* transport that runs already stays as it is; starting one fails with the radio off.
StartMesh(n) ==
    /\ starts[n] < MaxStarts
    /\ starts' = [starts EXCEPT ![n] = @ + 1]
    /\ announceFrame' = [announceFrame EXCEPT ![n] = AnnouncePacket(n, starts[n] + 1, now + AnnounceTtl)]
    /\ \E state \in {"configured", "running"} :
          /\ Running(n) => state = "running"
          /\ native' = [native EXCEPT ![n] = state]
    /\ UNCHANGED <<now, stopping, up, events, peers, wire, queue, stateVars, recordVars,
                   historyVars, happened>>

\* SsaNearbyForegroundService.onCreate after the process was recreated: the transport comes
\* back with the saved configuration, and no announcement exists yet.
RestartFromService(n) ==
    /\ native[n] = "configured"
    /\ native' = [native EXCEPT ![n] = "running"]
    /\ UNCHANGED <<now, stopping, up, events, peers, announceFrame, starts, wire, queue,
                   stateVars, recordVars, historyVars, happened>>

\* Nearby connects two devices whose transports run, or loses the link.
LinkUp(a, b) ==
    /\ Happens("linkUp")
    /\ {a, b} \in Link \ up
    /\ Running(a) /\ Running(b)
    /\ up' = up \cup {{a, b}}
    /\ events' = [events EXCEPT ![a][b] = "connected", ![b][a] = "connected"]
    /\ UNCHANGED <<now, native, stopping, peers, announceFrame, starts, wire, queue,
                   stateVars, recordVars, historyVars>>

LinkDown(a, b) ==
    /\ Happens("linkDown")
    /\ {a, b} \in up
    /\ up' = up \ {{a, b}}
    /\ events' = [events EXCEPT ![a][b] = "disconnected", ![b][a] = "disconnected"]
    /\ wire' = wire \ OnLink(a, b)
    /\ excused' = excused \cup IdsOf(OnLink(a, b))
    /\ UNCHANGED <<now, native, stopping, peers, announceFrame, starts, queue,
                   stateVars, recordVars, cameFrom, swallowed>>

\* handleNearbyEvent, a peer event: the entry starts over unverified, and a connected
\* link is sent the announcement.
PeerConnected(n, l) ==
    /\ events[n][l] = "connected"
    /\ events' = [events EXCEPT ![n][l] = "none"]
    /\ peers' = [peers EXCEPT ![n][l] = Unverified]
    /\ wire' = IF announceFrame[n] # NoFrame /\ Running(n) /\ Open(n, l)
               THEN wire \cup {FrameTo(n, l, announceFrame[n])} ELSE wire
    /\ UNCHANGED <<now, native, stopping, up, announceFrame, starts, queue, stateVars,
                   recordVars, historyVars, happened>>

PeerLost(n, l) ==
    /\ events[n][l] = "disconnected"
    /\ events' = [events EXCEPT ![n][l] = "none"]
    /\ peers' = [peers EXCEPT ![n][l] = NoPeer]
    /\ UNCHANGED <<now, native, stopping, up, announceFrame, starts, wire, queue, stateVars,
                   recordVars, historyVars, happened>>

\* All links of n close at once, with the frames in lost: the others learn of it.
Disconnect(n, lost) ==
    /\ up' = {pair \in up : n \notin pair}
    /\ events' = [a \in Node |-> [l \in Node |->
                    IF a = n THEN "none"
                    ELSE IF l = n /\ Open(a, n) THEN "disconnected" ELSE events[a][l]]]
    /\ wire' = wire \ lost
    /\ excused' = excused \cup IdsOf(lost)

\* stopMesh up to its await: SsaNearbyRuntime.stop closes every link and forgets the
\* configuration.  Payloads JavaScript has in its queue already are still handled; the
\* peer events there would be, too, but FinishStop makes up for them.
StopMesh(n) ==
    /\ Happens("stop")
    /\ native' = [native EXCEPT ![n] = "stopped"]
    /\ stopping' = stopping \cup {n}
    /\ \E arrived \in SUBSET {f \in wire : f.to = n} : Disconnect(n, OfDevice(n) \ arrived)
    /\ UNCHANGED <<now, peers, announceFrame, starts, queue, stateVars, recordVars, cameFrom, swallowed>>

\* The rest of stopMesh, after what was in the JavaScript queue before it.
FinishStop(n) ==
    /\ n \in stopping
    /\ ~ \E f \in wire : f.to = n /\ ~Open(n, f.from)
    /\ stopping' = stopping \ {n}
    /\ announceFrame' = [announceFrame EXCEPT ![n] = NoFrame]
    /\ peers' = [peers EXCEPT ![n] = NoEntries]
    /\ UNCHANGED <<now, native, up, events, starts, wire, queue, stateVars, recordVars,
                   historyVars, happened>>

\* The process dies and is started again: what was only in memory is gone.
Restart(n) ==
    /\ Happens("restart")
    /\ native' = [native EXCEPT ![n] = IF @ = "stopped" THEN "stopped" ELSE "configured"]
    /\ stopping' = stopping \ {n}
    /\ Disconnect(n, OfDevice(n))
    /\ peers' = [peers EXCEPT ![n] = NoEntries]
    /\ announceFrame' = [announceFrame EXCEPT ![n] = NoFrame]
    /\ seen' = [seen EXCEPT ![n] = {}]
    /\ draining' = [draining EXCEPT ![n] = NoDrain]
    /\ sending' = [sending EXCEPT ![n] = {}]
    /\ pendingSend' = [pendingSend EXCEPT ![n] = {}]
    /\ shown' = [shown EXCEPT ![n] = [m \in Message |-> 0]]
    /\ UNCHANGED <<now, starts, queue, outbox, alerts, ackCount, cameFrom, swallowed>>

\* A transport drops a frame it accepted (a BLE frame whose chunks did not all arrive).
LoseFrame(f) ==
    /\ Happens("loss")
    /\ f \in wire
    /\ wire' = wire \ {f}
    /\ excused' = excused \cup {f.packet.id}
    /\ UNCHANGED <<now, linkVars, queue, stateVars, recordVars, cameFrom, swallowed>>

Tick ==
    /\ now < MaxTime
    /\ now' = now + 1
    /\ UNCHANGED <<linkVars, wire, queue, stateVars, recordVars, historyVars, happened>>

-----------------------------------------------------------------------------
Receive(n, f) ==
    \/ ReceiveDuplicate(n, f) \/ ReceiveAnnounce(n, f) \/ RelayFrame(n, f)
    \/ ReceiveMessage(n, f)   \/ ReceiveAck(n, f)

Drain(n) ==
    \/ DrainStart(n)
    \/ \E r \in draining[n].left :
          DrainExpired(n, r) \/ DrainSkip(n, r) \/ DrainSend(n, r) \/ DrainFail(n, r)
    \/ \E id \in sending[n] : DrainRemove(n, id)

Environment ==
    \/ \E a, b \in Node : LinkUp(a, b) \/ LinkDown(a, b)
    \/ \E n \in Node : Restart(n) \/ RestartFromService(n) \/ StopMesh(n) \/ StartMesh(n)
    \/ \E f \in wire : LoseFrame(f)

\* What the application does: every handler, and no drain.
AppNext ==
    \/ \E m \in Message : QueueMessage(m)
    \/ \E n \in Node : \E p \in pendingSend[n] : SendPending(n, p)
    \/ \E f \in wire : Receive(f.to, f)
    \/ \E n, l \in Node : PeerConnected(n, l) \/ PeerLost(n, l)
    \/ \E n \in stopping : FinishStop(n)
    \/ Environment
    \/ Tick

\* The same with a caller of MeshEngine.drain.
Next == AppNext \/ \E n \in Node : Drain(n)

AppSpec == Init /\ [][AppNext]_vars
Spec    == Init /\ [][Next]_vars

\* The runtime keeps calling the handlers of what has happened; the user, the radio and
\* the operating system promise nothing.
AppFairness ==
    /\ \A n \in Node : WF_vars(\E p \in pendingSend[n] : SendPending(n, p))
    /\ \A n \in Node : WF_vars(\E f \in wire : Receive(n, f))
    /\ \A n, l \in Node : WF_vars(PeerConnected(n, l) \/ PeerLost(n, l))
    /\ \A n \in Node : WF_vars(FinishStop(n))
    /\ WF_vars(Tick)

FairAppSpec == AppSpec /\ AppFairness

-----------------------------------------------------------------------------
\* Every packet that exists, wherever it waits.
OnWire   == {f.packet : f \in wire}
Pending  == UNION {pendingSend[n] : n \in Node}
InQueues == UNION {{r.packet : r \in queue[n]} : n \in Node}
Copies   == OnWire \cup Pending \cup InQueues

MessageId(m) == [kind |-> "message", of |-> m, nr |-> 0]

\* The recipient has decrypted and acknowledged m, and has stored the alert m carries.
Received(m) == ackCount[m] > 0 /\ (m \in Alerting => m \in alerts[To[m]])

\* "delivered" is evidence: the author's outbox says delivered only for a message its
\* recipient has decrypted, and for an alert only after the recipient wrote it to its
\* store, across relays, restarts and retries (handleAcknowledgement acts on nothing but
\* the recipient's acknowledgement, handleDecryptedMessage awaits the store before it).
DeliveredIsEvidence ==
    \A m \in Message : outbox[m].state = "delivered" => Received(m)

\* An alert is only ever stored by the device it is addressed to (receive decrypts a
\* packet only where recipientId is its own peer id).
OnlyRecipientStores ==
    \A n \in Node : \A m \in alerts[n] : n = To[m]

\* Whatever relays do to it, a copy of a message keeps its author, its recipient and its
\* id, and an acknowledgement exists only for a message its author has received
\* (relayPacket changes hopCount and lastHopId alone).
Genuine(p) ==
    /\ p.type = "message" => /\ p.id = MessageId(p.messageId)
                             /\ p.sender = From[p.messageId] /\ p.recipient = To[p.messageId]
    /\ p.type = "ack" => /\ p.sender = To[p.messageId] /\ p.recipient = From[p.messageId]
                         /\ Received(p.messageId)

Provenance ==
    /\ \A f \in wire : Genuine(f.packet)
    /\ \A n \in Node : \A p \in pendingSend[n] : Genuine(p)
    /\ \A n \in Node : \A r \in queue[n] \cup draining[n].left : Genuine(r.packet)
    /\ \A n \in Node : announceFrame[n] # NoFrame => announceFrame[n].type = "announce"

\* In one life of its process a device shows a message at most once, although the
\* network holds several copies of it: what was shown is in the duplicate filter
\* (DeduplicationCache in receive).
ShownOnce ==
    \A n \in Node, m \in Message :
        shown[n][m] <= 1 /\ (shown[n][m] = 1 => MessageId(m) \in seen[n])

\* The last hop of a copy is the device that holds it or put it on the wire, and only the
\* copies of its author have made no hop: no author relays its own packet, whatever comes
\* back to it after a restart (shouldRelayPacket, relayPacket).
HeldBy(n, p) == p.type # "announce" => p.lastHop = n /\ (p.hopCount = 0 <=> n = p.sender)

LastHopIsSender ==
    /\ \A f \in wire : HeldBy(f.from, f.packet)
    /\ \A n \in Node : \A p \in pendingSend[n] : HeldBy(n, p)
    /\ \A n \in Node : \A r \in queue[n] \cup draining[n].left : HeldBy(n, r.packet)

\* No copy has made more hops than its limit, and what is stored can still be relayed
\* once a route appears: an exhausted packet is never stored.
HopBudget ==
    /\ \A p \in Copies : p.hopCount <= p.hopLimit
    /\ \A p \in InQueues : p.hopCount < p.hopLimit

\* No device sends a relayed packet back over the link it last came in by.
NoBounceBack ==
    \A f \in wire : [id |-> f.packet.id, link |-> f.to] \notin cameFrom[f.from]

Undelivered(m) ==
    outbox[m].state = "queued" /\ now < outbox[m].expiresAt /\ ~Received(m)

Held(m) == \E p \in Copies : p.id = MessageId(m)

\* The ways in which the last copy of a message may go: the radio, a retry budget or a
\* closing link took it, a drained record was removed after it was sent, the author's
\* process died before the first send, or a device refused a frame because it has seen the
\* message, is its author or finds its hops spent.
GivenUp(m) ==
    LET id == MessageId(m)
    IN  \/ id \in excused' \cup swallowed'
        \/ \E n \in Node : id \in sending[n] /\ DrainRemove(n, id)
        \/ \E p \in pendingSend[From[m]] : p.id = id /\ (Restart(From[m]) \/ p.hopCount >= p.hopLimit)
        \/ \E f \in wire :
              /\ f.packet.id = id
              /\ \/ ReceiveDuplicate(f.to, f)
                 \/ /\ RelayFrame(f.to, f)
                    /\ f.to = From[m] \/ f.packet.hopCount + 1 >= f.packet.hopLimit

-----------------------------------------------------------------------------
\* Custody: while a message is neither expired nor received, no step but those of GivenUp
\* takes its last copy: above all, a relay that finds no route, or whose send fails, keeps
\* what it accepted, and so does an author (sendOrQueue, receive, drain).
CustodyIsKept ==
    [][\A m \in Message : Undelivered(m)' /\ Held(m) => Held(m)' \/ GivenUp(m)]_vars

\* A relay record leaves a queue only by expiry, after it was sent, or with its retry
\* budget spent, and its attempts are never counted back, although drain decides on what it
\* read before and sendOrQueue writes in between.
QueueIsDurable ==
    [][ \A n \in Node : \A r \in queue[n] :
          \/ \E s \in queue'[n] : s.packet.id = r.packet.id /\ s.attempts >= r.attempts
          \/ r.packet.id \in sending[n]
          \/ r.attempts + 1 >= MaxRelayAttempts
          \/ \E s \in draining[n].left : s.packet.id = r.packet.id /\ s.packet.expiresAt <= now ]_vars

-----------------------------------------------------------------------------
\* On links that hold, every message the user queues is delivered and acknowledged
\* before its expiry can matter.
QueuedIsDelivered ==
    \A m \in Message : outbox[m].state = "queued" ~> outbox[m].state = "delivered"
=============================================================================
