------------------------- MODULE MeshNetworkProofs -------------------------
(* What MeshNetwork promises for every set of devices, every topology, every *)
(* choice of messages and every value of the limits.                         *)
EXTENDS MeshNetwork, TLAPS

\* The packets the application creates, and the copies relays make of them, are packets.
LEMMA CreatedPackets ==
    /\ \A m \in Message, x, y \in Node, e \in Nat : MessagePacket(m, x, y, e) \in Packet
    /\ \A n \in Node, k, e \in Nat : AnnouncePacket(n, k, e) \in Packet
    /\ \A p \in Packet, k, e \in Nat :
          p.type = "message" /\ p.recipient \in Node => AckPacket(p, k, e) \in Packet
    /\ \A p \in Packet, n \in Node : RelayPacket(p, n) \in Packet
<1>1. \A m \in Message, x, y \in Node, e \in Nat : MessagePacket(m, x, y, e) \in Packet
  BY RoutingAssumption DEF MessagePacket, Packet, PacketFields, PacketKind, PacketId
<1>2. \A n \in Node, k, e \in Nat : AnnouncePacket(n, k, e) \in Packet
  BY RoutingAssumption DEF AnnouncePacket, Packet, PacketFields, PacketKind, PacketId
<1>3. \A p \in Packet, k, e \in Nat :
          p.type = "message" /\ p.recipient \in Node => AckPacket(p, k, e) \in Packet
  BY RoutingAssumption DEF AckPacket, Packet, PacketFields, PacketKind, PacketId
<1>4. \A p \in Packet, n \in Node : RelayPacket(p, n) \in Packet
  <2> TAKE p \in Packet, n \in Node
  <2>1. p \in PacketFields /\ (p.type # "announce" => p.messageId \in Message)  BY DEF Packet
  <2>2. RelayPacket(p, n) \in PacketFields
    <3> DEFINE q == [p EXCEPT !.hopCount = p.hopCount + 1]
    <3>1. q \in PacketFields  BY <2>1 DEF PacketFields
    <3>2. [q EXCEPT !.lastHop = n] \in PacketFields
      <4> HIDE DEF q
      <4> QED  BY <3>1 DEF PacketFields
    <3>3. RelayPacket(p, n) = [q EXCEPT !.lastHop = n]
      BY <2>1 DEF RelayPacket, PacketFields
    <3> QED  BY <3>2, <3>3
  <2>3. RelayPacket(p, n).type = p.type /\ RelayPacket(p, n).messageId = p.messageId
    BY <2>1 DEF RelayPacket, PacketFields
  <2> QED  BY <2>1, <2>2, <2>3 DEF Packet
<1> QED  BY <1>1, <1>2, <1>3, <1>4

\* A route leads over a link of the table.
LEMMA HopsAreLinks ==
    \A p, table, local, excluded, t : NextHops(p, table, local, excluded, t) \subseteq Node
BY DEF NextHops, Candidates

LEMMA BackoffIsInt ==
    \A k \in Nat, t \in Nat : NextRelayAttemptAt(k, t) \in Int
<1> TAKE k \in Nat, t \in Nat
<1> DEFINE e == IF k < MaxRelayAttempts THEN k ELSE MaxRelayAttempts
<1>1. e \in Nat  BY RoutingAssumption
<1> HIDE DEF e
<1>2. 2 ^ e \in Int  BY <1>1
<1>3. t + RetryBase * 2 ^ e \in Int  BY <1>2, RoutingAssumption
<1> QED  BY <1>3 DEF NextRelayAttemptAt, e

LEMMA SendType ==
    ASSUME TypeOK, NEW n \in Node, NEW links \in SUBSET Node, NEW p \in Packet,
           NEW rest \in SUBSET Frame, Send(n, links, p, rest)
    PROVE  wire' \in SUBSET Frame /\ swallowed' \subseteq PacketId
<1>1. \A l \in Node : FrameTo(n, l, p) \in Frame  BY DEF FrameTo, Frame
<1>2. p.id \in PacketId  BY DEF Packet, PacketFields
<1> QED  BY <1>1, <1>2 DEF Send, TypeOK

\* Sending or storing a packet keeps the wire and the queues well typed.
LEMMA SendOrQueueType ==
    ASSUME TypeOK, NEW n \in Node, NEW p \in Packet, NEW excluded,
           NEW rest \in SUBSET Frame, SendOrQueue(n, p, excluded, rest)
    PROVE  /\ wire' \in SUBSET Frame /\ swallowed' \subseteq PacketId
           /\ queue' \in [Node -> SUBSET QueueRecord]
<1>1. wire' \in SUBSET Frame /\ swallowed' \subseteq PacketId
  <2>1. NextHops(p, peers[n], n, excluded, now) \in SUBSET Node  BY HopsAreLinks
  <2>2. \/ wire' = rest /\ swallowed' = swallowed
        \/ Send(n, NextHops(p, peers[n], n, excluded, now), p, rest)
    BY DEF SendOrQueue
  <2> QED  BY <2>1, <2>2, SendType DEF TypeOK
<1>2. queue' \in [Node -> SUBSET QueueRecord]
  <2>1. StoredAttempts(n, p.id) \in Nat
    BY DEF StoredAttempts, TypeOK, QueueRecord
  <2>2. NextRelayAttemptAt(StoredAttempts(n, p.id), now) \in Int
    BY <2>1, BackoffIsInt DEF TypeOK
  <2>3. Without(n, p.id) \subseteq QueueRecord  BY DEF Without, TypeOK
  <2>4. ASSUME Store(n, p) PROVE queue' \in [Node -> SUBSET QueueRecord]
    <3>1. [packet |-> p, attempts |-> StoredAttempts(n, p.id),
           nextAttemptAt |-> NextRelayAttemptAt(StoredAttempts(n, p.id), now)] \in QueueRecord
      BY <2>1, <2>2 DEF QueueRecord
    <3> QED  BY <2>4, <3>1, <2>3 DEF Store, TypeOK
  <2> QED  BY <2>4 DEF SendOrQueue, TypeOK
<1> QED  BY <1>1, <1>2

LEMMA NoEntriesType == NoEntries \in PeerTable
BY DEF NoEntries, PeerTable

LEMMA NoDrainType == NoDrain \in DrainCall
BY NoEntriesType DEF NoDrain, DrainCall

\* The turn of a record takes it off the list that is left.
LEMMA TurnTakes ==
    ASSUME TypeOK, NEW n \in Node, NEW r, Turn(n, r)
    PROVE  /\ draining' \in [Node -> DrainCall]
           /\ r \in QueueRecord /\ r.packet \in Packet
           /\ draining[n].at \in Nat
           /\ \A k \in Node : draining'[k].left \subseteq draining[k].left
           /\ \A k \in Node \ {n} : draining'[k] = draining[k]
           /\ draining'[n] = NoDrain \/ draining'[n].left = draining[n].left \ {r}
<1>1. draining \in [Node -> DrainCall]  BY DEF TypeOK
<1>2. draining[n].left \in SUBSET QueueRecord /\ draining[n].at \in Nat
  BY <1>1 DEF DrainCall
<1> DEFINE rest == [draining[n] EXCEPT !.left = draining[n].left \ {r}]
<1>3. rest \in DrainCall /\ rest.left = draining[n].left \ {r}
  <2>1. draining[n] \in [left: SUBSET QueueRecord, at: Nat, table: PeerTable]
    BY <1>1 DEF DrainCall
  <2>2. draining[n].left \ {r} \in SUBSET QueueRecord  BY <1>2
  <2> QED  BY <2>1, <2>2 DEF DrainCall
<1>4. NoDrain.left = {}  BY DEF NoDrain
<1>5. draining' = [draining EXCEPT ![n] = IF draining[n].left = {r} THEN NoDrain ELSE rest]
  BY DEF Turn, AfterTurn
<1> HIDE DEF rest
<1>6. draining' \in [Node -> DrainCall]  BY <1>1, <1>3, <1>5, NoDrainType
<1>7. draining'[n] = NoDrain \/ draining'[n] = rest  BY <1>1, <1>5
<1>8. \A k \in Node \ {n} : draining'[k] = draining[k]  BY <1>1, <1>5
<1>9. \A k \in Node : draining'[k].left \subseteq draining[k].left
  BY <1>3, <1>4, <1>7, <1>8
<1>10. r \in QueueRecord /\ r.packet \in Packet  BY <1>2 DEF Turn, QueueRecord
<1> QED  BY <1>2, <1>3, <1>6, <1>7, <1>8, <1>9, <1>10

LEMMA TypeInit == Init => TypeOK
<1> SUFFICES ASSUME Init PROVE TypeOK  OBVIOUS
<1> USE RoutingAssumption, NetworkAssumption
<1>1. \A n \in Node : FirstAnnounce(n) \in Packet
  BY CreatedPackets DEF FirstAnnounce
<1>2. peers \in [Node -> PeerTable]
  <2>1. ASSUME NEW n \in Node, NEW l \in Node, \E b \in BoundBy(n) : b[2] = l
        PROVE  (CHOOSE b \in BoundBy(n) : b[2] = l)[3] \in Node
    <3>1. (CHOOSE b \in BoundBy(n) : b[2] = l) \in InitialBinding
      BY <2>1 DEF BoundBy
    <3> QED  BY <3>1
  <2> QED  BY <2>1 DEF Init, PeerTable
<1>3. announceFrame \in [Node -> Packet \cup {NoFrame}]
  BY <1>1 DEF Init
<1>4. seen \in [Node -> SUBSET PacketId]
  <2>1. ASSUME NEW n \in Node, NEW b \in BoundBy(n)
        PROVE  FirstAnnounce(b[3]).id \in PacketId
    <3>1. b[3] \in Node  BY DEF BoundBy
    <3> QED  BY <3>1, <1>1 DEF Packet, PacketFields
  <2> QED  BY <2>1 DEF Init
<1>5. outbox \in [Message -> OutboxRecord]
  BY DEF Init, OutboxRecord
<1>6. up \subseteq Link /\ events \in [Node -> [Node -> {"none", "connected", "disconnected"}]]
  BY DEF Init
<1>7. /\ now \in Nat /\ wire \subseteq Frame /\ starts \in [Node -> Nat]
      /\ queue \in [Node -> SUBSET QueueRecord] /\ sending \in [Node -> SUBSET PacketId]
      /\ pendingSend \in [Node -> SUBSET Packet] /\ alerts \in [Node -> SUBSET Message]
  BY DEF Init
<1>8. /\ shown \in [Node -> [Message -> Nat]] /\ ackCount \in [Message -> Nat]
      /\ cameFrom \in [Node -> SUBSET [id: PacketId, link: Node]]
      /\ excused \subseteq PacketId /\ swallowed \subseteq PacketId
      /\ happened \in [EnvEvent -> Nat]
      /\ native \in [Node -> {"stopped", "configured", "running"}] /\ stopping \subseteq Node
  BY DEF Init
<1>9. draining \in [Node -> DrainCall]  BY NoDrainType DEF Init
<1> QED  BY <1>2, <1>3, <1>4, <1>5, <1>6, <1>7, <1>8, <1>9 DEF TypeOK

\* What handling a frame adds to the duplicate filter is a packet id.
LEMMA AcceptType ==
    ASSUME TypeOK, NEW n \in Node, NEW f, Accept(n, f)
    PROVE  f \in Frame /\ f.packet \in Packet /\ f.from \in Node
           /\ f.packet.id \in PacketId /\ seen' \in [Node -> SUBSET PacketId]
<1>1. f \in Frame  BY DEF Accept, Arrives, TypeOK
<1>2. f.packet \in Packet /\ f.from \in Node  BY <1>1 DEF Frame
<1>3. f.packet.id \in PacketId  BY <1>2 DEF Packet, PacketFields
<1> QED  BY <1>1, <1>2, <1>3 DEF Accept, TypeOK

LEMMA RelayOnwardType ==
    ASSUME TypeOK, NEW n \in Node, NEW f \in Frame, RelayOnward(n, f)
    PROVE  /\ wire' \in SUBSET Frame /\ swallowed' \subseteq PacketId
           /\ queue' \in [Node -> SUBSET QueueRecord]
<1>1. RelayPacket(f.packet, n) \in Packet  BY CreatedPackets DEF Frame
<1>2. wire \ {f} \in SUBSET Frame  BY DEF TypeOK
<1>3. CASE ShouldRelay(f.packet, n, now)
  <2>1. SendOrQueue(n, RelayPacket(f.packet, n), f.from, wire \ {f})
    BY <1>3 DEF RelayOnward
  <2> QED  BY <2>1, <1>1, <1>2, SendOrQueueType
<1>4. CASE ~ShouldRelay(f.packet, n, now)
  BY <1>2, <1>4 DEF RelayOnward, TypeOK
<1> QED  BY <1>3, <1>4

LEMMA LostIdsType ==
    ASSUME TypeOK, NEW frames \in SUBSET wire PROVE IdsOf(frames) \subseteq PacketId
BY DEF TypeOK, IdsOf, Frame, Packet, PacketFields

LEMMA HappensType ==
    ASSUME TypeOK, NEW kind \in EnvEvent, Happens(kind) PROVE happened' \in [EnvEvent -> Nat]
BY DEF Happens, TypeOK

LEMMA DisconnectType ==
    ASSUME TypeOK, NEW n \in Node, NEW lost \in SUBSET wire, Disconnect(n, lost)
    PROVE  /\ up' \subseteq Link
           /\ events' \in [Node -> [Node -> {"none", "connected", "disconnected"}]]
           /\ wire' \subseteq Frame
           /\ excused' \subseteq PacketId
<1>1. IdsOf(lost) \subseteq PacketId  BY LostIdsType
<1> QED  BY <1>1 DEF Disconnect, TypeOK

LEMMA TypeStep == TypeOK /\ [Next]_vars => TypeOK'
<1> SUFFICES ASSUME TypeOK, [Next]_vars PROVE TypeOK'  OBVIOUS
<1> USE DEF linkVars, drainVars, stateVars, recordVars, historyVars
<1>1. ASSUME NEW m \in Message, QueueMessage(m) PROVE TypeOK'
  <2>1. now + MessageTtl \in Nat  BY NetworkAssumption DEF TypeOK
  <2>2. From[m] \in Node /\ To[m] \in Node  BY NetworkAssumption
  <2>3. MessagePacket(m, From[m], To[m], now + MessageTtl) \in Packet
    BY <2>1, <2>2, CreatedPackets
  <2>4. pendingSend' \in [Node -> SUBSET Packet]
    BY <1>1, <2>2, <2>3 DEF QueueMessage, TypeOK
  <2>5. outbox' \in [Message -> OutboxRecord]
    BY <1>1, <2>1 DEF QueueMessage, TypeOK, OutboxRecord
  <2> QED  BY <1>1, <2>4, <2>5 DEF QueueMessage, TypeOK
<1>2. ASSUME NEW n \in Node, NEW p \in pendingSend[n], SendPending(n, p) PROVE TypeOK'
  <2>1. p \in Packet /\ wire \in SUBSET Frame  BY DEF TypeOK
  <2>2. /\ wire' \in SUBSET Frame /\ swallowed' \subseteq PacketId
        /\ queue' \in [Node -> SUBSET QueueRecord]
    BY <1>2, <2>1, SendOrQueueType DEF SendPending
  <2>3. pendingSend' \in [Node -> SUBSET Packet]
    BY <1>2 DEF SendPending, TypeOK
  <2> QED  BY <1>2, <2>2, <2>3 DEF SendPending, TypeOK
<1>3. ASSUME NEW n \in Node, NEW f, ReceiveDuplicate(n, f) PROVE TypeOK'
  BY <1>3 DEF ReceiveDuplicate, TypeOK
<1>4. ASSUME NEW n \in Node, NEW f, ReceiveAnnounce(n, f) PROVE TypeOK'
  <2>1. /\ f \in Frame /\ f.packet \in Packet /\ f.from \in Node
        /\ seen' \in [Node -> SUBSET PacketId]
    BY <1>4, AcceptType DEF ReceiveAnnounce
  <2>2. /\ wire' \in SUBSET Frame /\ swallowed' \subseteq PacketId
        /\ queue' \in [Node -> SUBSET QueueRecord]
    BY <1>4, <2>1, RelayOnwardType DEF ReceiveAnnounce
  <2>3. f.packet.sender \in Node  BY <2>1 DEF Packet, PacketFields
  <2>4. Bind(peers[n], f.from, f.packet.sender) \in PeerTable
    BY <2>3 DEF Bind, PeerTable, TypeOK
  <2>5. peers' \in [Node -> PeerTable]
    BY <1>4, <2>4 DEF ReceiveAnnounce, TypeOK
  <2> QED  BY <1>4, <2>1, <2>2, <2>5 DEF ReceiveAnnounce, TypeOK
<1>5. ASSUME NEW n \in Node, NEW f, RelayFrame(n, f) PROVE TypeOK'
  <2>1. /\ f \in Frame /\ f.from \in Node /\ f.packet.id \in PacketId
        /\ seen' \in [Node -> SUBSET PacketId]
    BY <1>5, AcceptType DEF RelayFrame
  <2>2. /\ wire' \in SUBSET Frame /\ swallowed' \subseteq PacketId
        /\ queue' \in [Node -> SUBSET QueueRecord]
    BY <1>5, <2>1, RelayOnwardType DEF RelayFrame
  <2>3. cameFrom' \in [Node -> SUBSET [id: PacketId, link: Node]]
    BY <1>5, <2>1 DEF RelayFrame, TypeOK
  <2> QED  BY <1>5, <2>1, <2>2, <2>3 DEF RelayFrame, TypeOK
<1>6. ASSUME NEW n \in Node, NEW f, ReceiveMessage(n, f) PROVE TypeOK'
  <2> DEFINE p == f.packet
  <2> DEFINE m == p.messageId
  <2> DEFINE expiry == IF p.expiresAt < now + AckTtl THEN p.expiresAt ELSE now + AckTtl
  <2>1. p \in Packet /\ seen' \in [Node -> SUBSET PacketId]
    BY <1>6, AcceptType DEF ReceiveMessage
  <2>2. m \in Message /\ p.expiresAt \in Nat
    BY <1>6, <2>1 DEF ReceiveMessage, Packet, PacketFields
  <2>3. expiry \in Nat  BY <2>2, NetworkAssumption DEF TypeOK
  <2>4. AckPacket(p, ackCount[m], expiry) \in Packet
    BY <1>6, <2>1, <2>2, <2>3, CreatedPackets DEF ReceiveMessage, TypeOK
  <2>5. wire' \subseteq Frame  BY <1>6 DEF ReceiveMessage, TypeOK
  <2>6. CASE p.expiresAt <= now
    BY <1>6, <2>1, <2>5, <2>6 DEF ReceiveMessage, TypeOK
  <2>7. CASE ~(p.expiresAt <= now)
    <3>4. /\ alerts' = [alerts EXCEPT ![n] = @ \cup ({m} \cap Alerting)]
          /\ shown' = [shown EXCEPT ![n][m] = @ + 1]
          /\ ackCount' = [ackCount EXCEPT ![m] = @ + 1]
          /\ pendingSend' = [pendingSend EXCEPT ![n] = @ \cup {AckPacket(p, ackCount[m], expiry)}]
      BY <1>6, <2>7 DEF ReceiveMessage
    <3> HIDE DEF m
    <3>1. alerts' \in [Node -> SUBSET Message]  BY <2>2, <3>4 DEF TypeOK
    <3>2. shown' \in [Node -> [Message -> Nat]]  BY <2>2, <3>4 DEF TypeOK
    <3>3. ackCount' \in [Message -> Nat]  BY <2>2, <3>4 DEF TypeOK
    <3>5. pendingSend' \in [Node -> SUBSET Packet]
      BY <2>4, <3>4 DEF TypeOK
    <3> QED  BY <1>6, <2>1, <2>5, <3>1, <3>2, <3>3, <3>5 DEF ReceiveMessage, TypeOK
  <2> QED  BY <2>6, <2>7
<1>7. ASSUME NEW n \in Node, NEW f, ReceiveAck(n, f) PROVE TypeOK'
  <2>1. seen' \in [Node -> SUBSET PacketId]
    BY <1>7, AcceptType DEF ReceiveAck
  <2>2. outbox' \in [Message -> OutboxRecord]
    BY <1>7 DEF ReceiveAck, TypeOK, OutboxRecord
  <2> QED  BY <1>7, <2>1, <2>2 DEF ReceiveAck, TypeOK
<1>8. ASSUME NEW n \in Node, NEW r \in draining[n].left, DrainExpired(n, r) \/ DrainSkip(n, r) PROVE TypeOK'
  <2>1. draining' \in [Node -> DrainCall]  BY <1>8, TurnTakes DEF DrainExpired, DrainSkip
  <2>2. queue' \in [Node -> SUBSET QueueRecord]
    <3>1. queue' = queue \/ queue' = [queue EXCEPT ![n] = Without(n, r.packet.id)]
      BY <1>8 DEF DrainExpired, DrainSkip
    <3>2. queue \in [Node -> SUBSET QueueRecord]  BY DEF TypeOK
    <3>3. Without(n, r.packet.id) \in SUBSET QueueRecord  BY <3>2 DEF Without
    <3> QED  BY <3>1, <3>2, <3>3
  <2> QED  BY <1>8, <2>1, <2>2 DEF DrainExpired, DrainSkip, TypeOK
<1>9. ASSUME NEW n \in Node, NEW r \in draining[n].left, DrainSend(n, r) PROVE TypeOK'
  <2>1. r.packet \in Packet /\ draining' \in [Node -> DrainCall]
    BY <1>9, TurnTakes DEF DrainSend, Due
  <2>2. r.packet.id \in PacketId  BY <2>1 DEF Packet, PacketFields
  <2>3. wire' \subseteq Frame /\ swallowed' \subseteq PacketId
    <3>1. DrainHops(n, r) \in SUBSET Node  BY HopsAreLinks DEF DrainHops
    <3>2. Send(n, DrainHops(n, r), r.packet, wire)  BY <1>9 DEF DrainSend
    <3>3. wire \in SUBSET Frame  BY DEF TypeOK
    <3> QED  BY <2>1, <3>1, <3>2, <3>3, SendType
  <2> QED  BY <1>9, <2>1, <2>2, <2>3 DEF DrainSend, TypeOK
<1>10. ASSUME NEW n \in Node, NEW id \in sending[n], DrainRemove(n, id) PROVE TypeOK'
  BY <1>10 DEF DrainRemove, Without, TypeOK
<1>11. ASSUME NEW n \in Node, NEW r \in draining[n].left, DrainFail(n, r) PROVE TypeOK'
  <2> DEFINE attempts == r.attempts + 1
  <2> DEFINE again == [r EXCEPT !.attempts = attempts]
  <2> DEFINE retried == [r EXCEPT !.attempts = attempts,
                                  !.nextAttemptAt = NextRelayAttemptAt(attempts, draining[n].at)]
  <2>1. /\ r \in QueueRecord /\ draining[n].at \in Nat
        /\ draining' \in [Node -> DrainCall]
    BY <1>11, TurnTakes DEF DrainFail, Due
  <2>2. r.packet.id \in PacketId  BY <2>1 DEF QueueRecord, Packet, PacketFields
  <2>3. attempts \in Nat  BY <2>1 DEF QueueRecord
  <2>4. NextRelayAttemptAt(attempts, draining[n].at) \in Int  BY <2>1, <2>3, BackoffIsInt
  <2>5. retried \in QueueRecord
    <3>1. again \in QueueRecord  BY <2>1, <2>3 DEF QueueRecord
    <3>2. [again EXCEPT !.nextAttemptAt = NextRelayAttemptAt(attempts, draining[n].at)] \in QueueRecord
      <4> HIDE DEF again
      <4> QED  BY <3>1, <2>4 DEF QueueRecord
    <3>3. retried = [again EXCEPT !.nextAttemptAt = NextRelayAttemptAt(attempts, draining[n].at)]
      BY <2>1 DEF QueueRecord
    <3> QED  BY <3>2, <3>3
  <2>6. Without(n, r.packet.id) \subseteq QueueRecord  BY DEF Without, TypeOK
  <2>7. queue' \in [Node -> SUBSET QueueRecord]
    <3>1. \/ queue' = [queue EXCEPT ![n] = Without(n, r.packet.id)]
          \/ queue' = [queue EXCEPT ![n] = Without(n, r.packet.id) \cup {retried}]
      BY <1>11 DEF DrainFail
    <3>2. queue \in [Node -> SUBSET QueueRecord]  BY DEF TypeOK
    <3>3. Without(n, r.packet.id) \in SUBSET QueueRecord  BY <2>6
    <3>4. Without(n, r.packet.id) \cup {retried} \in SUBSET QueueRecord  BY <2>5, <2>6
    <3> HIDE DEF retried
    <3> QED  BY <3>1, <3>2, <3>3, <3>4
  <2>8. excused' \subseteq PacketId
    BY <1>11, <2>2 DEF DrainFail, TypeOK
  <2> QED  BY <1>11, <2>1, <2>7, <2>8 DEF DrainFail, TypeOK
<1>12. ASSUME NEW n \in Node, StartMesh(n) PROVE TypeOK'
  <2>1. AnnouncePacket(n, starts[n] + 1, now + AnnounceTtl) \in Packet
    BY CreatedPackets, NetworkAssumption DEF TypeOK
  <2>2. announceFrame' \in [Node -> Packet \cup {NoFrame}]
    BY <1>12, <2>1 DEF StartMesh, TypeOK
  <2>3. native' \in [Node -> {"stopped", "configured", "running"}]
    BY <1>12 DEF StartMesh, TypeOK
  <2> QED  BY <1>12, <2>2, <2>3 DEF StartMesh, TypeOK
<1>13. ASSUME NEW x \in Node, NEW y \in Node, LinkUp(x, y) PROVE TypeOK'
  <2>1. happened' \in [EnvEvent -> Nat]  BY <1>13, HappensType DEF LinkUp, EnvEvent
  <2> QED  BY <1>13, <2>1 DEF LinkUp, TypeOK
<1>14. ASSUME NEW x \in Node, NEW y \in Node, LinkDown(x, y) PROVE TypeOK'
  <2>1. happened' \in [EnvEvent -> Nat]  BY <1>14, HappensType DEF LinkDown, EnvEvent
  <2>2. IdsOf(OnLink(x, y)) \subseteq PacketId  BY LostIdsType DEF OnLink
  <2> QED  BY <1>14, <2>1, <2>2 DEF LinkDown, TypeOK
<1>15. ASSUME NEW n \in Node, NEW l \in Node, PeerConnected(n, l) PROVE TypeOK'
  <2>1. peers' \in [Node -> PeerTable]
    BY <1>15 DEF PeerConnected, PeerTable, TypeOK
  <2>2. wire' \subseteq Frame
    <3>1. announceFrame[n] # NoFrame => FrameTo(n, l, announceFrame[n]) \in Frame
      BY DEF FrameTo, Frame, TypeOK
    <3> QED  BY <1>15, <3>1 DEF PeerConnected, TypeOK
  <2> QED  BY <1>15, <2>1, <2>2 DEF PeerConnected, TypeOK
<1>16. ASSUME NEW n \in Node, NEW l \in Node, PeerLost(n, l) PROVE TypeOK'
  <2>1. peers' \in [Node -> PeerTable]
    BY <1>16 DEF PeerLost, PeerTable, TypeOK
  <2> QED  BY <1>16, <2>1 DEF PeerLost, TypeOK
<1>17. ASSUME NEW n \in Node, StopMesh(n) PROVE TypeOK'
  <2>1. happened' \in [EnvEvent -> Nat]  BY <1>17, HappensType DEF StopMesh, EnvEvent
  <2>2. PICK lost \in SUBSET wire : Disconnect(n, lost)  BY <1>17 DEF StopMesh, OfDevice
  <2>3. /\ native' \in [Node -> {"stopped", "configured", "running"}] /\ stopping' \subseteq Node
    BY <1>17 DEF StopMesh, TypeOK
  <2> QED  BY <1>17, <2>1, <2>2, <2>3, DisconnectType DEF StopMesh, TypeOK
<1>18. ASSUME NEW n \in Node, Restart(n) PROVE TypeOK'
  <2>1. happened' \in [EnvEvent -> Nat]  BY <1>18, HappensType DEF Restart, EnvEvent
  <2>2. Disconnect(n, OfDevice(n)) /\ OfDevice(n) \in SUBSET wire
    BY <1>18 DEF Restart, OfDevice
  <2>3. shown' \in [Node -> [Message -> Nat]]  BY <1>18 DEF Restart, TypeOK
  <2>4. /\ native' \in [Node -> {"stopped", "configured", "running"}] /\ stopping' \subseteq Node
        /\ peers' \in [Node -> PeerTable] /\ announceFrame' \in [Node -> Packet \cup {NoFrame}]
    BY <1>18, NoEntriesType DEF Restart, TypeOK
  <2>5. /\ seen' \in [Node -> SUBSET PacketId] /\ sending' \in [Node -> SUBSET PacketId]
        /\ pendingSend' \in [Node -> SUBSET Packet]
    BY <1>18 DEF Restart, TypeOK
  <2>6. draining' \in [Node -> DrainCall]  BY <1>18, NoDrainType DEF Restart, TypeOK
  <2> QED  BY <1>18, <2>1, <2>2, <2>3, <2>4, <2>5, <2>6, DisconnectType DEF Restart, TypeOK
<1>19. ASSUME NEW f \in wire, LoseFrame(f) PROVE TypeOK'
  <2>1. happened' \in [EnvEvent -> Nat]  BY <1>19, HappensType DEF LoseFrame, EnvEvent
  <2>2. f.packet.id \in PacketId  BY DEF TypeOK, Frame, Packet, PacketFields
  <2> QED  BY <1>19, <2>1, <2>2 DEF LoseFrame, TypeOK
<1>20. CASE Tick  BY <1>20 DEF Tick, TypeOK
<1>21. CASE UNCHANGED vars  BY <1>21 DEF vars, TypeOK
<1>22. \A f \in wire : f.to \in Node  BY DEF TypeOK, Frame
<1>23. ASSUME NEW n \in Node, RestartFromService(n) \/ FinishStop(n) PROVE TypeOK'
  <2>1. /\ native' \in [Node -> {"stopped", "configured", "running"}] /\ stopping' \subseteq Node
        /\ peers' \in [Node -> PeerTable] /\ announceFrame' \in [Node -> Packet \cup {NoFrame}]
    <3>1. CASE RestartFromService(n)  BY <3>1 DEF RestartFromService, TypeOK
    <3>2. CASE FinishStop(n)  BY <3>2, NoEntriesType DEF FinishStop, TypeOK
    <3> QED  BY <1>23, <3>1, <3>2
  <2> QED  BY <1>23, <2>1 DEF RestartFromService, FinishStop, TypeOK
<1>24. stopping \subseteq Node  BY DEF TypeOK
<1>25. ASSUME NEW n \in Node, DrainStart(n) PROVE TypeOK'
  <2>1. [left |-> queue[n], at |-> now, table |-> peers[n]] \in DrainCall
    BY DEF DrainCall, TypeOK
  <2>2. draining' \in [Node -> DrainCall]  BY <1>25, <2>1 DEF DrainStart, TypeOK
  <2> QED  BY <1>25, <2>2 DEF DrainStart, TypeOK
<1> QED
  BY <1>1, <1>2, <1>3, <1>4, <1>5, <1>6, <1>7, <1>8, <1>9, <1>10, <1>11, <1>12, <1>13,
     <1>14, <1>15, <1>16, <1>17, <1>18, <1>19, <1>20, <1>21, <1>22, <1>23, <1>24, <1>25
  DEF Next, AppNext, Environment, Receive, Drain

\* Every variable keeps its type, whatever the devices, the topology and the bounds.
THEOREM TypeCorrect == Spec => []TypeOK
<1>1. Init => TypeOK  BY TypeInit
<1>2. TypeOK /\ [Next]_vars => TypeOK'  BY TypeStep
<1> QED  BY <1>1, <1>2, PTL DEF Spec

-----------------------------------------------------------------------------
\* Where the copies of the next state come from when a packet is sent or stored.
LEMMA SendOrQueueCopies ==
    ASSUME TypeOK, NEW n \in Node, NEW p \in Packet, NEW excluded, NEW rest,
           SendOrQueue(n, p, excluded, rest)
    PROVE  /\ \A f \in wire' : f \in rest \/ (f.packet = p /\ f.from = n)
           /\ \A k \in Node : \A r \in queue'[k] :
                 r \in queue[k] \/ (k = n /\ r.packet = p /\ p.hopCount < p.hopLimit)
<1>1. \A f \in wire' : f \in rest \/ (f.packet = p /\ f.from = n)
  BY DEF SendOrQueue, Send, FrameTo
<1>2. \A k \in Node : \A r \in queue'[k] :
          r \in queue[k] \/ (k = n /\ r.packet = p /\ p.hopCount < p.hopLimit)
  <2>1. CASE Store(n, p)
    <3> DEFINE new == [packet |-> p, attempts |-> StoredAttempts(n, p.id),
                       nextAttemptAt |-> NextRelayAttemptAt(StoredAttempts(n, p.id), now)]
    <3>1. \/ queue' = queue
          \/ ~(p.hopCount >= p.hopLimit) /\ queue' = [queue EXCEPT ![n] = Without(n, p.id) \cup {new}]
      BY <2>1 DEF Store
    <3>2. new.packet = p  OBVIOUS
    <3> HIDE DEF new
    <3>3. queue \in [Node -> SUBSET QueueRecord]  BY DEF TypeOK
    <3>4. Without(n, p.id) \subseteq queue[n]  BY DEF Without
    <3>5. \A k \in Node : \A r \in queue'[k] : r \in queue[k] \/ (k = n /\ r = new /\ ~(p.hopCount >= p.hopLimit))
      BY <3>1, <3>3, <3>4
    <3>6. ~(p.hopCount >= p.hopLimit) => p.hopCount < p.hopLimit
      BY DEF Packet, PacketFields
    <3> QED  BY <3>2, <3>5, <3>6
  <2>2. CASE queue' = queue  BY <2>2
  <2> QED  BY <2>1, <2>2 DEF SendOrQueue
<1> QED  BY <1>1, <1>2

\* The same for a relay, whose copy is RelayPacket of the frame it handles.
LEMMA RelayOnwardCopies ==
    ASSUME TypeOK, NEW n \in Node, NEW f \in wire, RelayOnward(n, f)
    PROVE  /\ \A g \in wire' : g \in wire \/ ( /\ g.packet = RelayPacket(f.packet, n) /\ g.from = n
                                               /\ ShouldRelay(f.packet, n, now) )
           /\ \A k \in Node : \A r \in queue'[k] :
                 r \in queue[k] \/ ( /\ k = n /\ r.packet = RelayPacket(f.packet, n)
                                     /\ r.packet.hopCount < r.packet.hopLimit
                                     /\ ShouldRelay(f.packet, n, now) )
<1>1. CASE ShouldRelay(f.packet, n, now)
  <2>1. SendOrQueue(n, RelayPacket(f.packet, n), f.from, wire \ {f})
    BY <1>1 DEF RelayOnward
  <2>2. RelayPacket(f.packet, n) \in Packet
    BY CreatedPackets DEF TypeOK, Frame
  <2> QED  BY <2>1, <2>2, <1>1, SendOrQueueCopies
<1>2. CASE ~ShouldRelay(f.packet, n, now)
  BY <1>2 DEF RelayOnward
<1> QED  BY <1>1, <1>2

\* A relay's copy differs from what it received in the hop count and the last hop only.
LEMMA RelayKeeps ==
    ASSUME NEW p \in Packet, NEW n \in Node
    PROVE  LET q == RelayPacket(p, n)
           IN  /\ q.type = p.type /\ q.id = p.id /\ q.messageId = p.messageId
               /\ q.sender = p.sender /\ q.recipient = p.recipient
               /\ q.hopLimit = p.hopLimit /\ q.expiresAt = p.expiresAt
               /\ q.hopCount = p.hopCount + 1 /\ q.lastHop = n
BY DEF RelayPacket, Packet, PacketFields

\* Draining puts nothing into a queue but the record whose turn it is.
LEMMA DrainKeepsPackets ==
    ASSUME TypeOK, NEW n \in Node, NEW r \in draining[n].left,
           DrainExpired(n, r) \/ DrainSkip(n, r) \/ DrainSend(n, r) \/ DrainFail(n, r)
    PROVE  \A k \in Node : \A s \in queue'[k] : s \in queue[k] \/ (k = n /\ s.packet = r.packet)
<1> DEFINE retried == [r EXCEPT !.attempts = r.attempts + 1,
                                !.nextAttemptAt = NextRelayAttemptAt(r.attempts + 1, draining[n].at)]
<1>0. r \in QueueRecord  BY TurnTakes DEF DrainExpired, DrainSkip, DrainSend, DrainFail, Due
<1>1. retried.packet = r.packet  BY <1>0 DEF QueueRecord
<1>2. \/ queue' = queue
      \/ queue' = [queue EXCEPT ![n] = Without(n, r.packet.id)]
      \/ queue' = [queue EXCEPT ![n] = Without(n, r.packet.id) \cup {retried}]
  BY DEF DrainExpired, DrainSkip, DrainSend, DrainFail
<1> HIDE DEF retried
<1> QED  BY <1>1, <1>2 DEF Without, TypeOK

\* What a drain has left to do was in the queue when it began.
LEMMA LeftWasStored ==
    ASSUME TypeOK, [Next]_vars
    PROVE  \A n \in Node : draining'[n].left \subseteq draining[n].left \cup queue[n]
<1> USE DEF linkVars, drainVars, stateVars, recordVars, historyVars
<1> DEFINE Goal == \A n \in Node : draining'[n].left \subseteq draining[n].left \cup queue[n]
<1>1. ASSUME UNCHANGED draining PROVE Goal  BY <1>1
<1>2. ASSUME NEW n \in Node, DrainStart(n) PROVE Goal
  BY <1>2 DEF DrainStart, TypeOK
<1>3. ASSUME NEW n \in Node, NEW r \in draining[n].left, Turn(n, r) PROVE Goal
  BY <1>3, TurnTakes
<1>4. ASSUME NEW n \in Node, NEW r \in draining[n].left,
             DrainExpired(n, r) \/ DrainSkip(n, r) \/ DrainSend(n, r) \/ DrainFail(n, r)
      PROVE  Goal
  BY <1>3, <1>4 DEF DrainExpired, DrainSkip, DrainSend, DrainFail, Due
<1>5. ASSUME NEW n \in Node, Restart(n) PROVE Goal
  BY <1>5 DEF Restart, TypeOK, NoDrain
<1>6. ASSUME NEW n \in Node, NEW f \in wire, Receive(n, f) PROVE UNCHANGED draining
  BY <1>6 DEF Receive, ReceiveDuplicate, ReceiveAnnounce, RelayFrame, ReceiveMessage, ReceiveAck
<1>7. ASSUME NEW n \in Node,
             StopMesh(n) \/ FinishStop(n) \/ RestartFromService(n) \/ StartMesh(n)
      PROVE  UNCHANGED draining
  BY <1>7 DEF StopMesh, FinishStop, RestartFromService, StartMesh
<1>8. ASSUME NEW n \in Node, NEW id \in sending[n], DrainRemove(n, id) PROVE UNCHANGED draining
  BY <1>8 DEF DrainRemove
<1>9. ASSUME NEW x \in Node, NEW y \in Node,
             LinkUp(x, y) \/ LinkDown(x, y) \/ PeerConnected(x, y) \/ PeerLost(x, y)
      PROVE  UNCHANGED draining
  BY <1>9 DEF LinkUp, LinkDown, PeerConnected, PeerLost
<1>10. ASSUME NEW f \in wire, LoseFrame(f) PROVE UNCHANGED draining  BY <1>10 DEF LoseFrame
<1>11. ASSUME NEW n \in Node, NEW p \in pendingSend[n], SendPending(n, p) PROVE UNCHANGED draining
  BY <1>11 DEF SendPending
<1>12. ASSUME NEW m \in Message, QueueMessage(m) PROVE UNCHANGED draining  BY <1>12 DEF QueueMessage
<1>13. ASSUME Tick \/ UNCHANGED vars PROVE UNCHANGED draining  BY <1>13 DEF Tick, vars
<1>14. stopping \subseteq Node /\ \A f \in wire : f.to \in Node  BY DEF TypeOK, Frame
<1> QED
  BY <1>1, <1>2, <1>4, <1>5, <1>6, <1>7, <1>8, <1>9, <1>10, <1>11, <1>12, <1>13, <1>14
  DEF Next, AppNext, Environment, Drain

\* A message that was received stays received.
LEMMA ReceivedStays ==
    ASSUME TypeOK, [Next]_vars, NEW m \in Message, Received(m)
    PROVE  Received(m)'
<1> USE DEF linkVars, drainVars, stateVars, recordVars, historyVars
<1> DEFINE Same == UNCHANGED <<alerts, ackCount>>
<1>0. To[m] \in Node  BY NetworkAssumption
<1>1. ASSUME Same PROVE Received(m)'  BY <1>1 DEF Received
<1>2. ASSUME NEW n \in Node, NEW f \in wire, ReceiveMessage(n, f) PROVE Received(m)'
  <2> DEFINE k == f.packet.messageId
  <2>1. \/ Same
        \/ /\ alerts' = [alerts EXCEPT ![n] = @ \cup ({k} \cap Alerting)]
           /\ ackCount' = [ackCount EXCEPT ![k] = @ + 1]
    BY <1>2 DEF ReceiveMessage
  <2> HIDE DEF k
  <2>2. alerts \in [Node -> SUBSET Message] /\ ackCount \in [Message -> Nat]  BY DEF TypeOK
  <2>3. CASE /\ alerts' = [alerts EXCEPT ![n] = @ \cup ({k} \cap Alerting)]
             /\ ackCount' = [ackCount EXCEPT ![k] = @ + 1]
    <3>1. alerts[To[m]] \subseteq alerts'[To[m]]  BY <1>0, <2>2, <2>3
    <3>2. ackCount'[m] \in {ackCount[m], ackCount[m] + 1} /\ ackCount[m] \in Nat  BY <2>2, <2>3
    <3> QED  BY <3>1, <3>2 DEF Received
  <2> QED  BY <1>1, <2>1, <2>3
<1>3. ASSUME NEW n \in Node, NEW f \in wire,
             ReceiveDuplicate(n, f) \/ ReceiveAnnounce(n, f) \/ RelayFrame(n, f) \/ ReceiveAck(n, f)
      PROVE  Same
  BY <1>3 DEF ReceiveDuplicate, ReceiveAnnounce, RelayFrame, ReceiveAck
<1>4. ASSUME NEW n \in Node,
             StopMesh(n) \/ FinishStop(n) \/ RestartFromService(n) \/ StartMesh(n) \/ Restart(n)
             \/ DrainStart(n)
      PROVE  Same
  BY <1>4 DEF StopMesh, FinishStop, RestartFromService, StartMesh, Restart, DrainStart
<1>5. ASSUME NEW n \in Node, NEW r \in draining[n].left,
             DrainExpired(n, r) \/ DrainSkip(n, r) \/ DrainSend(n, r) \/ DrainFail(n, r)
      PROVE  Same
  BY <1>5 DEF DrainExpired, DrainSkip, DrainSend, DrainFail
<1>6. ASSUME NEW n \in Node, NEW id \in sending[n], DrainRemove(n, id) PROVE Same
  BY <1>6 DEF DrainRemove
<1>7. ASSUME NEW x \in Node, NEW y \in Node,
             LinkUp(x, y) \/ LinkDown(x, y) \/ PeerConnected(x, y) \/ PeerLost(x, y)
      PROVE  Same
  BY <1>7 DEF LinkUp, LinkDown, PeerConnected, PeerLost
<1>8. ASSUME NEW f \in wire, LoseFrame(f) PROVE Same  BY <1>8 DEF LoseFrame
<1>9. ASSUME NEW n \in Node, NEW p \in pendingSend[n], SendPending(n, p) PROVE Same
  BY <1>9 DEF SendPending
<1>10. ASSUME NEW k \in Message, QueueMessage(k) PROVE Same  BY <1>10 DEF QueueMessage
<1>11. ASSUME Tick \/ UNCHANGED vars PROVE Same  BY <1>11 DEF Tick, vars
<1>12. stopping \subseteq Node /\ \A f \in wire : f.to \in Node  BY DEF TypeOK, Frame
<1> QED
  BY <1>1, <1>2, <1>3, <1>4, <1>5, <1>6, <1>7, <1>8, <1>9, <1>10, <1>11, <1>12
  DEF Next, AppNext, Environment, Receive, Drain

EvidenceInv == TypeOK /\ Provenance /\ OnlyRecipientStores /\ DeliveredIsEvidence

\* Provenance survives a step that adds genuine copies only.
LEMMA ProvenanceFrom ==
    ASSUME TypeOK, Provenance,
           \A m \in Message : Received(m) => Received(m)',
           \A n \in Node : draining'[n].left \subseteq draining[n].left \cup queue[n],
           \A f \in wire' : f \in wire \/ Genuine(f.packet)',
           \A n \in Node : \A p \in pendingSend'[n] : p \in pendingSend[n] \/ Genuine(p)',
           \A n \in Node : \A r \in queue'[n] :
              (\E s \in queue[n] : s.packet = r.packet) \/ Genuine(r.packet)',
           \A n \in Node : \/ announceFrame'[n] \in {announceFrame[n], NoFrame}
                           \/ announceFrame'[n].type = "announce"
    PROVE  Provenance'
<1>1. \A p \in Packet : Genuine(p) => Genuine(p)'
  BY DEF Genuine, MessageId, Packet, PacketFields
<1>2. \A f \in wire : Genuine(f.packet)'
  BY <1>1 DEF Provenance, TypeOK, Frame
<1>3. \A n \in Node : \A p \in pendingSend[n] : Genuine(p)'
  BY <1>1 DEF Provenance, TypeOK
<1>4. \A n \in Node : \A r \in queue[n] \cup draining[n].left : Genuine(r.packet)'
  BY <1>1 DEF Provenance, TypeOK, QueueRecord, DrainCall
<1> QED  BY <1>2, <1>3, <1>4 DEF Provenance

LEMMA EvidenceInit == Init => EvidenceInv
<1> SUFFICES ASSUME Init PROVE EvidenceInv  OBVIOUS
<1>1. \A n \in Node : FirstAnnounce(n).type = "announce"
  BY DEF FirstAnnounce, AnnouncePacket
<1>2. Provenance  BY <1>1 DEF Init, Provenance, NoDrain
<1>3. OnlyRecipientStores /\ DeliveredIsEvidence
  BY DEF Init, OnlyRecipientStores, DeliveredIsEvidence
<1> QED  BY <1>2, <1>3, TypeInit DEF EvidenceInv

LEMMA EvidenceStep == EvidenceInv /\ [Next]_vars => EvidenceInv'
<1> SUFFICES ASSUME EvidenceInv, [Next]_vars PROVE EvidenceInv'  OBVIOUS
<1>0. /\ TypeOK /\ TypeOK'
      /\ \A m \in Message : Received(m) => Received(m)'
      /\ \A n \in Node : draining'[n].left \subseteq draining[n].left \cup queue[n]
  BY TypeStep, ReceivedStays, LeftWasStored DEF EvidenceInv
<1> USE DEF linkVars, drainVars, stateVars, recordVars, historyVars
<1> DEFINE Rest == OnlyRecipientStores /\ DeliveredIsEvidence
<1>1. ASSUME NEW m \in Message, QueueMessage(m) PROVE Provenance' /\ Rest'
  <2> DEFINE p == MessagePacket(m, From[m], To[m], now + MessageTtl)
  <2>1. Genuine(p)'  BY DEF Genuine, MessagePacket, MessageId
  <2>2. From[m] \in Node  BY NetworkAssumption
  <2>3. \A n \in Node : \A q \in pendingSend'[n] : q \in pendingSend[n] \/ q = p
    BY <1>1, <1>0, <2>2 DEF QueueMessage, TypeOK
  <2>4. Provenance'
    BY <1>1, <1>0, <2>1, <2>3, ProvenanceFrom DEF QueueMessage, EvidenceInv
  <2>5. Rest'
    BY <1>1, <1>0 DEF QueueMessage, EvidenceInv, OnlyRecipientStores, DeliveredIsEvidence, TypeOK, OutboxRecord
  <2> QED  BY <2>4, <2>5
<1>2. ASSUME NEW n \in Node, NEW p \in pendingSend[n], SendPending(n, p) PROVE Provenance' /\ Rest'
  <2>1. /\ \A f \in wire' : f \in wire \/ (f.packet = p /\ f.from = n)
        /\ \A k \in Node : \A r \in queue'[k] :
              r \in queue[k] \/ (k = n /\ r.packet = p /\ p.hopCount < p.hopLimit)
    BY <1>2, <1>0, SendOrQueueCopies DEF SendPending, TypeOK
  <2>2. Genuine(p)'
    BY <1>0, <1>2 DEF SendPending, EvidenceInv, Provenance, Genuine, MessageId, TypeOK, Packet
  <2>3. \A k \in Node : \A q \in pendingSend'[k] : q \in pendingSend[k]
    BY <1>2, <1>0 DEF SendPending, TypeOK
  <2>4. Provenance'
    BY <1>2, <1>0, <2>1, <2>2, <2>3, ProvenanceFrom DEF SendPending, EvidenceInv
  <2>5. Rest'
    BY <1>0, <1>2 DEF SendPending, EvidenceInv, OnlyRecipientStores, DeliveredIsEvidence
  <2> QED  BY <2>4, <2>5
<1>3. ASSUME NEW n \in Node, NEW f \in wire, ReceiveDuplicate(n, f) PROVE Provenance' /\ Rest'
  <2>1. Provenance'
    BY <1>3, <1>0, ProvenanceFrom DEF ReceiveDuplicate, EvidenceInv
  <2>2. Rest'  BY <1>0, <1>3 DEF ReceiveDuplicate, EvidenceInv, OnlyRecipientStores, DeliveredIsEvidence
  <2> QED  BY <2>1, <2>2
<1>4. ASSUME NEW n \in Node, NEW f \in wire, RelayOnward(n, f),
             UNCHANGED <<alerts, outbox, announceFrame, pendingSend>>
      PROVE  Provenance' /\ Rest'
  <2>1. f.packet \in Packet  BY <1>0 DEF TypeOK, Frame
  <2>2. Genuine(f.packet)  BY DEF EvidenceInv, Provenance
  <2>3. Genuine(RelayPacket(f.packet, n))'
    BY <1>0, <1>4, <2>1, <2>2, RelayKeeps DEF Genuine, MessageId, Packet
  <2>4. Provenance'
    BY <1>4, <1>0, <2>3, RelayOnwardCopies, ProvenanceFrom DEF EvidenceInv
  <2>5. Rest'  BY <1>0, <1>4 DEF EvidenceInv, OnlyRecipientStores, DeliveredIsEvidence
  <2> QED  BY <2>4, <2>5
<1>5. ASSUME NEW n \in Node, NEW f \in wire, ReceiveAnnounce(n, f) \/ RelayFrame(n, f)
      PROVE  Provenance' /\ Rest'
  BY <1>4, <1>5 DEF ReceiveAnnounce, RelayFrame
<1>6. ASSUME NEW n \in Node, NEW f \in wire, ReceiveMessage(n, f) PROVE Provenance' /\ Rest'
  <2> DEFINE p == f.packet
  <2> DEFINE m == p.messageId
  <2> DEFINE expiry == IF p.expiresAt < now + AckTtl THEN p.expiresAt ELSE now + AckTtl
  <2> PICK a : a = AckPacket(p, ackCount[m], expiry)  OBVIOUS
  <2>1. p \in Packet /\ Genuine(p) /\ p.type = "message" /\ p.recipient = n
    BY <1>6, <1>0 DEF ReceiveMessage, EvidenceInv, Provenance, TypeOK, Frame
  <2>2. m \in Message /\ n = To[m] /\ p.sender = From[m]
    BY <2>1 DEF Genuine, Packet
  <2>3. \/ UNCHANGED <<alerts, pendingSend>>
        \/ /\ alerts' = [alerts EXCEPT ![n] = @ \cup ({m} \cap Alerting)]
           /\ ackCount' = [ackCount EXCEPT ![m] = @ + 1]
           /\ pendingSend' = [pendingSend EXCEPT ![n] = @ \cup {a}]
    BY <1>6 DEF ReceiveMessage
  <2>4. UNCHANGED <<queue, outbox, announceFrame>> /\ wire' \subseteq wire
    BY <1>6 DEF ReceiveMessage
  <2>5. a.type = "ack" /\ a.sender = n /\ a.recipient = From[m] /\ a.messageId = m
    BY <2>1, <2>2 DEF AckPacket
  <2> HIDE DEF m, p
  <2>t. /\ alerts \in [Node -> SUBSET Message] /\ pendingSend \in [Node -> SUBSET Packet]
        /\ ackCount \in [Message -> Nat]
    BY <1>0 DEF TypeOK
  <2>7. \A k \in Node : \A q \in pendingSend'[k] : q \in pendingSend[k] \/ Genuine(q)'
    <3>1. CASE UNCHANGED <<alerts, pendingSend>>  BY <3>1
    <3>2. CASE /\ alerts' = [alerts EXCEPT ![n] = @ \cup ({m} \cap Alerting)]
               /\ ackCount' = [ackCount EXCEPT ![m] = @ + 1]
               /\ pendingSend' = [pendingSend EXCEPT ![n] = @ \cup {a}]
      <4>1. Received(m)'
        <5>1. ackCount'[m] = ackCount[m] + 1 /\ ackCount[m] \in Nat  BY <2>t, <2>2, <3>2
        <5>2. n \in Node /\ (m \in Alerting => m \in alerts'[n])  BY <2>t, <2>2, <3>2
        <5> QED  BY <5>1, <5>2, <2>2 DEF Received
      <4>2. Genuine(a)'  BY <4>1, <2>2, <2>5 DEF Genuine
      <4>3. \A k \in Node : \A q \in pendingSend'[k] : q \in pendingSend[k] \/ q = a
        BY <2>t, <3>2
      <4> QED  BY <4>2, <4>3
    <3> QED  BY <2>3, <3>1, <3>2
  <2>8. Provenance'
    BY <1>0, <2>4, <2>7, ProvenanceFrom DEF EvidenceInv
  <2>9. OnlyRecipientStores'
    BY <2>t, <2>2, <2>3 DEF EvidenceInv, OnlyRecipientStores
  <2>10. DeliveredIsEvidence'
    BY <1>0, <2>4 DEF EvidenceInv, DeliveredIsEvidence
  <2> QED  BY <2>8, <2>9, <2>10
<1>7. ASSUME NEW n \in Node, NEW f \in wire, ReceiveAck(n, f) PROVE Provenance' /\ Rest'
  <2> DEFINE p == f.packet
  <2> DEFINE m == p.messageId
  <2>1. p \in Packet /\ Genuine(p) /\ p.type = "ack"
    BY <1>7, <1>0 DEF ReceiveAck, EvidenceInv, Provenance, TypeOK, Frame
  <2>2. m \in Message /\ Received(m)
    BY <2>1 DEF Genuine, Packet
  <2>3. outbox' = outbox \/ outbox' = [outbox EXCEPT ![m].state = "delivered"]
    BY <1>7 DEF ReceiveAck
  <2>4. UNCHANGED <<queue, alerts, announceFrame, pendingSend>> /\ wire' \subseteq wire
    BY <1>7 DEF ReceiveAck
  <2> HIDE DEF m, p
  <2>5. Provenance'  BY <1>0, <2>4, ProvenanceFrom DEF EvidenceInv
  <2>6. DeliveredIsEvidence'
    BY <1>0, <2>2, <2>3, <2>4 DEF EvidenceInv, DeliveredIsEvidence, TypeOK, OutboxRecord
  <2>7. OnlyRecipientStores'  BY <2>4 DEF EvidenceInv, OnlyRecipientStores
  <2> QED  BY <2>5, <2>6, <2>7
<1>8. ASSUME NEW n \in Node, NEW r \in draining[n].left,
             DrainExpired(n, r) \/ DrainSkip(n, r) \/ DrainSend(n, r) \/ DrainFail(n, r)
      PROVE  Provenance' /\ Rest'
  <2>1. UNCHANGED <<alerts, outbox, announceFrame, pendingSend>>
    BY <1>8 DEF DrainExpired, DrainSkip, DrainSend, DrainFail
  <2>2. \A f \in wire' : f \in wire \/ f.packet = r.packet
    BY <1>8 DEF DrainExpired, DrainSkip, DrainSend, DrainFail, Send, FrameTo
  <2>3. \A k \in Node : \A s \in queue'[k] : s \in queue[k] \/ (k = n /\ s.packet = r.packet)
    BY <1>8, <1>0, DrainKeepsPackets
  <2>4. Genuine(r.packet)'
    <3>1. r.packet \in Packet
      BY <1>0, <1>8, TurnTakes DEF DrainExpired, DrainSkip, DrainSend, DrainFail, Due
    <3>2. Genuine(r.packet)  BY DEF EvidenceInv, Provenance
    <3> QED  BY <1>0, <3>1, <3>2 DEF Genuine, MessageId, Packet
  <2>5. Provenance'
    BY <1>0, <2>1, <2>2, <2>3, <2>4, ProvenanceFrom DEF EvidenceInv
  <2>6. Rest'  BY <1>0, <2>1 DEF EvidenceInv, OnlyRecipientStores, DeliveredIsEvidence
  <2> QED  BY <2>5, <2>6
<1>9. ASSUME UNCHANGED <<alerts, outbox>>, wire' \subseteq wire,
             \A n \in Node : queue'[n] \subseteq queue[n] /\ pendingSend'[n] \subseteq pendingSend[n],
             \A n \in Node : \/ announceFrame'[n] \in {announceFrame[n], NoFrame}
                             \/ announceFrame'[n].type = "announce"
      PROVE  Provenance' /\ Rest'
  <2>1. Provenance'  BY <1>0, <1>9, ProvenanceFrom DEF EvidenceInv
  <2>2. Rest'  BY <1>0, <1>9 DEF EvidenceInv, OnlyRecipientStores, DeliveredIsEvidence
  <2> QED  BY <2>1, <2>2
<1>10. ASSUME NEW n \in Node, NEW id \in sending[n], DrainRemove(n, id) PROVE Provenance' /\ Rest'
  <2>1. \A k \in Node : queue'[k] \subseteq queue[k]
    BY <1>10, <1>0 DEF DrainRemove, Without, TypeOK
  <2> QED  BY <1>9, <1>10, <2>1 DEF DrainRemove
<1>11. ASSUME NEW n \in Node, StartMesh(n) PROVE Provenance' /\ Rest'
  <2>1. \A k \in Node : announceFrame'[k] = announceFrame[k] \/ announceFrame'[k].type = "announce"
    BY <1>11, <1>0 DEF StartMesh, AnnouncePacket, TypeOK
  <2> QED  BY <1>9, <1>11, <2>1 DEF StartMesh
<1>12. ASSUME NEW x \in Node, NEW y \in Node, LinkUp(x, y) \/ LinkDown(x, y) \/ PeerLost(x, y)
       PROVE  Provenance' /\ Rest'
  BY <1>9, <1>12 DEF LinkUp, LinkDown, PeerLost
<1>13. ASSUME NEW n \in Node, NEW l \in Node, PeerConnected(n, l) PROVE Provenance' /\ Rest'
  <2>1. \A f \in wire' : f \in wire \/ f.packet.type = "announce"
    BY <1>13 DEF PeerConnected, FrameTo, EvidenceInv, Provenance
  <2>2. \A f \in wire' : f \in wire \/ Genuine(f.packet)'  BY <2>1 DEF Genuine
  <2>3. Provenance'
    BY <1>13, <1>0, <2>2, ProvenanceFrom DEF PeerConnected, EvidenceInv
  <2>4. Rest'  BY <1>0, <1>13 DEF PeerConnected, EvidenceInv, OnlyRecipientStores, DeliveredIsEvidence
  <2> QED  BY <2>3, <2>4
<1>14. ASSUME NEW n \in Node, StopMesh(n) \/ Restart(n) \/ FinishStop(n) \/ RestartFromService(n)
       PROVE  Provenance' /\ Rest'
  <2>1. UNCHANGED <<queue, outbox, alerts>>
    BY <1>14 DEF StopMesh, Restart, FinishStop, RestartFromService
  <2>2. \A k \in Node : pendingSend'[k] \subseteq pendingSend[k]
    BY <1>14, <1>0 DEF StopMesh, Restart, FinishStop, RestartFromService, TypeOK
  <2>3. wire' \subseteq wire
    BY <1>14 DEF StopMesh, Restart, FinishStop, RestartFromService, Disconnect
  <2>4. \A k \in Node : announceFrame'[k] \in {announceFrame[k], NoFrame}
    BY <1>14, <1>0 DEF StopMesh, Restart, FinishStop, RestartFromService, TypeOK
  <2> QED  BY <1>9, <2>1, <2>2, <2>3, <2>4
<1>15. ASSUME NEW f \in wire, LoseFrame(f) PROVE Provenance' /\ Rest'
  BY <1>9, <1>15 DEF LoseFrame
<1>16. CASE Tick \/ UNCHANGED vars
  <2>1. UNCHANGED <<wire, queue, pendingSend, alerts, outbox, announceFrame>>
    BY <1>16 DEF Tick, vars
  <2> QED  BY <1>0, <1>9, <2>1 DEF EvidenceInv
<1>17. ASSUME NEW n \in Node, DrainStart(n) PROVE Provenance' /\ Rest'
  BY <1>9, <1>17 DEF DrainStart
<1>18. stopping \subseteq Node /\ \A f \in wire : f.to \in Node  BY <1>0 DEF TypeOK, Frame
<1> QED
  BY <1>0, <1>1, <1>2, <1>3, <1>5, <1>6, <1>7, <1>8, <1>10, <1>11, <1>12, <1>13, <1>14, <1>15,
     <1>16, <1>17, <1>18
  DEF Next, AppNext, Environment, Receive, Drain, EvidenceInv

\* What the author sees as delivered, its recipient has decrypted, and stored if it carries
\* an alert, for every number of
\* devices, relays, restarts, losses and retries.
THEOREM EvidenceCorrect == Spec => [](DeliveredIsEvidence /\ OnlyRecipientStores /\ Provenance)
<1>1. Init => EvidenceInv  BY EvidenceInit
<1>2. EvidenceInv /\ [Next]_vars => EvidenceInv'  BY EvidenceStep
<1>3. EvidenceInv => DeliveredIsEvidence /\ OnlyRecipientStores /\ Provenance  BY DEF EvidenceInv
<1> QED  BY <1>1, <1>2, <1>3, PTL DEF Spec
=============================================================================
