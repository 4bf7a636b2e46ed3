------------------------- MODULE MeshCopiesProofs -------------------------
(* Proofs about MeshNetwork: what holds of every copy of a packet, that a  *)
(* message is shown once, that a relay record is durable, that nothing     *)
(* goes back over the link it came by, and in which ways the last copy of  *)
(* a message may go.                                                       *)
EXTENDS MeshNetworkProofs

\* A copy that device n may hold or may have put on the wire.
Fit(n, p) == HeldBy(n, p) /\ p.hopCount <= p.hopLimit

FitInv ==
    /\ \A f \in wire : Fit(f.from, f.packet)
    /\ \A n \in Node : \A p \in pendingSend[n] : Fit(n, p)
    /\ \A n \in Node : \A r \in queue[n] \cup draining[n].left :
          Fit(n, r.packet) /\ r.packet.hopCount < r.packet.hopLimit
    /\ \A n \in Node : announceFrame[n] # NoFrame =>
          announceFrame[n].type = "announce" /\ announceFrame[n].hopCount <= announceFrame[n].hopLimit

LEMMA FreshAreFit ==
    /\ \A m, x, y, e : Fit(x, MessagePacket(m, x, y, e))
    /\ \A p, k, e : Fit(p.recipient, AckPacket(p, k, e))
    /\ \A n, l, k, e : Fit(l, AnnouncePacket(n, k, e))
<1> USE RoutingAssumption DEF Fit, HeldBy
<1>1. \A m, x, y, e : Fit(x, MessagePacket(m, x, y, e))  BY DEF MessagePacket
<1>2. \A p, k, e : Fit(p.recipient, AckPacket(p, k, e))  BY DEF AckPacket
<1>3. \A n, l, k, e : Fit(l, AnnouncePacket(n, k, e))  BY DEF AnnouncePacket
<1> QED  BY <1>1, <1>2, <1>3

\* A relay is not the author, so the copy it makes has made a hop.
LEMMA RelayedAreFit ==
    ASSUME NEW p \in Packet, NEW n \in Node, NEW t, ShouldRelay(p, n, t)
    PROVE  Fit(n, RelayPacket(p, n))
<1>1. p.hopCount \in Nat /\ p.hopLimit \in Nat  BY DEF Packet, PacketFields
<1>2. p.sender # n /\ p.hopCount < p.hopLimit  BY DEF ShouldRelay, CanRelay
<1> QED  BY <1>1, <1>2, RelayKeeps DEF Fit, HeldBy

LEMMA FitInit == Init => FitInv
<1> SUFFICES ASSUME Init PROVE FitInv  OBVIOUS
<1>1. \A n \in Node : FirstAnnounce(n).type = "announce"
                      /\ FirstAnnounce(n).hopCount <= FirstAnnounce(n).hopLimit
  BY RoutingAssumption DEF FirstAnnounce, AnnouncePacket
<1> QED  BY <1>1 DEF Init, FitInv, NoDrain

LEMMA FitStep == EvidenceInv /\ FitInv /\ [Next]_vars => FitInv'
<1> SUFFICES ASSUME EvidenceInv, FitInv, [Next]_vars PROVE FitInv'  OBVIOUS
<1>0. /\ TypeOK /\ Provenance
      /\ \A n \in Node : draining'[n].left \subseteq draining[n].left \cup queue[n]
  BY LeftWasStored DEF EvidenceInv
<1>p. pendingSend \in [Node -> SUBSET Packet]  BY <1>0 DEF TypeOK
<1>a. announceFrame \in [Node -> Packet \cup {NoFrame}]  BY <1>0 DEF TypeOK
<1>q. queue \in [Node -> SUBSET QueueRecord]  BY <1>0 DEF TypeOK
<1> USE DEF linkVars, drainVars, stateVars, recordVars, historyVars
<1>1. ASSUME NEW m \in Message, QueueMessage(m) PROVE FitInv'
  <2> PICK p : p = MessagePacket(m, From[m], To[m], now + MessageTtl)  OBVIOUS
  <2>1. Fit(From[m], p)  BY FreshAreFit
  <2>2. From[m] \in Node  BY NetworkAssumption
  <2>3. \A n \in Node : \A q \in pendingSend'[n] : q \in pendingSend[n] \/ (n = From[m] /\ q = p)
    BY <1>1, <1>p, <2>2 DEF QueueMessage
  <2> QED  BY <1>0, <1>1, <2>1, <2>3 DEF QueueMessage, FitInv
<1>2. ASSUME NEW n \in Node, NEW p \in pendingSend[n], SendPending(n, p) PROVE FitInv'
  <2>1. /\ \A f \in wire' : f \in wire \/ (f.packet = p /\ f.from = n)
        /\ \A k \in Node : \A r \in queue'[k] :
              r \in queue[k] \/ (k = n /\ r.packet = p /\ p.hopCount < p.hopLimit)
    BY <1>2, <1>0, <1>p, SendOrQueueCopies DEF SendPending
  <2>2. \A k \in Node : \A q \in pendingSend'[k] : q \in pendingSend[k]
    BY <1>2, <1>p DEF SendPending
  <2>3. Fit(n, p)  BY DEF FitInv
  <2> QED  BY <1>0, <1>2, <2>1, <2>2, <2>3 DEF SendPending, FitInv
<1>3. ASSUME NEW n \in Node, NEW f \in wire, ReceiveDuplicate(n, f) \/ ReceiveAck(n, f) PROVE FitInv'
  <2>1. UNCHANGED <<queue, pendingSend, announceFrame>> /\ wire' \subseteq wire
    BY <1>3 DEF ReceiveDuplicate, ReceiveAck
  <2> QED  BY <1>0, <2>1 DEF FitInv
<1>4. ASSUME NEW n \in Node, NEW f \in wire, ReceiveAnnounce(n, f) \/ RelayFrame(n, f) PROVE FitInv'
  <2>1. RelayOnward(n, f) /\ UNCHANGED <<pendingSend, announceFrame>>
    BY <1>4 DEF ReceiveAnnounce, RelayFrame
  <2>2. f.packet \in Packet  BY <1>0 DEF TypeOK, Frame
  <2>3. ShouldRelay(f.packet, n, now) => Fit(n, RelayPacket(f.packet, n))
    BY <2>2, RelayedAreFit
  <2> QED  BY <1>0, <2>1, <2>3, RelayOnwardCopies DEF FitInv
<1>5. ASSUME NEW n \in Node, NEW f \in wire, ReceiveMessage(n, f) PROVE FitInv'
  <2> DEFINE p == f.packet
  <2> DEFINE expiry == IF p.expiresAt < now + AckTtl THEN p.expiresAt ELSE now + AckTtl
  <2> PICK a : a = AckPacket(p, ackCount[p.messageId], expiry)  OBVIOUS
  <2>1. \/ UNCHANGED pendingSend
        \/ pendingSend' = [pendingSend EXCEPT ![n] = @ \cup {a}]
    BY <1>5 DEF ReceiveMessage
  <2>2. p.recipient = n /\ UNCHANGED <<queue, announceFrame>> /\ wire' \subseteq wire
    BY <1>5 DEF ReceiveMessage
  <2>3. Fit(n, a)  BY <2>2, FreshAreFit
  <2>4. \A k \in Node : \A q \in pendingSend'[k] : q \in pendingSend[k] \/ (k = n /\ q = a)
    BY <2>1, <1>p
  <2> QED  BY <1>0, <2>2, <2>3, <2>4 DEF FitInv
<1>6. ASSUME NEW n \in Node, NEW r \in draining[n].left,
             DrainExpired(n, r) \/ DrainSkip(n, r) \/ DrainSend(n, r) \/ DrainFail(n, r)
      PROVE  FitInv'
  <2>1. UNCHANGED <<announceFrame, pendingSend>>
    BY <1>6 DEF DrainExpired, DrainSkip, DrainSend, DrainFail
  <2>2. \A f \in wire' : f \in wire \/ (f.from = n /\ f.packet = r.packet)
    BY <1>6 DEF DrainExpired, DrainSkip, DrainSend, DrainFail, Send, FrameTo
  <2>3. \A k \in Node : \A s \in queue'[k] : s \in queue[k] \/ (k = n /\ s.packet = r.packet)
    BY <1>6, <1>0, DrainKeepsPackets
  <2>4. Fit(n, r.packet) /\ r.packet.hopCount < r.packet.hopLimit  BY DEF FitInv
  <2> QED  BY <1>0, <2>1, <2>2, <2>3, <2>4 DEF FitInv
<1>7. ASSUME NEW n \in Node, NEW id \in sending[n], DrainRemove(n, id) PROVE FitInv'
  <2>1. \A k \in Node : queue'[k] \subseteq queue[k]  BY <1>7, <1>q DEF DrainRemove, Without
  <2> QED  BY <1>0, <1>7, <2>1 DEF DrainRemove, FitInv
<1>8. ASSUME NEW n \in Node, StartMesh(n) PROVE FitInv'
  <2> PICK a : a = AnnouncePacket(n, starts[n] + 1, now + AnnounceTtl)  OBVIOUS
  <2>1. a.type = "announce" /\ a.hopCount <= a.hopLimit
    BY RoutingAssumption DEF AnnouncePacket
  <2>2. \A k \in Node : announceFrame'[k] \in {announceFrame[k], a}
    BY <1>8, <1>a DEF StartMesh
  <2>3. UNCHANGED <<wire, queue, pendingSend>>  BY <1>8 DEF StartMesh
  <2> QED  BY <1>0, <2>1, <2>2, <2>3 DEF FitInv
<1>9. ASSUME NEW n \in Node, NEW l \in Node, PeerConnected(n, l) PROVE FitInv'
  <2>1. \A f \in wire' : f \in wire \/ (f.packet = announceFrame[n] /\ announceFrame[n] # NoFrame)
    BY <1>9 DEF PeerConnected, FrameTo
  <2>2. \A f \in wire' : f \in wire \/ Fit(f.from, f.packet)
    BY <2>1 DEF FitInv, Fit, HeldBy
  <2> QED  BY <1>0, <1>9, <2>2 DEF PeerConnected, FitInv
<1>10. ASSUME UNCHANGED queue, wire' \subseteq wire,
              \A n \in Node : pendingSend'[n] \subseteq pendingSend[n],
              \A n \in Node : announceFrame'[n] \in {announceFrame[n], NoFrame}
       PROVE  FitInv'
  BY <1>0, <1>10 DEF FitInv
<1>11. ASSUME NEW n \in Node, StopMesh(n) \/ Restart(n) \/ FinishStop(n) \/ RestartFromService(n)
       PROVE  FitInv'
  <2>1. UNCHANGED queue /\ wire' \subseteq wire
    BY <1>11 DEF StopMesh, Restart, FinishStop, RestartFromService, Disconnect
  <2>2. \A k \in Node : pendingSend'[k] \subseteq pendingSend[k]
    BY <1>11, <1>p DEF StopMesh, Restart, FinishStop, RestartFromService
  <2>3. \A k \in Node : announceFrame'[k] \in {announceFrame[k], NoFrame}
    BY <1>11, <1>a DEF StopMesh, Restart, FinishStop, RestartFromService
  <2> QED  BY <1>10, <2>1, <2>2, <2>3
<1>12. ASSUME NEW x \in Node, NEW y \in Node, LinkUp(x, y) \/ LinkDown(x, y) \/ PeerLost(x, y)
       PROVE  FitInv'
  <2>1. UNCHANGED <<queue, pendingSend, announceFrame>> /\ wire' \subseteq wire
    BY <1>12 DEF LinkUp, LinkDown, PeerLost
  <2> QED  BY <1>10, <2>1
<1>13. ASSUME NEW f \in wire, LoseFrame(f) PROVE FitInv'
  <2>1. UNCHANGED <<queue, pendingSend, announceFrame>> /\ wire' \subseteq wire
    BY <1>13 DEF LoseFrame
  <2> QED  BY <1>10, <2>1
<1>14. CASE Tick \/ UNCHANGED vars
  <2>1. UNCHANGED <<wire, queue, pendingSend, announceFrame>>  BY <1>14 DEF Tick, vars
  <2> QED  BY <1>10, <2>1
<1>16. ASSUME NEW n \in Node, DrainStart(n) PROVE FitInv'
  BY <1>10, <1>16 DEF DrainStart
<1>15. stopping \subseteq Node /\ \A f \in wire : f.to \in Node  BY <1>0 DEF TypeOK, Frame
<1> QED
  BY <1>1, <1>2, <1>3, <1>4, <1>5, <1>6, <1>7, <1>8, <1>9, <1>11, <1>12, <1>13, <1>14, <1>15, <1>16
  DEF Next, AppNext, Environment, Receive, Drain

\* No copy makes more hops than its limit, an exhausted one is never stored, and no author
\* relays its own packet, for every topology and every number of restarts and retries.
THEOREM CopiesCorrect == Spec => [](LastHopIsSender /\ HopBudget)
<1>1. Init => EvidenceInv /\ FitInv  BY EvidenceInit, FitInit
<1>2. EvidenceInv /\ FitInv /\ [Next]_vars => (EvidenceInv /\ FitInv)'
  BY EvidenceStep, FitStep
<1>3. FitInv => LastHopIsSender /\ HopBudget
  BY DEF FitInv, Fit, LastHopIsSender, HopBudget, Copies, OnWire, Pending, InQueues
<1> QED  BY <1>1, <1>2, <1>3, PTL DEF Spec

-----------------------------------------------------------------------------
\* ShownOnce needs Provenance: the id that is remembered is the id of the message shown.
LEMMA ShownStep == EvidenceInv /\ ShownOnce /\ [Next]_vars => ShownOnce'
<1> SUFFICES ASSUME EvidenceInv, ShownOnce, [Next]_vars PROVE ShownOnce'  OBVIOUS
<1>0. TypeOK /\ Provenance  BY DEF EvidenceInv
<1>s. /\ seen \in [Node -> SUBSET PacketId]
      /\ shown \in [Node -> [Message -> Nat]]
  BY <1>0 DEF TypeOK
<1> USE DEF linkVars, drainVars, stateVars, recordVars, historyVars
<1>1. ASSUME UNCHANGED shown, \A n \in Node : seen[n] \subseteq seen'[n] PROVE ShownOnce'
  BY <1>1 DEF ShownOnce, MessageId
<1>2. ASSUME NEW n \in Node, NEW f \in wire, ReceiveMessage(n, f) PROVE ShownOnce'
  <2> DEFINE m == f.packet.messageId
  <2>1. f.packet \in Packet /\ f.packet.type = "message" /\ Genuine(f.packet)
    BY <1>2, <1>0 DEF ReceiveMessage, Provenance, TypeOK, Frame
  <2>2. m \in Message /\ f.packet.id = MessageId(m)
    BY <2>1 DEF Genuine, Packet
  <2>3. f.packet.id \notin seen[n] /\ seen' = [seen EXCEPT ![n] = @ \cup {f.packet.id}]
    BY <1>2 DEF ReceiveMessage, Accept
  <2>4. shown' = shown \/ shown' = [shown EXCEPT ![n][m] = @ + 1]
    BY <1>2 DEF ReceiveMessage
  <2> HIDE DEF m
  <2>5. shown[n][m] = 0
    <3>1. shown[n][m] \in Nat  BY <2>2, <1>s
    <3>2. shown[n][m] <= 1 /\ (shown[n][m] = 1 => MessageId(m) \in seen[n])
      BY <2>2 DEF ShownOnce
    <3>3. shown[n][m] # 1  BY <2>2, <2>3, <3>2
    <3> QED  BY <3>1, <3>2, <3>3
  <2>6. \A k \in Node : seen[k] \subseteq seen'[k]  BY <2>3, <1>s
  <2>7. MessageId(m) \in seen'[n]  BY <2>2, <2>3, <1>s
  <2>8. CASE shown' = shown  BY <2>6, <2>8, <1>1
  <2>9. CASE shown' = [shown EXCEPT ![n][m] = @ + 1]
    <3>1. \A k \in Node, x \in Message :
             shown'[k][x] = IF k = n /\ x = m THEN 1 ELSE shown[k][x]
      BY <2>2, <2>5, <2>9, <1>s
    <3> SUFFICES ASSUME NEW k \in Node, NEW x \in Message
                 PROVE  shown'[k][x] <= 1 /\ (shown'[k][x] = 1 => MessageId(x) \in seen'[k])
      BY DEF ShownOnce, MessageId
    <3>2. CASE k = n /\ x = m  BY <3>1, <3>2, <2>7
    <3>3. CASE ~(k = n /\ x = m)  BY <3>1, <3>3, <2>6 DEF ShownOnce
    <3> QED  BY <3>2, <3>3
  <2> QED  BY <2>4, <2>8, <2>9
<1>3. ASSUME NEW n \in Node, NEW f \in wire,
             ReceiveDuplicate(n, f) \/ ReceiveAnnounce(n, f) \/ RelayFrame(n, f) \/ ReceiveAck(n, f)
      PROVE  ShownOnce'
  <2>1. UNCHANGED shown /\ (seen' = seen \/ seen' = [seen EXCEPT ![n] = @ \cup {f.packet.id}])
    BY <1>3 DEF ReceiveDuplicate, ReceiveAnnounce, RelayFrame, ReceiveAck, Accept
  <2> QED  BY <2>1, <1>1, <1>s
<1>4. ASSUME NEW n \in Node, Restart(n) PROVE ShownOnce'
  <2>1. /\ seen' = [seen EXCEPT ![n] = {}]
        /\ shown' = [shown EXCEPT ![n] = [m \in Message |-> 0]]
    BY <1>4 DEF Restart
  <2> SUFFICES ASSUME NEW k \in Node, NEW x \in Message
               PROVE  shown'[k][x] <= 1 /\ (shown'[k][x] = 1 => MessageId(x) \in seen'[k])
    BY DEF ShownOnce, MessageId
  <2>2. CASE k = n  BY <2>1, <2>2, <1>s
  <2>3. CASE k # n  BY <2>1, <2>3, <1>s DEF ShownOnce
  <2> QED  BY <2>2, <2>3
<1>5. ASSUME NEW n \in Node, StopMesh(n) \/ FinishStop(n) \/ RestartFromService(n) \/ StartMesh(n)
             \/ DrainStart(n)
      PROVE  UNCHANGED <<seen, shown>>
  BY <1>5 DEF StopMesh, FinishStop, RestartFromService, StartMesh, DrainStart
<1>6. ASSUME NEW n \in Node, NEW r \in draining[n].left,
             DrainExpired(n, r) \/ DrainSkip(n, r) \/ DrainSend(n, r) \/ DrainFail(n, r)
      PROVE  UNCHANGED <<seen, shown>>
  BY <1>6 DEF DrainExpired, DrainSkip, DrainSend, DrainFail
<1>7. ASSUME NEW n \in Node, NEW id \in sending[n], DrainRemove(n, id) PROVE UNCHANGED <<seen, shown>>
  BY <1>7 DEF DrainRemove
<1>8. ASSUME NEW x \in Node, NEW y \in Node,
             LinkUp(x, y) \/ LinkDown(x, y) \/ PeerConnected(x, y) \/ PeerLost(x, y)
      PROVE  UNCHANGED <<seen, shown>>
  BY <1>8 DEF LinkUp, LinkDown, PeerConnected, PeerLost
<1>9. ASSUME NEW f \in wire, LoseFrame(f) PROVE UNCHANGED <<seen, shown>>  BY <1>9 DEF LoseFrame
<1>10. ASSUME NEW m \in Message, QueueMessage(m) PROVE UNCHANGED <<seen, shown>>
  BY <1>10 DEF QueueMessage
<1>11. ASSUME NEW n \in Node, NEW p \in pendingSend[n], SendPending(n, p) PROVE UNCHANGED <<seen, shown>>
  BY <1>11 DEF SendPending
<1>12. ASSUME Tick \/ UNCHANGED vars PROVE UNCHANGED <<seen, shown>>  BY <1>12 DEF Tick, vars
<1>13. stopping \subseteq Node /\ \A f \in wire : f.to \in Node  BY <1>0 DEF TypeOK, Frame
<1>14. ASSUME UNCHANGED <<seen, shown>> PROVE ShownOnce'  BY <1>1, <1>14
<1> QED
  BY <1>2, <1>3, <1>4, <1>5, <1>6, <1>7, <1>8, <1>9, <1>10, <1>11, <1>12, <1>13, <1>14
  DEF Next, AppNext, Environment, Receive, Drain

\* In one life of its process a device shows a message at most once, however many copies,
\* relays and retries there are.
THEOREM ShownOnceCorrect == Spec => []ShownOnce
<1>1. Init => EvidenceInv /\ ShownOnce
  BY EvidenceInit DEF Init, ShownOnce
<1>2. EvidenceInv /\ ShownOnce /\ [Next]_vars => (EvidenceInv /\ ShownOnce)'
  BY EvidenceStep, ShownStep
<1> QED  BY <1>1, <1>2, PTL DEF Spec

-----------------------------------------------------------------------------
\* QueueIsDurable needs one record for an id: the one that takes another's place counts
\* its attempts from there.
OneRecord == \A n \in Node : \A r, s \in queue[n] : r.packet.id = s.packet.id => r = s

\* What a drain has read and not looked at is still stored, with the attempts it read.
DrainInv ==
    /\ OneRecord
    /\ \A n \in Node : draining[n].at <= now
    /\ \A n \in Node : \A r, s \in draining[n].left : r.packet.id = s.packet.id => r = s
    /\ \A n \in Node : \A s \in draining[n].left :
          /\ s.packet.id \notin sending[n]
          /\ \E r \in queue[n] : r.packet.id = s.packet.id /\ r.attempts = s.attempts

\* What a step may do to the records of a device.
Durable ==
    \A n \in Node : \A r \in queue[n] :
      \/ \E s \in queue'[n] : s.packet.id = r.packet.id /\ s.attempts >= r.attempts
      \/ r.packet.id \in sending[n]
      \/ r.attempts + 1 >= MaxRelayAttempts
      \/ \E s \in draining[n].left : s.packet.id = r.packet.id /\ s.packet.expiresAt <= now

\* Every record has a successor with as many attempts.
Counted ==
    \A n \in Node : \A r \in queue[n] :
       \E s \in queue'[n] : s.packet.id = r.packet.id /\ s.attempts = r.attempts

\* Replacing the record of an id keeps one record for it.
LEMMA Replaced ==
    ASSUME TypeOK, OneRecord, NEW n \in Node, NEW id, NEW new,
           new.packet.id = id,
           queue' = [queue EXCEPT ![n] = Without(n, id) \cup {new}]
    PROVE  OneRecord'
<1>1. queue \in [Node -> SUBSET QueueRecord]  BY DEF TypeOK
<1> QED  BY <1>1 DEF OneRecord, Without

LEMMA Removed ==
    ASSUME TypeOK, OneRecord, NEW n \in Node, NEW id,
           queue' = [queue EXCEPT ![n] = Without(n, id)]
    PROVE  OneRecord'
<1>1. queue \in [Node -> SUBSET QueueRecord]  BY DEF TypeOK
<1> QED  BY <1>1 DEF OneRecord, Without

LEMMA StoreCounts ==
    ASSUME TypeOK, OneRecord, NEW n \in Node, NEW p \in Packet, Store(n, p)
    PROVE  OneRecord' /\ Counted
<1> DEFINE stored == {r \in queue[n] : r.packet.id = p.id}
           new == [packet |-> p, attempts |-> StoredAttempts(n, p.id),
                   nextAttemptAt |-> NextRelayAttemptAt(StoredAttempts(n, p.id), now)]
<1>0. queue \in [Node -> SUBSET QueueRecord] /\ \A r \in QueueRecord : r.attempts \in Nat
  BY DEF TypeOK, QueueRecord
<1>1. queue' = queue \/ queue' = [queue EXCEPT ![n] = Without(n, p.id) \cup {new}]
  BY DEF Store
<1>2. new.packet.id = p.id /\ new.attempts = StoredAttempts(n, p.id)  OBVIOUS
<1>3. \A r \in stored : StoredAttempts(n, p.id) = r.attempts
  <2> SUFFICES ASSUME NEW r \in stored  PROVE  StoredAttempts(n, p.id) = r.attempts
    OBVIOUS
  <2>1. stored # {} /\ (CHOOSE s \in stored : TRUE) \in stored  OBVIOUS
  <2>2. (CHOOSE s \in stored : TRUE) = r  BY <2>1 DEF OneRecord
  <2> QED  BY <2>1, <2>2 DEF StoredAttempts
<1>4. CASE queue' = queue
  BY <1>0, <1>4 DEF OneRecord, Counted
<1>5. CASE queue' = [queue EXCEPT ![n] = Without(n, p.id) \cup {new}]
  <2> HIDE DEF new
  <2>1. OneRecord'  BY <1>2, <1>5, Replaced
  <2>2. ASSUME NEW k \in Node, NEW r \in queue[k]
        PROVE  \E s \in queue'[k] : s.packet.id = r.packet.id /\ s.attempts = r.attempts
    <3>1. CASE k = n /\ r.packet.id = p.id
      <4>1. new \in queue'[k] /\ new.attempts = r.attempts
        BY <1>0, <1>2, <1>3, <1>5, <3>1
      <4> QED  BY <1>2, <3>1, <4>1
    <3>2. CASE ~(k = n /\ r.packet.id = p.id)
      <4>1. r \in queue'[k]  BY <1>0, <1>5, <3>2 DEF Without
      <4> QED  BY <4>1
    <3> QED  BY <3>1, <3>2
  <2> QED  BY <2>1, <2>2 DEF Counted
<1> QED  BY <1>1, <1>4, <1>5

LEMMA SendOrQueueCounts ==
    ASSUME TypeOK, OneRecord, NEW n \in Node, NEW p \in Packet, NEW excluded, NEW rest,
           SendOrQueue(n, p, excluded, rest)
    PROVE  OneRecord' /\ Counted
<1>1. queue' = queue \/ Store(n, p)  BY DEF SendOrQueue
<1>2. queue' = queue => OneRecord' /\ Counted  BY DEF OneRecord, Counted
<1> QED  BY <1>1, <1>2, StoreCounts

\* A step outside drain.
LEMMA DrainWaits ==
    ASSUME TypeOK, DrainInv, UNCHANGED <<draining, sending>>, OneRecord', Counted,
           now' = now \/ now' = now + 1
    PROVE  DrainInv' /\ Durable
<1>0. /\ \A n \in Node : draining[n].at \in Nat
      /\ now \in Nat
      /\ \A n \in Node : \A r \in queue[n] : r.attempts \in Nat
  BY DEF TypeOK, DrainCall, QueueRecord
<1>1. Durable  BY <1>0 DEF Counted, Durable
<1>2. \A n \in Node : draining'[n].at <= now'  BY <1>0 DEF DrainInv
<1>3. \A n \in Node : \A s \in draining'[n].left :
          \E r \in queue'[n] : r.packet.id = s.packet.id /\ r.attempts = s.attempts
  <2> TAKE n \in Node
  <2> TAKE s \in draining'[n].left
  <2>1. PICK r \in queue[n] : r.packet.id = s.packet.id /\ r.attempts = s.attempts  BY DEF DrainInv
  <2>2. PICK q \in queue'[n] : q.packet.id = r.packet.id /\ q.attempts = r.attempts  BY DEF Counted
  <2> QED  BY <2>1, <2>2
<1> QED  BY <1>1, <1>2, <1>3 DEF DrainInv

\* The step of the record r that is taken off the list.
LEMMA DrainTurns ==
    ASSUME TypeOK, DrainInv, NEW n \in Node, NEW r, Turn(n, r), now' = now, OneRecord',
           \A k \in Node : \A s \in queue[k] :
              s \in queue'[k] \/ (k = n /\ s.packet.id = r.packet.id),
           \A k \in Node : sending'[k] \subseteq sending[k] \cup (IF k = n THEN {r.packet.id} ELSE {})
    PROVE  DrainInv'
<1>1. /\ \A k \in Node \ {n} : draining'[k] = draining[k]
      /\ draining'[n] = NoDrain \/ draining'[n].left = draining[n].left \ {r}
      /\ \A k \in Node : draining'[k].left \subseteq draining[k].left
      /\ draining' \in [Node -> DrainCall]
  BY TurnTakes
<1>2. r \in draining[n].left /\ sending[n] = {}  BY DEF Turn
<1>3. now \in Nat /\ \A k \in Node : draining'[k].at <= now
  <2>1. NoDrain.at = 0 /\ now \in Nat  BY DEF NoDrain, TypeOK
  <2>2. draining'[n] = NoDrain \/ draining'[n].at = draining[n].at
    <3>1. draining \in [Node -> DrainCall]  BY DEF TypeOK
    <3>2. draining'[n] = AfterTurn(draining[n], r)  BY <3>1 DEF Turn
    <3>3. draining[n] \in DrainCall  BY <3>1
    <3> QED  BY <3>2, <3>3 DEF AfterTurn, DrainCall
  <2> QED  BY <1>1, <2>1, <2>2 DEF DrainInv
<1>4. \A s \in draining'[n].left : s \in draining[n].left /\ s.packet.id # r.packet.id
  <2>1. NoDrain.left = {}  BY DEF NoDrain
  <2> QED  BY <1>1, <1>2, <2>1 DEF DrainInv
<1>5. ASSUME NEW k \in Node, NEW s \in draining'[k].left
      PROVE  /\ s.packet.id \notin sending'[k]
             /\ \E q \in queue'[k] : q.packet.id = s.packet.id /\ q.attempts = s.attempts
  <2>1. /\ s \in draining[k].left /\ s.packet.id \notin sending[k]
        /\ k = n => s.packet.id # r.packet.id
    BY <1>1, <1>4 DEF DrainInv
  <2>2. PICK q \in queue[k] : q.packet.id = s.packet.id /\ q.attempts = s.attempts
    BY <2>1 DEF DrainInv
  <2>3. q \in queue'[k]  BY <2>1, <2>2
  <2> QED  BY <2>1, <2>2, <2>3
<1>6. \A k \in Node : \A q, s \in draining'[k].left : q.packet.id = s.packet.id => q = s
  BY <1>1 DEF DrainInv
<1> QED  BY <1>3, <1>5, <1>6 DEF DrainInv

\* A record that stays is its own successor, so only the others need a reason.
LEMMA DurableOf ==
    ASSUME TypeOK,
           \A n \in Node : \A r \in queue[n] :
              \/ r \in queue'[n]
              \/ \E s \in queue'[n] : s.packet.id = r.packet.id /\ s.attempts >= r.attempts
              \/ r.packet.id \in sending[n]
              \/ r.attempts + 1 >= MaxRelayAttempts
              \/ \E s \in draining[n].left : s.packet.id = r.packet.id /\ s.packet.expiresAt <= now
    PROVE  Durable
<1>1. \A n \in Node : \A r \in queue[n] : r.attempts \in Nat  BY DEF TypeOK, QueueRecord
<1>2. \A n \in Node : \A r \in queue[n] : r.attempts >= r.attempts  BY <1>1
<1> QED  BY <1>2 DEF Durable

LEMMA DurableStep == TypeOK /\ DrainInv /\ [Next]_vars => DrainInv' /\ Durable
<1> SUFFICES ASSUME TypeOK, DrainInv, [Next]_vars PROVE DrainInv' /\ Durable  OBVIOUS
<1>q. queue \in [Node -> SUBSET QueueRecord] /\ \A r \in QueueRecord : r.attempts \in Nat
  BY DEF TypeOK, QueueRecord
<1>p. pendingSend \in [Node -> SUBSET Packet] /\ \A f \in wire : f.packet \in Packet /\ f.to \in Node
  BY DEF TypeOK, Frame
<1>d. draining \in [Node -> DrainCall] /\ sending \in [Node -> SUBSET PacketId] /\ now \in Nat
  BY DEF TypeOK
<1>o. OneRecord  BY DEF DrainInv
<1>u. ASSUME queue' = queue PROVE OneRecord' /\ Counted /\ Durable
  <2>1. Durable  BY <1>u, DurableOf
  <2> QED  BY <1>o, <1>u, <2>1 DEF OneRecord, Counted
<1> USE DEF linkVars, drainVars, stateVars, recordVars, historyVars
<1>1. ASSUME NEW n \in Node, NEW p \in pendingSend[n], SendPending(n, p)  PROVE  DrainInv' /\ Durable
  <2>1. OneRecord' /\ Counted  BY <1>1, <1>o, <1>p, SendOrQueueCounts DEF SendPending
  <2> QED  BY <1>1, <2>1, DrainWaits DEF SendPending
<1>2. ASSUME NEW n \in Node, NEW f \in wire, ReceiveAnnounce(n, f) \/ RelayFrame(n, f)
      PROVE  DrainInv' /\ Durable
  <2>1. RelayOnward(n, f) /\ UNCHANGED <<now, draining, sending>>
    BY <1>2 DEF ReceiveAnnounce, RelayFrame
  <2>2. RelayPacket(f.packet, n) \in Packet  BY <1>p, CreatedPackets
  <2>3. queue' = queue \/ SendOrQueue(n, RelayPacket(f.packet, n), f.from, wire \ {f})
    BY <2>1 DEF RelayOnward
  <2>4. OneRecord' /\ Counted  BY <1>o, <1>u, <2>2, <2>3, SendOrQueueCounts
  <2> QED  BY <2>1, <2>4, DrainWaits
<1>3. ASSUME NEW n \in Node, NEW r \in draining[n].left, DrainExpired(n, r)  PROVE  DrainInv' /\ Durable
  <2>1. /\ Turn(n, r) /\ r.packet.expiresAt <= draining[n].at
        /\ queue' = [queue EXCEPT ![n] = Without(n, r.packet.id)]
        /\ UNCHANGED <<now, sending>>
    BY <1>3 DEF DrainExpired
  <2>2. \A k \in Node : \A s \in queue[k] : s \in queue'[k] \/ (k = n /\ s.packet.id = r.packet.id)
    BY <1>q, <2>1 DEF Without
  <2>3. OneRecord'  BY <1>o, <2>1, Removed
  <2>4. DrainInv'  BY <2>1, <2>2, <2>3, DrainTurns
  <2>5. r.packet.expiresAt <= now
    <3>1. r.packet \in Packet /\ draining[n].at \in Nat  BY <2>1, TurnTakes
    <3>2. r.packet.expiresAt \in Nat  BY <3>1 DEF Packet, PacketFields
    <3> QED  BY <1>d, <2>1, <3>1, <3>2 DEF DrainInv
  <2> QED  BY <2>2, <2>4, <2>5, DurableOf
<1>4. ASSUME NEW n \in Node, NEW id \in sending[n], DrainRemove(n, id)  PROVE  DrainInv' /\ Durable
  <2>1. /\ queue' = [queue EXCEPT ![n] = Without(n, id)]
        /\ sending' = [sending EXCEPT ![n] = @ \ {id}] /\ UNCHANGED <<now, draining>>
    BY <1>4 DEF DrainRemove
  <2>2. \A k \in Node : \A s \in queue[k] : s \in queue'[k] \/ (k = n /\ s.packet.id = id)
    BY <1>q, <2>1 DEF Without
  <2>3. OneRecord'  BY <1>o, <2>1, Removed
  <2>4. ASSUME NEW k \in Node, NEW s \in draining[k].left
        PROVE  /\ s.packet.id \notin sending'[k]
               /\ \E q \in queue'[k] : q.packet.id = s.packet.id /\ q.attempts = s.attempts
    <3>1. s.packet.id \notin sending[k]  BY DEF DrainInv
    <3>2. PICK q \in queue[k] : q.packet.id = s.packet.id /\ q.attempts = s.attempts
      BY DEF DrainInv
    <3>3. q \in queue'[k]  BY <2>2, <3>1, <3>2
    <3>4. sending'[k] \subseteq sending[k]  BY <1>d, <2>1
    <3> QED  BY <3>1, <3>2, <3>3, <3>4
  <2>5. DrainInv'  BY <2>1, <2>3, <2>4 DEF DrainInv
  <2> QED  BY <2>2, <2>5, DurableOf
<1>5. ASSUME NEW n \in Node, NEW r \in draining[n].left, DrainFail(n, r)  PROVE  DrainInv' /\ Durable
  <2> DEFINE retried == [r EXCEPT !.attempts = r.attempts + 1,
                                  !.nextAttemptAt = NextRelayAttemptAt(r.attempts + 1, draining[n].at)]
  <2>t. Turn(n, r) /\ UNCHANGED <<now, sending>>  BY <1>5 DEF DrainFail, Due
  <2>0. r \in QueueRecord /\ r.attempts \in Nat  BY <1>q, <2>t, TurnTakes
  <2>1. retried.packet.id = r.packet.id /\ retried.attempts = r.attempts + 1
    BY <2>0 DEF QueueRecord
  <2>2. \/ /\ r.attempts + 1 >= MaxRelayAttempts
           /\ queue' = [queue EXCEPT ![n] = Without(n, r.packet.id)]
        \/ queue' = [queue EXCEPT ![n] = Without(n, r.packet.id) \cup {retried}]
    BY <1>5 DEF DrainFail
  <2> HIDE DEF retried
  <2>3. \A k \in Node : \A s \in queue[k] : s \in queue'[k] \/ (k = n /\ s.packet.id = r.packet.id)
    BY <1>q, <2>2 DEF Without
  <2>4. \A s \in queue[n] : s.packet.id = r.packet.id => s.attempts = r.attempts
    <3>1. PICK q \in queue[n] : q.packet.id = r.packet.id /\ q.attempts = r.attempts  BY DEF DrainInv
    <3> QED  BY <1>o, <3>1 DEF OneRecord
  <2>5. OneRecord'  BY <1>o, <2>1, <2>2, Removed, Replaced
  <2>6. DrainInv'  BY <2>t, <2>3, <2>5, DrainTurns
  <2>7. CASE r.attempts + 1 >= MaxRelayAttempts  BY <2>3, <2>4, <2>6, <2>7, DurableOf
  <2>8. CASE queue' = [queue EXCEPT ![n] = Without(n, r.packet.id) \cup {retried}]
    <3>1. retried \in queue'[n]  BY <1>q, <2>8
    <3>2. retried.attempts >= r.attempts  BY <2>0, <2>1
    <3> QED  BY <2>1, <2>3, <2>4, <2>6, <3>1, <3>2, DurableOf
  <2> QED  BY <2>2, <2>7, <2>8
<1>6. ASSUME NEW n \in Node, NEW r \in draining[n].left, DrainSkip(n, r) \/ DrainSend(n, r)
      PROVE  DrainInv' /\ Durable
  <2>1. /\ Turn(n, r) /\ UNCHANGED <<now, queue>>
        /\ sending' = sending \/ sending' = [sending EXCEPT ![n] = @ \cup {r.packet.id}]
    BY <1>6 DEF DrainSkip, DrainSend, Due
  <2>2. \A k \in Node : sending'[k] \subseteq sending[k] \cup (IF k = n THEN {r.packet.id} ELSE {})
    BY <1>d, <2>1
  <2>3. OneRecord' /\ Durable  BY <1>u, <2>1
  <2> QED  BY <2>1, <2>2, <2>3, DrainTurns
<1>7. ASSUME NEW n \in Node, DrainStart(n)  PROVE  DrainInv' /\ Durable
  <2>1. /\ sending[n] = {} /\ UNCHANGED <<now, queue, sending>>
        /\ draining' = [draining EXCEPT ![n] = [left |-> queue[n], at |-> now, table |-> peers[n]]]
    BY <1>7 DEF DrainStart
  <2>2. /\ draining'[n].left = queue[n] /\ draining'[n].at = now
        /\ \A k \in Node \ {n} : draining'[k] = draining[k]
    BY <1>d, <2>1
  <2>3. OneRecord' /\ Durable  BY <1>u, <2>1
  <2>4. \A k \in Node : draining'[k].at <= now'  BY <1>d, <2>1, <2>2 DEF DrainInv
  <2>5. \A k \in Node : \A q, s \in draining'[k].left : q.packet.id = s.packet.id => q = s
    BY <1>o, <2>2 DEF DrainInv, OneRecord
  <2>6. \A k \in Node : \A s \in draining'[k].left :
          /\ s.packet.id \notin sending'[k]
          /\ \E q \in queue'[k] : q.packet.id = s.packet.id /\ q.attempts = s.attempts
    BY <2>1, <2>2 DEF DrainInv
  <2> QED  BY <2>3, <2>4, <2>5, <2>6 DEF DrainInv
<1>8. ASSUME NEW n \in Node, Restart(n)  PROVE  DrainInv' /\ Durable
  <2>1. /\ UNCHANGED <<now, queue>> /\ sending' = [sending EXCEPT ![n] = {}]
        /\ draining' = [draining EXCEPT ![n] = NoDrain]
    BY <1>8 DEF Restart
  <2>2. /\ draining'[n].left = {} /\ draining'[n].at = 0
        /\ \A k \in Node \ {n} : draining'[k] = draining[k] /\ sending'[k] = sending[k]
    BY <1>d, <2>1 DEF NoDrain
  <2>3. OneRecord' /\ Durable  BY <1>u, <2>1
  <2>4. \A k \in Node : draining'[k].at <= now'  BY <1>d, <2>1, <2>2 DEF DrainInv
  <2>5. \A k \in Node : \A q, s \in draining'[k].left : q.packet.id = s.packet.id => q = s
    BY <2>2 DEF DrainInv
  <2>6. \A k \in Node : \A s \in draining'[k].left :
          /\ s.packet.id \notin sending'[k]
          /\ \E q \in queue'[k] : q.packet.id = s.packet.id /\ q.attempts = s.attempts
    BY <2>1, <2>2 DEF DrainInv
  <2> QED  BY <2>3, <2>4, <2>5, <2>6 DEF DrainInv
<1>w. ASSUME UNCHANGED <<queue, draining, sending>>, now' = now \/ now' = now + 1
      PROVE  DrainInv' /\ Durable
  BY <1>u, <1>w, DrainWaits
<1>9. ASSUME NEW m \in Message, QueueMessage(m)  PROVE  DrainInv' /\ Durable
  BY <1>9, <1>w DEF QueueMessage
<1>10. ASSUME NEW n \in Node, NEW f \in wire,
             ReceiveDuplicate(n, f) \/ ReceiveMessage(n, f) \/ ReceiveAck(n, f)
       PROVE  DrainInv' /\ Durable
  BY <1>10, <1>w DEF ReceiveDuplicate, ReceiveMessage, ReceiveAck
<1>11. ASSUME NEW n \in Node,
             StopMesh(n) \/ FinishStop(n) \/ RestartFromService(n) \/ StartMesh(n)
       PROVE  DrainInv' /\ Durable
  BY <1>11, <1>w DEF StopMesh, FinishStop, RestartFromService, StartMesh
<1>12. ASSUME NEW x \in Node, NEW y \in Node,
              LinkUp(x, y) \/ LinkDown(x, y) \/ PeerConnected(x, y) \/ PeerLost(x, y)
       PROVE  DrainInv' /\ Durable
  BY <1>12, <1>w DEF LinkUp, LinkDown, PeerConnected, PeerLost
<1>13. ASSUME NEW f \in wire, LoseFrame(f)  PROVE  DrainInv' /\ Durable  BY <1>13, <1>w DEF LoseFrame
<1>14. ASSUME Tick \/ UNCHANGED vars  PROVE  DrainInv' /\ Durable  BY <1>14, <1>w DEF Tick, vars
<1>15. stopping \subseteq Node  BY DEF TypeOK
<1> QED
  BY <1>p, <1>1, <1>2, <1>3, <1>4, <1>5, <1>6, <1>7, <1>8, <1>9, <1>10, <1>11, <1>12, <1>13,
     <1>14, <1>15
  DEF Next, AppNext, Environment, Receive, Drain

\* A relay record leaves a queue only by expiry, after it was sent, or with its retry
\* budget spent, and its attempts are never counted back, on every device and whatever
\* runs between drain's reading of the queue and its writes.
THEOREM QueueDurable == Spec => QueueIsDurable
<1>1. Init => TypeOK /\ DrainInv
  <2> SUFFICES ASSUME Init PROVE TypeOK /\ DrainInv  OBVIOUS
  <2> QED  BY TypeInit DEF Init, DrainInv, OneRecord, NoDrain
<1>2. TypeOK /\ DrainInv /\ [Next]_vars => (TypeOK /\ DrainInv)'
  BY TypeStep, DurableStep
<1>3. TypeOK /\ DrainInv /\ [Next]_vars => [Durable]_vars  BY DurableStep
<1>4. [Durable]_vars =>
        [ \A n \in Node : \A r \in queue[n] :
            \/ \E s \in queue'[n] : s.packet.id = r.packet.id /\ s.attempts >= r.attempts
            \/ r.packet.id \in sending[n]
            \/ r.attempts + 1 >= MaxRelayAttempts
            \/ \E s \in draining[n].left : s.packet.id = r.packet.id /\ s.packet.expiresAt <= now ]_vars
  BY DEF Durable
<1> QED  BY <1>1, <1>2, <1>3, <1>4, PTL DEF Spec, QueueIsDurable

-----------------------------------------------------------------------------
\* NoBounceBack is about the application as it is, without a caller of drain (a drained
\* copy may go back the way it came).  It holds because a message or an acknowledgement
\* then travels as one copy: every hop takes it from the wire before it puts it back.
\* An id that was given to a message or an acknowledgement:
Given(id) ==
    /\ id.kind \in {"message", "ack"} /\ id.of \in Message /\ id.nr \in Nat
    /\ id.kind = "ack" => id.nr < ackCount[id.of]
    /\ id.kind = "message" => outbox[id.of].state # "none"

Named(p) == IF p.type = "announce" THEN p.id.kind = "announce" ELSE Given(p.id)

NameInv ==
    /\ \A f \in wire : Named(f.packet)
    /\ \A n \in Node : \A p \in pendingSend[n] : p.type # "announce" /\ Given(p.id)
    /\ \A n \in Node : announceFrame[n] # NoFrame => announceFrame[n].type = "announce"
                                                    /\ announceFrame[n].id.kind = "announce"
    /\ \A n \in Node : \A c \in cameFrom[n] : Given(c.id)

\* A packet that waits for its first send is nowhere else, and was nowhere.
Unsent(n, p) ==
    /\ \A f \in wire : f.packet.id # p.id
    /\ \A k \in Node : \A q \in pendingSend[k] : q.id = p.id => k = n /\ q = p
    /\ \A k \in Node : \A c \in cameFrom[k] : c.id # p.id

SingleCopy ==
    /\ \A f, g \in wire : f.packet.type # "announce" /\ f.packet.id = g.packet.id => f = g
    /\ \A n \in Node : \A p \in pendingSend[n] : Unsent(n, p)

TravelInv == TypeOK /\ NameInv /\ SingleCopy /\ NoBounceBack

Announcing(p) == p.type = "announce" /\ p.id.kind = "announce"

\* An id that was given stays so: acknowledgements are counted up, and a queued message
\* never becomes unknown.
LEMMA GivenStays ==
    ASSUME TypeOK, [AppNext]_vars
    PROVE  \A id : Given(id) => Given(id)'
<1>t. ackCount \in [Message -> Nat] /\ outbox \in [Message -> OutboxRecord]  BY DEF TypeOK
<1> DEFINE Counts == \A m \in Message : /\ ackCount'[m] >= ackCount[m]
                                        /\ ackCount'[m] \in Nat
                                        /\ outbox[m].state # "none" => outbox'[m].state # "none"
<1> USE DEF linkVars, drainVars, stateVars, recordVars, historyVars
<1>1. ASSUME UNCHANGED <<ackCount, outbox>>  PROVE  Counts
  BY <1>t, <1>1
<1>2. ASSUME NEW m \in Message, QueueMessage(m)  PROVE  Counts
  BY <1>t, <1>2 DEF QueueMessage
<1>3. ASSUME NEW n \in Node, NEW f \in wire, ReceiveMessage(n, f)  PROVE  Counts
  <2>1. outbox' = outbox /\ (ackCount' = ackCount
                               \/ ackCount' = [ackCount EXCEPT ![f.packet.messageId] = @ + 1])
    BY <1>3 DEF ReceiveMessage
  <2> QED  BY <1>t, <2>1
<1>4. ASSUME NEW n \in Node, NEW f \in wire, ReceiveAck(n, f)  PROVE  Counts
  <2>1. PICK m : outbox' = outbox \/ outbox' = [outbox EXCEPT ![m].state = "delivered"]
    BY <1>4 DEF ReceiveAck
  <2>2. ackCount' = ackCount  BY <1>4 DEF ReceiveAck
  <2> QED  BY <1>t, <2>1, <2>2 DEF OutboxRecord
<1>5. ASSUME NEW n \in Node, NEW f \in wire,
             ReceiveDuplicate(n, f) \/ ReceiveAnnounce(n, f) \/ RelayFrame(n, f)
      PROVE  UNCHANGED <<ackCount, outbox>>
  BY <1>5 DEF ReceiveDuplicate, ReceiveAnnounce, RelayFrame
<1>6. ASSUME NEW n \in Node,
             StopMesh(n) \/ FinishStop(n) \/ RestartFromService(n) \/ StartMesh(n) \/ Restart(n)
      PROVE  UNCHANGED <<ackCount, outbox>>
  BY <1>6 DEF StopMesh, FinishStop, RestartFromService, StartMesh, Restart
<1>7. ASSUME NEW x \in Node, NEW y \in Node,
             LinkUp(x, y) \/ LinkDown(x, y) \/ PeerConnected(x, y) \/ PeerLost(x, y)
      PROVE  UNCHANGED <<ackCount, outbox>>
  BY <1>7 DEF LinkUp, LinkDown, PeerConnected, PeerLost
<1>8. ASSUME NEW f \in wire, LoseFrame(f)  PROVE  UNCHANGED <<ackCount, outbox>>
  BY <1>8 DEF LoseFrame
<1>9. ASSUME NEW n \in Node, NEW p \in pendingSend[n], SendPending(n, p)
      PROVE  UNCHANGED <<ackCount, outbox>>
  BY <1>9 DEF SendPending
<1>10. ASSUME Tick \/ UNCHANGED vars  PROVE  UNCHANGED <<ackCount, outbox>>  BY <1>10 DEF Tick, vars
<1>11. stopping \subseteq Node /\ \A f \in wire : f.to \in Node  BY DEF TypeOK, Frame
<1>12. Counts
  BY <1>1, <1>2, <1>3, <1>4, <1>5, <1>6, <1>7, <1>8, <1>9, <1>10, <1>11
  DEF AppNext, Environment, Receive
<1> SUFFICES ASSUME NEW id, Given(id)  PROVE  Given(id)'
  OBVIOUS
<1> HIDE DEF Counts
<1>13. id.of \in Message /\ id.nr \in Nat /\ ackCount[id.of] \in Nat  BY <1>t DEF Given
<1>14. ackCount'[id.of] >= ackCount[id.of] /\ ackCount'[id.of] \in Nat
       /\ (outbox[id.of].state # "none" => outbox'[id.of].state # "none")
  BY <1>12, <1>13 DEF Counts
<1>15. ASSUME id.kind = "ack"  PROVE  id.nr < ackCount'[id.of]
  <2>1. id.nr < ackCount[id.of]  BY <1>15 DEF Given
  <2> QED  BY <1>13, <1>14, <2>1
<1> QED  BY <1>13, <1>14, <1>15 DEF Given

\* A step that adds nothing but announcements.
LEMMA TravelKept ==
    ASSUME TravelInv, TypeOK', \A id : Given(id) => Given(id)', cameFrom' = cameFrom,
           \A f \in wire' : f \in wire \/ Announcing(f.packet),
           \A n \in Node : pendingSend'[n] \subseteq pendingSend[n],
           \A n \in Node : announceFrame'[n] \in {announceFrame[n], NoFrame} \/ Announcing(announceFrame'[n])
    PROVE  (NameInv /\ SingleCopy /\ NoBounceBack)'
<1>1. NameInv'
  <2>1. \A f \in wire' : Named(f.packet)'
    BY DEF TravelInv, NameInv, Named, Announcing
  <2>2. \A n \in Node : \A p \in pendingSend'[n] : p.type # "announce" /\ Given(p.id)'
    BY DEF TravelInv, NameInv
  <2>3. \A n \in Node : \A c \in cameFrom'[n] : Given(c.id)'  BY DEF TravelInv, NameInv
  <2>4. \A n \in Node : announceFrame'[n] # NoFrame =>
           announceFrame'[n].type = "announce" /\ announceFrame'[n].id.kind = "announce"
    BY DEF TravelInv, NameInv, Announcing
  <2> QED  BY <2>1, <2>2, <2>3, <2>4 DEF NameInv
<1>2. \A f \in wire' : Given(f.packet.id) => f \in wire
  BY DEF Given, Announcing
<1>3. ASSUME NEW f \in wire', NEW g \in wire', f.packet.type # "announce", f.packet.id = g.packet.id
      PROVE  f = g
  <2>1. f \in wire  BY <1>3 DEF Announcing
  <2>2. Given(f.packet.id)  BY <1>3, <2>1 DEF TravelInv, NameInv, Named
  <2>3. g \in wire  BY <1>2, <1>3, <2>2
  <2> QED  BY <1>3, <2>1, <2>3 DEF TravelInv, SingleCopy
<1>4. ASSUME NEW n \in Node, NEW p \in pendingSend'[n]  PROVE  Unsent(n, p)'
  <2>1. Unsent(n, p) /\ Given(p.id)  BY DEF TravelInv, SingleCopy, NameInv
  <2>2. \A f \in wire' : f.packet.id # p.id  BY <1>2, <2>1 DEF Unsent
  <2> QED  BY <2>1, <2>2 DEF Unsent
<1>5. NoBounceBack'
  <2> SUFFICES ASSUME NEW f \in wire', [id |-> f.packet.id, link |-> f.to] \in cameFrom[f.from]
               PROVE  FALSE
    BY DEF NoBounceBack
  <2>1. CASE f \in wire  BY <2>1 DEF TravelInv, NoBounceBack
  <2>2. CASE f \notin wire
    <3>1. f.packet.id.kind = "announce"  BY <2>2 DEF Announcing
    <3>2. f.from \in Node  BY DEF TypeOK, Frame
    <3> QED  BY <3>1, <3>2 DEF TravelInv, NameInv, Given
  <2> QED  BY <2>1, <2>2
<1> QED  BY <1>1, <1>3, <1>4, <1>5 DEF SingleCopy

\* A packet that is created gets an id that no other packet has or had.
LEMMA TravelCreated ==
    ASSUME TravelInv, \A id : Given(id) => Given(id)',
           NEW n \in Node, NEW p, ~Given(p.id), Given(p.id)',
           pendingSend' = [pendingSend EXCEPT ![n] = @ \cup {p}],
           wire' \subseteq wire, cameFrom' = cameFrom, announceFrame' = announceFrame,
           p.type # "announce"
    PROVE  (NameInv /\ SingleCopy /\ NoBounceBack)'
<1>0. pendingSend \in [Node -> SUBSET Packet]  BY DEF TravelInv, TypeOK
<1>1. \A k \in Node : \A q \in pendingSend'[k] : q \in pendingSend[k] \/ (k = n /\ q = p)
  BY <1>0
<1>2. NameInv'
  <2>1. \A f \in wire' : Named(f.packet)'  BY DEF TravelInv, NameInv, Named
  <2>2. \A k \in Node : \A q \in pendingSend'[k] : q.type # "announce" /\ Given(q.id)'
    BY <1>1 DEF TravelInv, NameInv
  <2>3. \A k \in Node : \A c \in cameFrom'[k] : Given(c.id)'  BY DEF TravelInv, NameInv
  <2> QED  BY <2>1, <2>2, <2>3 DEF TravelInv, NameInv
<1>3. ASSUME NEW k \in Node, NEW q \in pendingSend'[k]  PROVE  Unsent(k, q)'
  <2>0. p.id.kind # "announce"  BY DEF Given
  <2>1. \A f \in wire : f.packet.id # p.id
    BY <2>0 DEF TravelInv, NameInv, Named
  <2>2. \A j \in Node : \A x \in pendingSend[j] : x.id # p.id  BY DEF TravelInv, NameInv
  <2>3. \A j \in Node : \A c \in cameFrom[j] : c.id # p.id  BY DEF TravelInv, NameInv
  <2>4. CASE q \in pendingSend[k]
    <3>1. Unsent(k, q)  BY <2>4 DEF TravelInv, SingleCopy
    <3>2. q.id # p.id  BY <2>2, <2>4
    <3> QED  BY <1>1, <3>1, <3>2 DEF Unsent
  <2>5. CASE k = n /\ q = p  BY <1>1, <2>1, <2>2, <2>3, <2>5 DEF Unsent
  <2> QED  BY <1>1, <2>4, <2>5
<1>4. SingleCopy'  BY <1>3 DEF SingleCopy, TravelInv
<1>5. NoBounceBack'  BY DEF NoBounceBack, TravelInv
<1> QED  BY <1>2, <1>4, <1>5

\* A hop: the packet p of device n leaves where it was and goes out over one link.
LEMMA SentOnce ==
    ASSUME NEW n \in Node, NEW p, NEW excluded, NEW rest, SendOrQueue(n, p, excluded, rest)
    PROVE  \/ wire' = rest
           \/ \E l \in NextHops(p, peers[n], n, excluded, now) : wire' = rest \cup {FrameTo(n, l, p)}
BY DEF SendOrQueue, Send

LEMMA HopsAvoid ==
    \A p, table, local, excluded, t : \A l \in NextHops(p, table, local, excluded, t) : l # excluded
BY DEF NextHops, Candidates

LEMMA TravelPending ==
    ASSUME TravelInv, \A id : Given(id) => Given(id)',
           NEW n \in Node, NEW p \in pendingSend[n], SendPending(n, p)
    PROVE  (NameInv /\ SingleCopy /\ NoBounceBack)'
<1>0. pendingSend \in [Node -> SUBSET Packet]  BY DEF TravelInv, TypeOK
<1>1. /\ pendingSend' = [pendingSend EXCEPT ![n] = @ \ {p}]
      /\ cameFrom' = cameFrom /\ announceFrame' = announceFrame
  BY DEF SendPending, linkVars
<1>2. \A k \in Node : \A q \in pendingSend'[k] : q \in pendingSend[k] /\ ~(k = n /\ q = p)
  BY <1>0, <1>1
<1>3. Unsent(n, p) /\ Given(p.id)  BY DEF TravelInv, SingleCopy, NameInv
<1>4. wire' = wire \/ \E l \in Node : wire' = wire \cup {FrameTo(n, l, p)}
  <2>1. SendOrQueue(n, p, NoLink, wire)  BY DEF SendPending
  <2> QED  BY <2>1, SentOnce, HopsAreLinks
<1>5. \A f \in wire' : f \in wire \/ (f.packet = p /\ f.from = n)
  BY <1>4 DEF FrameTo
<1>6. NameInv'
  <2>1. \A f \in wire' : Named(f.packet)'
    <3>1. p.type # "announce" => Named(p)'  BY <1>3 DEF Named
    <3>2. p.type # "announce"  BY DEF TravelInv, NameInv
    <3> QED  BY <1>5, <3>1, <3>2 DEF TravelInv, NameInv, Named
  <2> QED  BY <1>1, <1>2, <2>1 DEF TravelInv, NameInv
<1>7. ASSUME NEW f \in wire', NEW g \in wire', f.packet.type # "announce", f.packet.id = g.packet.id
      PROVE  f = g
  <2>1. CASE f \in wire /\ g \in wire  BY <1>7, <2>1 DEF TravelInv, SingleCopy
  <2>2. CASE ~(f \in wire /\ g \in wire)
    <3>1. f \notin wire /\ g \notin wire  BY <1>3, <1>5, <1>7, <2>2 DEF Unsent
    <3> QED  BY <1>4, <3>1
  <2> QED  BY <2>1, <2>2
<1>8. ASSUME NEW k \in Node, NEW q \in pendingSend'[k]  PROVE  Unsent(k, q)'
  <2>1. q \in pendingSend[k] /\ ~(k = n /\ q = p)  BY <1>2
  <2>2. Unsent(k, q) /\ q.id # p.id  BY <1>3, <2>1 DEF TravelInv, SingleCopy, Unsent
  <2>3. \A f \in wire' : f.packet.id # q.id  BY <1>5, <2>2 DEF Unsent
  <2> QED  BY <1>1, <1>2, <2>2, <2>3 DEF Unsent
<1>9. NoBounceBack'
  <2> SUFFICES ASSUME NEW f \in wire'  PROVE  [id |-> f.packet.id, link |-> f.to] \notin cameFrom[f.from]
    BY <1>1 DEF NoBounceBack
  <2>1. CASE f \in wire  BY <2>1 DEF TravelInv, NoBounceBack
  <2>2. CASE f.packet = p /\ f.from = n  BY <1>3, <2>2 DEF Unsent
  <2> QED  BY <1>5, <2>1, <2>2
<1> QED  BY <1>6, <1>7, <1>8, <1>9 DEF SingleCopy

\* A relay takes a frame from the wire and, when it sends it on, puts it on another link
\* than the one it came by; that link is remembered from now on.
LEMMA TravelRelayed ==
    ASSUME TravelInv, \A id : Given(id) => Given(id)',
           NEW n \in Node, NEW f \in wire, RelayFrame(n, f)
    PROVE  (NameInv /\ SingleCopy /\ NoBounceBack)'
<1> DEFINE id == f.packet.id
           new == RelayPacket(f.packet, n)
<1>0. /\ cameFrom \in [Node -> SUBSET [id: PacketId, link: Node]]
      /\ f.packet \in Packet
  BY DEF TravelInv, TypeOK, Frame
<1>1. /\ pendingSend' = pendingSend /\ announceFrame' = announceFrame
      /\ cameFrom' = [cameFrom EXCEPT ![n] = {c \in @ : c.id # id} \cup {[id |-> id, link |-> f.from]}]
      /\ RelayOnward(n, f) /\ f.packet.type # "announce"
  BY DEF RelayFrame, linkVars
<1>2. Given(id)  BY <1>1 DEF TravelInv, NameInv, Named
<1>3. new.id = id /\ new.type = f.packet.type  BY <1>0, RelayKeeps
<1>4. wire' = wire \ {f} \/ \E l \in Node : l # f.from /\ wire' = (wire \ {f}) \cup {FrameTo(n, l, new)}
  <2>1. CASE ShouldRelay(f.packet, n, now)
    <3>1. SendOrQueue(n, new, f.from, wire \ {f})  BY <1>1, <2>1 DEF RelayOnward
    <3> HIDE DEF new
    <3> QED  BY <3>1, SentOnce, HopsAvoid, HopsAreLinks
  <2>2. CASE ~ShouldRelay(f.packet, n, now)  BY <1>1, <2>2 DEF RelayOnward
  <2> QED  BY <2>1, <2>2
<1> HIDE DEF new, id
<1>5. \A g \in wire' : (g \in wire /\ g # f) \/ (g.packet = new /\ g.from = n /\ g.to # f.from)
  BY <1>4 DEF FrameTo
<1>6. \A g \in wire : g.packet.id = id => g = f
  BY <1>1 DEF TravelInv, SingleCopy, id
<1>7. \A g, h \in wire' : g.packet.id = id /\ h.packet.id = id => g = h
  BY <1>4, <1>6
<1>8. NameInv'
  <2>1. \A g \in wire' : Named(g.packet)'
    BY <1>1, <1>2, <1>3, <1>5 DEF TravelInv, NameInv, Named
  <2>2. \A k \in Node : \A c \in cameFrom'[k] : Given(c.id)'
    BY <1>0, <1>1, <1>2 DEF TravelInv, NameInv
  <2> QED  BY <1>1, <2>1, <2>2 DEF TravelInv, NameInv
<1>9. ASSUME NEW g \in wire', NEW h \in wire', g.packet.type # "announce", g.packet.id = h.packet.id
      PROVE  g = h
  <2>1. CASE g.packet.id = id  BY <1>7, <1>9, <2>1
  <2>2. CASE g.packet.id # id
    <3>1. g \in wire /\ h \in wire  BY <1>3, <1>5, <1>9, <2>2
    <3> QED  BY <1>9, <3>1 DEF TravelInv, SingleCopy
  <2> QED  BY <2>1, <2>2
<1>10. ASSUME NEW k \in Node, NEW q \in pendingSend'[k]  PROVE  Unsent(k, q)'
  <2>1. Unsent(k, q)  BY <1>1 DEF TravelInv, SingleCopy
  <2>2. q.id # id  BY <2>1 DEF Unsent, id
  <2>3. \A g \in wire' : g.packet.id # q.id  BY <1>3, <1>5, <2>1, <2>2 DEF Unsent
  <2>4. \A j \in Node : \A c \in cameFrom'[j] : c.id # q.id
    BY <1>0, <1>1, <2>1, <2>2 DEF Unsent
  <2> QED  BY <1>1, <2>1, <2>3, <2>4 DEF Unsent
<1>11. NoBounceBack'
  <2> SUFFICES ASSUME NEW g \in wire'
               PROVE  [id |-> g.packet.id, link |-> g.to] \notin cameFrom'[g.from]
    BY DEF NoBounceBack
  <2>1. CASE g \in wire /\ g # f
    <3>1. g.packet.id # id  BY <1>6, <2>1
    <3>2. [id |-> g.packet.id, link |-> g.to] \notin cameFrom[g.from]
      BY <2>1 DEF TravelInv, NoBounceBack
    <3>3. g.from \in Node  BY <2>1 DEF TravelInv, TypeOK, Frame
    <3>4. cameFrom'[g.from] \subseteq cameFrom[g.from] \cup {[id |-> id, link |-> f.from]}
      BY <1>0, <1>1, <3>3
    <3> QED  BY <3>1, <3>2, <3>4
  <2>2. CASE g.packet = new /\ g.from = n /\ g.to # f.from
    <3>1. cameFrom'[n] = {c \in cameFrom[n] : c.id # id} \cup {[id |-> id, link |-> f.from]}
      BY <1>0, <1>1
    <3> QED  BY <1>3, <2>2, <3>1
  <2> QED  BY <1>5, <2>1, <2>2
<1> QED  BY <1>8, <1>9, <1>10, <1>11 DEF SingleCopy

LEMMA TravelInit == Init => TravelInv
<1> SUFFICES ASSUME Init  PROVE  TravelInv
  OBVIOUS
<1>1. \A n \in Node : FirstAnnounce(n).type = "announce" /\ FirstAnnounce(n).id.kind = "announce"
  BY DEF FirstAnnounce, AnnouncePacket
<1>2. NameInv  BY <1>1 DEF Init, NameInv
<1>3. SingleCopy  BY DEF Init, SingleCopy
<1>4. NoBounceBack  BY DEF Init, NoBounceBack
<1> QED  BY <1>2, <1>3, <1>4, TypeInit DEF TravelInv

LEMMA TravelStep == TravelInv /\ [AppNext]_vars => TravelInv'
<1> DEFINE Goal == (NameInv /\ SingleCopy /\ NoBounceBack)'
<1> SUFFICES ASSUME TravelInv, [AppNext]_vars  PROVE  Goal
  BY TypeStep DEF TravelInv, Next
<1>0. TypeOK /\ TypeOK'  BY TypeStep DEF TravelInv, Next
<1>g. \A id : Given(id) => Given(id)'  BY <1>0, GivenStays
<1>p. pendingSend \in [Node -> SUBSET Packet]  BY <1>0 DEF TypeOK
<1>a. announceFrame \in [Node -> Packet \cup {NoFrame}]  BY <1>0 DEF TypeOK
<1> USE DEF linkVars, drainVars, stateVars, recordVars, historyVars
<1> HIDE DEF Goal
<1>1. ASSUME cameFrom' = cameFrom,
             \A f \in wire' : f \in wire \/ Announcing(f.packet),
             \A n \in Node : pendingSend'[n] \subseteq pendingSend[n],
             \A n \in Node : announceFrame'[n] \in {announceFrame[n], NoFrame} \/ Announcing(announceFrame'[n])
      PROVE  Goal
  BY <1>0, <1>1, <1>g, TravelKept DEF Goal
<1>2. ASSUME NEW m \in Message, QueueMessage(m)  PROVE  Goal
  <2> PICK p : p = MessagePacket(m, From[m], To[m], now + MessageTtl)  OBVIOUS
  <2>1. /\ outbox[m].state = "none" /\ outbox'[m].state # "none"
        /\ From[m] \in Node
        /\ pendingSend' = [pendingSend EXCEPT ![From[m]] = @ \cup {p}]
        /\ UNCHANGED <<wire, cameFrom, announceFrame, ackCount>>
    BY <1>0, <1>2, NetworkAssumption DEF QueueMessage, TypeOK
  <2>2. /\ p.id.kind = "message" /\ p.id.of = m /\ p.id.nr = 0 /\ p.type = "message"
    BY DEF MessagePacket
  <2>3. ~Given(p.id) /\ Given(p.id)'  BY <2>1, <2>2 DEF Given
  <2> QED  BY <1>g, <2>1, <2>2, <2>3, TravelCreated DEF Goal
<1>3. ASSUME NEW n \in Node, NEW p \in pendingSend[n], SendPending(n, p)  PROVE  Goal
  BY <1>3, <1>g, TravelPending DEF Goal
<1>4. ASSUME NEW n \in Node, NEW f \in wire, RelayFrame(n, f)  PROVE  Goal
  BY <1>4, <1>g, TravelRelayed DEF Goal
<1>5. ASSUME NEW n \in Node, NEW f \in wire, ReceiveMessage(n, f)  PROVE  Goal
  <2> DEFINE p == f.packet
             m == p.messageId
             expiry == IF p.expiresAt < now + AckTtl THEN p.expiresAt ELSE now + AckTtl
  <2> PICK a : a = AckPacket(p, ackCount[m], expiry)  OBVIOUS
  <2>1. /\ wire' \subseteq wire /\ UNCHANGED <<cameFrom, announceFrame, outbox>>
        /\ \/ pendingSend' = pendingSend
           \/ /\ pendingSend' = [pendingSend EXCEPT ![n] = @ \cup {a}]
              /\ ackCount' = [ackCount EXCEPT ![m] = @ + 1]
    BY <1>5 DEF ReceiveMessage
  <2>2. m \in Message  BY <1>0, <1>5 DEF ReceiveMessage, TypeOK, Frame, Packet
  <2>3. a.type = "ack" /\ a.id.kind = "ack" /\ a.id.of = m /\ a.id.nr = ackCount[m]
    BY DEF AckPacket
  <2> HIDE DEF m, p
  <2>4. CASE pendingSend' = pendingSend  BY <1>1, <2>1, <2>4
  <2>5. CASE /\ pendingSend' = [pendingSend EXCEPT ![n] = @ \cup {a}]
             /\ ackCount' = [ackCount EXCEPT ![m] = @ + 1]
    <3>1. ackCount[m] \in Nat /\ ackCount'[m] = ackCount[m] + 1
      BY <1>0, <2>2, <2>5 DEF TypeOK
    <3>2. ~Given(a.id) /\ Given(a.id)'  BY <2>2, <2>3, <3>1 DEF Given
    <3> QED  BY <1>g, <2>1, <2>3, <2>5, <3>2, TravelCreated DEF Goal
  <2> QED  BY <2>1, <2>4, <2>5
<1>6. ASSUME NEW n \in Node, NEW f \in wire, ReceiveDuplicate(n, f) \/ ReceiveAck(n, f)  PROVE  Goal
  <2>1. UNCHANGED <<pendingSend, announceFrame, cameFrom>> /\ wire' \subseteq wire
    BY <1>6 DEF ReceiveDuplicate, ReceiveAck
  <2> QED  BY <1>1, <2>1
<1>7. ASSUME NEW n \in Node, NEW f \in wire, ReceiveAnnounce(n, f)  PROVE  Goal
  <2>1. UNCHANGED <<pendingSend, announceFrame, cameFrom>> /\ RelayOnward(n, f)
        /\ f.packet.type = "announce"
    BY <1>7 DEF ReceiveAnnounce
  <2>2. f.packet \in Packet  BY <1>0 DEF TypeOK, Frame
  <2>3. Announcing(f.packet)  BY <2>1 DEF TravelInv, NameInv, Named, Announcing
  <2>4. Announcing(RelayPacket(f.packet, n))  BY <2>2, <2>3, RelayKeeps DEF Announcing
  <2>5. \A g \in wire' : g \in wire \/ g.packet = RelayPacket(f.packet, n)
    BY <1>0, <2>1, RelayOnwardCopies
  <2> QED  BY <1>1, <2>1, <2>4, <2>5
<1>8. ASSUME NEW n \in Node, StartMesh(n)  PROVE  Goal
  <2> PICK a : a = AnnouncePacket(n, starts[n] + 1, now + AnnounceTtl)  OBVIOUS
  <2>1. Announcing(a)  BY DEF AnnouncePacket, Announcing
  <2>2. \A k \in Node : announceFrame'[k] \in {announceFrame[k], a}
    BY <1>8, <1>a DEF StartMesh
  <2>3. UNCHANGED <<wire, cameFrom, pendingSend>>  BY <1>8 DEF StartMesh
  <2> QED  BY <1>1, <2>1, <2>2, <2>3
<1>9. ASSUME NEW n \in Node, NEW l \in Node, PeerConnected(n, l)  PROVE  Goal
  <2>1. \A f \in wire' : f \in wire \/ (f.packet = announceFrame[n] /\ announceFrame[n] # NoFrame)
    BY <1>9 DEF PeerConnected, FrameTo
  <2>2. \A f \in wire' : f \in wire \/ Announcing(f.packet)
    BY <2>1 DEF TravelInv, NameInv, Announcing
  <2>3. UNCHANGED <<announceFrame, cameFrom, pendingSend>>  BY <1>9 DEF PeerConnected
  <2> QED  BY <1>1, <2>2, <2>3
<1>10. ASSUME NEW n \in Node, StopMesh(n) \/ Restart(n) \/ FinishStop(n) \/ RestartFromService(n)
       PROVE  Goal
  <2>1. UNCHANGED cameFrom /\ wire' \subseteq wire
    BY <1>10 DEF StopMesh, Restart, FinishStop, RestartFromService, Disconnect
  <2>2. \A k \in Node : pendingSend'[k] \subseteq pendingSend[k]
    BY <1>10, <1>p DEF StopMesh, Restart, FinishStop, RestartFromService
  <2>3. \A k \in Node : announceFrame'[k] \in {announceFrame[k], NoFrame}
    BY <1>10, <1>a DEF StopMesh, Restart, FinishStop, RestartFromService
  <2> QED  BY <1>1, <2>1, <2>2, <2>3
<1>11. ASSUME NEW x \in Node, NEW y \in Node, LinkUp(x, y) \/ LinkDown(x, y) \/ PeerLost(x, y)
       PROVE  Goal
  <2>1. UNCHANGED <<pendingSend, announceFrame, cameFrom>> /\ wire' \subseteq wire
    BY <1>11 DEF LinkUp, LinkDown, PeerLost
  <2> QED  BY <1>1, <2>1
<1>12. ASSUME NEW f \in wire, LoseFrame(f)  PROVE  Goal
  <2>1. UNCHANGED <<pendingSend, announceFrame, cameFrom>> /\ wire' \subseteq wire
    BY <1>12 DEF LoseFrame
  <2> QED  BY <1>1, <2>1
<1>13. CASE Tick \/ UNCHANGED vars
  <2>1. UNCHANGED <<wire, pendingSend, announceFrame, cameFrom>>  BY <1>13 DEF Tick, vars
  <2> QED  BY <1>1, <2>1
<1>14. stopping \subseteq Node /\ \A f \in wire : f.to \in Node  BY <1>0 DEF TypeOK, Frame
<1> QED
  BY <1>2, <1>3, <1>4, <1>5, <1>6, <1>7, <1>8, <1>9, <1>10, <1>11, <1>12, <1>13, <1>14
  DEF AppNext, Environment, Receive

\* As long as nothing calls drain, no device sends a packet back over the link it came in
\* by, on every topology and across restarts: a message or an acknowledgement has one copy
\* in transit, and relayPacket's next hop is never the link of the previous one.
THEOREM NoBounceCorrect == AppSpec => [](NoBounceBack /\ SingleCopy)
<1>1. TravelInv => NoBounceBack /\ SingleCopy  BY DEF TravelInv
<1> QED  BY <1>1, TravelInit, TravelStep, PTL DEF AppSpec

\* Whatever relays do to it, a copy of a message keeps its author, its recipient and its
\* id, and an acknowledgement exists only for a message that its author has received.
THEOREM ProvenanceCorrect == Spec => []Provenance
<1>1. DeliveredIsEvidence /\ OnlyRecipientStores /\ Provenance => Provenance  OBVIOUS
<1> QED  BY <1>1, EvidenceCorrect, PTL

-----------------------------------------------------------------------------
\* Custody on every topology.

\* A copy of a message expires when its outbox record says, and an id says what kind of
\* packet it names.
Carried(p) ==
    /\ p.id.kind = p.type
    /\ p.type = "message" => /\ outbox[p.messageId].state # "none"
                             /\ p.expiresAt = outbox[p.messageId].expiresAt

CarryInv ==
    /\ \A f \in wire : Carried(f.packet)
    /\ \A n \in Node : \A p \in pendingSend[n] : Carried(p) /\ p.sender = n
    /\ \A n \in Node : \A r \in queue[n] \cup draining[n].left : Carried(r.packet)
    /\ \A n \in Node : announceFrame[n] # NoFrame => /\ announceFrame[n].type = "announce"
                                                    /\ announceFrame[n].id.kind = "announce"

LEMMA CarryInit == Init => CarryInv
<1> SUFFICES ASSUME Init PROVE CarryInv  OBVIOUS
<1>1. \A n \in Node : FirstAnnounce(n).type = "announce" /\ FirstAnnounce(n).id.kind = "announce"
  BY DEF FirstAnnounce, AnnouncePacket
<1> QED  BY <1>1 DEF Init, CarryInv, NoDrain

\* The record of a message that was queued keeps its expiry.
LEMMA OutboxStays ==
    ASSUME TypeOK, [Next]_vars, NEW m \in Message, outbox[m].state # "none"
    PROVE  outbox'[m].state # "none" /\ outbox'[m].expiresAt = outbox[m].expiresAt
<1>t. outbox \in [Message -> OutboxRecord]  BY DEF TypeOK
<1> DEFINE Stays == outbox'[m].state # "none" /\ outbox'[m].expiresAt = outbox[m].expiresAt
<1> USE DEF linkVars, drainVars, stateVars, recordVars, historyVars
<1>1. ASSUME NEW k \in Message, QueueMessage(k) PROVE Stays
  <2>1. /\ outbox[k].state = "none"
        /\ outbox' = [outbox EXCEPT ![k] = [state |-> "queued", expiresAt |-> now + MessageTtl]]
    BY <1>1 DEF QueueMessage
  <2> QED  BY <2>1, <1>t
<1>2. ASSUME NEW n \in Node, NEW f \in wire, ReceiveAck(n, f) PROVE Stays
  <2>1. PICK k : outbox' = outbox \/ outbox' = [outbox EXCEPT ![k].state = "delivered"]
    BY <1>2 DEF ReceiveAck
  <2> QED  BY <2>1, <1>t DEF OutboxRecord
<1>3. ASSUME UNCHANGED outbox PROVE Stays  BY <1>3
<1>4. ASSUME NEW n \in Node, NEW f \in wire,
             ReceiveDuplicate(n, f) \/ ReceiveAnnounce(n, f) \/ RelayFrame(n, f) \/ ReceiveMessage(n, f)
      PROVE  UNCHANGED outbox
  BY <1>4 DEF ReceiveDuplicate, ReceiveAnnounce, RelayFrame, ReceiveMessage
<1>5. ASSUME NEW n \in Node,
             StopMesh(n) \/ FinishStop(n) \/ RestartFromService(n) \/ StartMesh(n) \/ Restart(n)
      PROVE  UNCHANGED outbox
  BY <1>5 DEF StopMesh, FinishStop, RestartFromService, StartMesh, Restart
<1>6. ASSUME NEW n \in Node, NEW r \in draining[n].left,
             DrainExpired(n, r) \/ DrainSkip(n, r) \/ DrainSend(n, r) \/ DrainFail(n, r)
      PROVE  UNCHANGED outbox
  BY <1>6 DEF DrainExpired, DrainSkip, DrainSend, DrainFail
<1>7. ASSUME NEW n \in Node, DrainStart(n) \/ \E id \in sending[n] : DrainRemove(n, id)
      PROVE  UNCHANGED outbox
  BY <1>7 DEF DrainStart, DrainRemove
<1>8. ASSUME NEW x \in Node, NEW y \in Node,
             LinkUp(x, y) \/ LinkDown(x, y) \/ PeerConnected(x, y) \/ PeerLost(x, y)
      PROVE  UNCHANGED outbox
  BY <1>8 DEF LinkUp, LinkDown, PeerConnected, PeerLost
<1>9. ASSUME NEW f \in wire, LoseFrame(f) PROVE UNCHANGED outbox  BY <1>9 DEF LoseFrame
<1>10. ASSUME NEW n \in Node, NEW p \in pendingSend[n], SendPending(n, p) PROVE UNCHANGED outbox
  BY <1>10 DEF SendPending
<1>11. ASSUME Tick \/ UNCHANGED vars PROVE UNCHANGED outbox  BY <1>11 DEF Tick, vars
<1>12. stopping \subseteq Node /\ \A f \in wire : f.to \in Node  BY DEF TypeOK, Frame
<1> QED
  BY <1>1, <1>2, <1>3, <1>4, <1>5, <1>6, <1>7, <1>8, <1>9, <1>10, <1>11, <1>12
  DEF Next, AppNext, Environment, Receive, Drain

LEMMA CarriedStays ==
    ASSUME TypeOK, [Next]_vars, NEW p \in Packet, Carried(p)
    PROVE  Carried(p)'
<1>1. p.type # "announce" => p.messageId \in Message  BY DEF Packet
<1>2. CASE p.type = "message"  BY <1>1, <1>2, OutboxStays DEF Carried
<1>3. CASE p.type # "message"  BY <1>3 DEF Carried
<1> QED  BY <1>2, <1>3

\* CarryInv survives a step that adds carried copies only.
LEMMA CarryFrom ==
    ASSUME TypeOK, CarryInv, [Next]_vars,
           \A f \in wire' : f \in wire \/ Carried(f.packet)',
           \A n \in Node : \A p \in pendingSend'[n] :
              p \in pendingSend[n] \/ (Carried(p)' /\ p.sender = n),
           \A n \in Node : \A r \in queue'[n] : r \in queue[n] \/ Carried(r.packet)',
           \A n \in Node : announceFrame'[n] # NoFrame =>
              \/ announceFrame'[n] = announceFrame[n]
              \/ announceFrame'[n].type = "announce" /\ announceFrame'[n].id.kind = "announce"
    PROVE  CarryInv'
<1>1. \A f \in wire : f.packet \in Packet  BY DEF TypeOK, Frame
<1>2. \A n \in Node : \A p \in pendingSend[n] : p \in Packet  BY DEF TypeOK
<1>3. \A n \in Node : \A r \in queue[n] \cup draining[n].left : r.packet \in Packet
  BY DEF TypeOK, QueueRecord, DrainCall
<1>4. \A f \in wire' : Carried(f.packet)'  BY <1>1, CarriedStays DEF CarryInv
<1>5. \A n \in Node : \A p \in pendingSend'[n] : Carried(p)' /\ p.sender = n
  BY <1>2, CarriedStays DEF CarryInv
<1>6. \A n \in Node : \A r \in queue'[n] \cup draining'[n].left : Carried(r.packet)'
  BY <1>3, CarriedStays, LeftWasStored DEF CarryInv
<1>7. \A n \in Node : announceFrame'[n] # NoFrame =>
         announceFrame'[n].type = "announce" /\ announceFrame'[n].id.kind = "announce"
  BY DEF CarryInv
<1> QED  BY <1>4, <1>5, <1>6, <1>7 DEF CarryInv

LEMMA CarryStep == EvidenceInv /\ CarryInv /\ [Next]_vars => CarryInv'
<1> SUFFICES ASSUME EvidenceInv, CarryInv, [Next]_vars PROVE CarryInv'  OBVIOUS
<1>0. TypeOK /\ Provenance  BY DEF EvidenceInv
<1>p. pendingSend \in [Node -> SUBSET Packet] /\ \A f \in wire : f.packet \in Packet /\ f.to \in Node
  BY <1>0 DEF TypeOK, Frame
<1>a. announceFrame \in [Node -> Packet \cup {NoFrame}]  BY <1>0 DEF TypeOK
<1>q. queue \in [Node -> SUBSET QueueRecord]  BY <1>0 DEF TypeOK
<1>s. \A p \in Packet : Carried(p) => Carried(p)'  BY <1>0, CarriedStays
<1> USE DEF linkVars, drainVars, stateVars, recordVars, historyVars
<1>1. ASSUME UNCHANGED queue, wire' \subseteq wire,
             \A n \in Node : pendingSend'[n] \subseteq pendingSend[n],
             \A n \in Node : announceFrame'[n] \in {announceFrame[n], NoFrame}
      PROVE  CarryInv'
  BY <1>0, <1>1, CarryFrom
<1>2. ASSUME NEW m \in Message, QueueMessage(m) PROVE CarryInv'
  <2> PICK p : p = MessagePacket(m, From[m], To[m], now + MessageTtl)  OBVIOUS
  <2>1. From[m] \in Node /\ outbox \in [Message -> OutboxRecord]
    BY <1>0, NetworkAssumption DEF TypeOK
  <2>2. /\ outbox'[m] = [state |-> "queued", expiresAt |-> now + MessageTtl]
        /\ pendingSend' = [pendingSend EXCEPT ![From[m]] = @ \cup {p}]
        /\ UNCHANGED <<wire, queue, announceFrame>>
    BY <1>2, <2>1 DEF QueueMessage
  <2>3. Carried(p)' /\ p.sender = From[m]  BY <2>2 DEF Carried, MessagePacket
  <2>4. \A n \in Node : \A q \in pendingSend'[n] : q \in pendingSend[n] \/ (n = From[m] /\ q = p)
    BY <2>1, <2>2, <1>p
  <2> QED  BY <1>0, <2>2, <2>3, <2>4, CarryFrom
<1>3. ASSUME NEW n \in Node, NEW p \in pendingSend[n], SendPending(n, p) PROVE CarryInv'
  <2>1. /\ \A f \in wire' : f \in wire \/ (f.packet = p /\ f.from = n)
        /\ \A k \in Node : \A r \in queue'[k] :
              r \in queue[k] \/ (k = n /\ r.packet = p /\ p.hopCount < p.hopLimit)
    BY <1>3, <1>0, <1>p, SendOrQueueCopies DEF SendPending
  <2>2. \A k \in Node : \A q \in pendingSend'[k] : q \in pendingSend[k]
    BY <1>3, <1>p DEF SendPending
  <2>3. Carried(p)'  BY <1>p, <1>s DEF CarryInv
  <2> QED  BY <1>0, <1>3, <2>1, <2>2, <2>3, CarryFrom DEF SendPending
<1>4. ASSUME NEW n \in Node, NEW f \in wire, ReceiveDuplicate(n, f) \/ ReceiveAck(n, f) PROVE CarryInv'
  <2>1. UNCHANGED <<queue, pendingSend, announceFrame>> /\ wire' \subseteq wire
    BY <1>4 DEF ReceiveDuplicate, ReceiveAck
  <2> QED  BY <1>1, <2>1
<1>5. ASSUME NEW n \in Node, NEW f \in wire, ReceiveAnnounce(n, f) \/ RelayFrame(n, f) PROVE CarryInv'
  <2>1. RelayOnward(n, f) /\ UNCHANGED <<pendingSend, announceFrame>>
    BY <1>5 DEF ReceiveAnnounce, RelayFrame
  <2> PICK q : q = RelayPacket(f.packet, n)  OBVIOUS
  <2>2. q \in Packet  BY <1>p, CreatedPackets
  <2>3. Carried(q)  BY <1>p, RelayKeeps DEF CarryInv, Carried
  <2>4. Carried(q)'  BY <2>2, <2>3, <1>s
  <2>5. /\ \A g \in wire' : g \in wire \/ g.packet = q
        /\ \A k \in Node : \A r \in queue'[k] : r \in queue[k] \/ r.packet = q
    BY <1>0, <2>1, RelayOnwardCopies
  <2> QED  BY <1>0, <2>1, <2>4, <2>5, CarryFrom
<1>6. ASSUME NEW n \in Node, NEW f \in wire, ReceiveMessage(n, f) PROVE CarryInv'
  <2> DEFINE p == f.packet
  <2> DEFINE expiry == IF p.expiresAt < now + AckTtl THEN p.expiresAt ELSE now + AckTtl
  <2> PICK a : a = AckPacket(p, ackCount[p.messageId], expiry)  OBVIOUS
  <2>1. \/ UNCHANGED pendingSend
        \/ pendingSend' = [pendingSend EXCEPT ![n] = @ \cup {a}]
    BY <1>6 DEF ReceiveMessage
  <2>2. p.recipient = n /\ UNCHANGED <<queue, announceFrame>> /\ wire' \subseteq wire
    BY <1>6 DEF ReceiveMessage
  <2>3. Carried(a)' /\ a.sender = n  BY <2>2 DEF AckPacket, Carried
  <2>4. \A k \in Node : \A q \in pendingSend'[k] : q \in pendingSend[k] \/ (k = n /\ q = a)
    BY <2>1, <1>p
  <2> QED  BY <1>0, <2>2, <2>3, <2>4, CarryFrom
<1>7. ASSUME NEW n \in Node, NEW r \in draining[n].left,
             DrainExpired(n, r) \/ DrainSkip(n, r) \/ DrainSend(n, r) \/ DrainFail(n, r)
      PROVE  CarryInv'
  <2>1. UNCHANGED <<announceFrame, pendingSend>>
    BY <1>7 DEF DrainExpired, DrainSkip, DrainSend, DrainFail
  <2>2. \A f \in wire' : f \in wire \/ f.packet = r.packet
    BY <1>7 DEF DrainExpired, DrainSkip, DrainSend, DrainFail, Send, FrameTo
  <2>3. \A k \in Node : \A s \in queue'[k] : s \in queue[k] \/ s.packet = r.packet
    BY <1>7, <1>0, DrainKeepsPackets
  <2>4. r.packet \in Packet  BY <1>0 DEF TypeOK, DrainCall, QueueRecord
  <2>5. Carried(r.packet)'  BY <2>4, <1>s DEF CarryInv
  <2> QED  BY <1>0, <2>1, <2>2, <2>3, <2>5, CarryFrom
<1>8. ASSUME NEW n \in Node, NEW id \in sending[n], DrainRemove(n, id) PROVE CarryInv'
  <2>1. \A k \in Node : queue'[k] \subseteq queue[k]  BY <1>8, <1>q DEF DrainRemove, Without
  <2> QED  BY <1>0, <1>8, <2>1, CarryFrom DEF DrainRemove
<1>9. ASSUME NEW n \in Node, StartMesh(n) PROVE CarryInv'
  <2> PICK a : a = AnnouncePacket(n, starts[n] + 1, now + AnnounceTtl)  OBVIOUS
  <2>1. a.type = "announce" /\ a.id.kind = "announce"  BY DEF AnnouncePacket
  <2>2. \A k \in Node : announceFrame'[k] \in {announceFrame[k], a}
    BY <1>9, <1>a DEF StartMesh
  <2>3. UNCHANGED <<wire, queue, pendingSend>>  BY <1>9 DEF StartMesh
  <2> QED  BY <1>0, <2>1, <2>2, <2>3, CarryFrom
<1>10. ASSUME NEW n \in Node, NEW l \in Node, PeerConnected(n, l) PROVE CarryInv'
  <2>1. \A f \in wire' : f \in wire \/ (f.packet = announceFrame[n] /\ announceFrame[n] # NoFrame)
    BY <1>10 DEF PeerConnected, FrameTo
  <2>2. \A f \in wire' : f \in wire \/ Carried(f.packet)'
    BY <2>1 DEF CarryInv, Carried
  <2>3. UNCHANGED <<queue, pendingSend, announceFrame>>  BY <1>10 DEF PeerConnected
  <2> QED  BY <1>0, <2>2, <2>3, CarryFrom
<1>11. ASSUME NEW n \in Node, StopMesh(n) \/ Restart(n) \/ FinishStop(n) \/ RestartFromService(n)
       PROVE  CarryInv'
  <2>1. UNCHANGED queue /\ wire' \subseteq wire
    BY <1>11 DEF StopMesh, Restart, FinishStop, RestartFromService, Disconnect
  <2>2. \A k \in Node : pendingSend'[k] \subseteq pendingSend[k]
    BY <1>11, <1>p DEF StopMesh, Restart, FinishStop, RestartFromService
  <2>3. \A k \in Node : announceFrame'[k] \in {announceFrame[k], NoFrame}
    BY <1>11, <1>a DEF StopMesh, Restart, FinishStop, RestartFromService
  <2> QED  BY <1>1, <2>1, <2>2, <2>3
<1>12. ASSUME NEW x \in Node, NEW y \in Node, LinkUp(x, y) \/ LinkDown(x, y) \/ PeerLost(x, y)
       PROVE  CarryInv'
  <2>1. UNCHANGED <<queue, pendingSend, announceFrame>> /\ wire' \subseteq wire
    BY <1>12 DEF LinkUp, LinkDown, PeerLost
  <2> QED  BY <1>1, <2>1
<1>13. ASSUME NEW f \in wire, LoseFrame(f) PROVE CarryInv'
  <2>1. UNCHANGED <<queue, pendingSend, announceFrame>> /\ wire' \subseteq wire
    BY <1>13 DEF LoseFrame
  <2> QED  BY <1>1, <2>1
<1>14. CASE Tick \/ UNCHANGED vars
  <2>1. UNCHANGED <<wire, queue, pendingSend, announceFrame>>  BY <1>14 DEF Tick, vars
  <2> QED  BY <1>1, <2>1
<1>15. stopping \subseteq Node  BY <1>0 DEF TypeOK
<1>16. ASSUME NEW n \in Node, DrainStart(n) PROVE CarryInv'
  <2>1. UNCHANGED <<queue, wire, pendingSend, announceFrame>>  BY <1>16 DEF DrainStart
  <2> QED  BY <1>1, <2>1
<1> QED
  BY <1>p, <1>2, <1>3, <1>4, <1>5, <1>6, <1>7, <1>8, <1>9, <1>10, <1>11, <1>12, <1>13, <1>14, <1>15, <1>16
  DEF Next, AppNext, Environment, Receive, Drain

\* The packet is the message m.
MessageOf(p, m) ==
    /\ p.type = "message" /\ p.messageId = m
    /\ p.sender = From[m] /\ p.recipient = To[m]
    /\ p.expiresAt = outbox[m].expiresAt

\* Its id is how a copy of a message is known.
LEMMA KnownById ==
    ASSUME TypeOK, Provenance, CarryInv, NEW m \in Message
    PROVE  /\ \A f \in wire : f.packet.id = MessageId(m) => MessageOf(f.packet, m)
           /\ \A n \in Node : \A p \in pendingSend[n] : p.id = MessageId(m) => MessageOf(p, m)
           /\ \A n \in Node : \A r \in queue[n] \cup draining[n].left :
                 r.packet.id = MessageId(m) => MessageOf(r.packet, m)
<1>1. \A p : Genuine(p) /\ Carried(p) /\ p.id = MessageId(m) => MessageOf(p, m)
  <2> SUFFICES ASSUME NEW p, Genuine(p), Carried(p), p.id = MessageId(m)
               PROVE  MessageOf(p, m)
    OBVIOUS
  <2>1. p.type = "message" /\ p.id.of = m  BY DEF Carried, MessageId
  <2>2. p.id.of = p.messageId  BY <2>1 DEF Genuine, MessageId
  <2>3. p.messageId = m  BY <2>1, <2>2
  <2>4. p.sender = From[m] /\ p.recipient = To[m]  BY <2>1, <2>3 DEF Genuine
  <2>5. p.expiresAt = outbox[m].expiresAt  BY <2>1, <2>3 DEF Carried
  <2> QED  BY <2>1, <2>3, <2>4, <2>5 DEF MessageOf
<1> QED  BY <1>1 DEF Provenance, CarryInv

\* engine.sendOrQueue takes no copy off the wire but the one in hand, loses no id from a
\* queue, and drops the packet in hand only when it is expired or exhausted.
LEMMA SendOrQueueHolds ==
    ASSUME TypeOK, NEW n \in Node, NEW p \in Packet, NEW excluded, NEW rest,
           SendOrQueue(n, p, excluded, rest)
    PROVE  /\ rest \subseteq wire'
           /\ \A k \in Node : \A r \in queue[k] : \E s \in queue'[k] : s.packet.id = r.packet.id
           /\ \/ p.expiresAt <= now \/ p.hopCount >= p.hopLimit
              \/ p.id \in swallowed'
              \/ \E f \in wire' : f.packet = p
              \/ \E s \in queue'[n] : s.packet.id = p.id
<1> DEFINE new == [packet |-> p, attempts |-> StoredAttempts(n, p.id),
                   nextAttemptAt |-> NextRelayAttemptAt(StoredAttempts(n, p.id), now)]
<1>q. queue \in [Node -> SUBSET QueueRecord]  BY DEF TypeOK
<1>0. rest \subseteq wire'  BY DEF SendOrQueue, Send
<1>1. CASE queue' = queue /\ ~Store(n, p)
  <2>1. p.expiresAt <= now \/ Send(n, NextHops(p, peers[n], n, excluded, now), p, rest)
    BY <1>1 DEF SendOrQueue
  <2>2. CASE p.expiresAt <= now  BY <1>0, <1>1, <2>2
  <2>3. CASE Send(n, NextHops(p, peers[n], n, excluded, now), p, rest)
    <3>1. (\E f \in wire' : f.packet = p) \/ p.id \in swallowed'
      <4>1. PICK l : \/ wire' = rest \cup {FrameTo(n, l, p)}
                     \/ swallowed' = swallowed \cup {p.id}
        BY <2>3 DEF Send
      <4>2. FrameTo(n, l, p).packet = p  BY DEF FrameTo
      <4> QED  BY <4>1, <4>2
    <3> QED  BY <1>0, <1>1, <3>1
  <2> QED  BY <2>1, <2>2, <2>3
<1>2. CASE Store(n, p)
  <2>1. \/ queue' = queue /\ p.hopCount >= p.hopLimit
        \/ queue' = queue /\ StoredAttempts(n, p.id) >= MaxRelayAttempts
        \/ queue' = [queue EXCEPT ![n] = Without(n, p.id) \cup {new}]
    BY <1>2 DEF Store
  <2>2. new.packet.id = p.id  OBVIOUS
  <2> HIDE DEF new
  <2>3. CASE queue' = queue /\ p.hopCount >= p.hopLimit  BY <1>0, <2>3
  <2>4. CASE queue' = queue /\ StoredAttempts(n, p.id) >= MaxRelayAttempts
    <3>1. StoredAttempts(n, p.id) # 0  BY <2>4, RoutingAssumption
    <3>2. \E r \in queue[n] : r.packet.id = p.id  BY <3>1 DEF StoredAttempts
    <3> QED  BY <1>0, <2>4, <3>2
  <2>5. CASE queue' = [queue EXCEPT ![n] = Without(n, p.id) \cup {new}]
    <3>1. queue'[n] = Without(n, p.id) \cup {new}  BY <1>q, <2>5
    <3>2. \A k \in Node : \A r \in queue[k] : \E s \in queue'[k] : s.packet.id = r.packet.id
      <4> SUFFICES ASSUME NEW k \in Node, NEW r \in queue[k]
                   PROVE  \E s \in queue'[k] : s.packet.id = r.packet.id
        OBVIOUS
      <4>1. CASE k = n /\ r.packet.id = p.id  BY <2>2, <3>1, <4>1
      <4>2. CASE k = n /\ r.packet.id # p.id  BY <3>1, <4>2 DEF Without
      <4>3. CASE k # n  BY <1>q, <2>5, <4>3
      <4> QED  BY <4>1, <4>2, <4>3
    <3>3. \E s \in queue'[n] : s.packet.id = p.id  BY <2>2, <3>1
    <3> QED  BY <1>0, <3>2, <3>3
  <2> QED  BY <2>1, <2>3, <2>4, <2>5
<1>3. queue' = queue \/ Store(n, p)  BY DEF SendOrQueue
<1> QED  BY <1>1, <1>2, <1>3

\* Custody's step: what each handler does with the copies of an undelivered message.
LEMMA CustodyStep ==
    ASSUME EvidenceInv, CarryInv, DrainInv, [Next]_vars,
           NEW m \in Message, Undelivered(m)', Held(m)
    PROVE  Held(m)' \/ GivenUp(m)
<1> DEFINE id == MessageId(m)
           Goal == Held(m)' \/ GivenUp(m)
<1>0. TypeOK /\ Provenance  BY DEF EvidenceInv
<1>p. pendingSend \in [Node -> SUBSET Packet] /\ \A f \in wire : f.packet \in Packet /\ f.to \in Node
  BY <1>0 DEF TypeOK, Frame
<1>q. queue \in [Node -> SUBSET QueueRecord] /\ \A n \in Node : \A r \in queue[n] : r.packet \in Packet
  BY <1>0 DEF TypeOK, QueueRecord
<1>o. outbox \in [Message -> OutboxRecord] /\ now \in Nat  BY <1>0 DEF TypeOK
<1>n. \A e \in Nat, t \in Nat : ~(t < e /\ e <= t)  OBVIOUS
<1>u. outbox'[m].state = "queued" /\ now' < outbox'[m].expiresAt /\ ~Received(m)'
  BY DEF Undelivered
<1>i. /\ \A f \in wire : f.packet.id = id => MessageOf(f.packet, m)
      /\ \A n \in Node : \A p \in pendingSend[n] : p.id = id => MessageOf(p, m)
      /\ \A n \in Node : \A r \in queue[n] \cup draining[n].left :
            r.packet.id = id => MessageOf(r.packet, m)
  BY <1>0, KnownById
<1>e. ASSUME UNCHANGED <<now, outbox>>, NEW p \in Packet, MessageOf(p, m)
      PROVE  ~(p.expiresAt <= now)
  <2>1. now < p.expiresAt /\ p.expiresAt \in Nat
    BY <1>e, <1>u DEF MessageOf, Packet, PacketFields
  <2> QED  BY <2>1, <1>o
\* Where a copy may be found after the step.
<1>w. (\E f \in wire' : f.packet.id = id) => Goal
  BY DEF Held, Copies, OnWire, MessageId
<1>x. (\E n \in Node : \E p \in pendingSend'[n] : p.id = id) => Goal
  BY DEF Held, Copies, Pending, MessageId
<1>y. (\E n \in Node : \E r \in queue'[n] : r.packet.id = id) => Goal
  BY DEF Held, Copies, InQueues, MessageId
<1>h. \/ \E f \in wire : f.packet.id = id
      \/ \E n \in Node : \E p \in pendingSend[n] : p.id = id
      \/ \E n \in Node : \E r \in queue[n] : r.packet.id = id
  BY DEF Held, Copies, OnWire, Pending, InQueues
<1>k. ASSUME \A f \in wire : f.packet.id = id => f \in wire' \/ Goal,
             \A n \in Node : \A p \in pendingSend[n] : p.id = id => p \in pendingSend'[n] \/ Goal,
             \A n \in Node : \A r \in queue[n] :
                r.packet.id = id => (\E s \in queue'[n] : s.packet.id = id) \/ Goal
      PROVE  Goal
  <2> HIDE DEF Goal, id
  <2> QED  BY <1>h, <1>k, <1>w, <1>x, <1>y
<1>r. id \in excused' \cup swallowed' => Goal  BY DEF GivenUp
<1> HIDE DEF Goal, id
<1> USE DEF linkVars, drainVars, stateVars, recordVars, historyVars
<1>1. ASSUME NEW k \in Message, QueueMessage(k) PROVE Goal
  <2>1. /\ pendingSend' = [pendingSend EXCEPT ![From[k]] =
                             @ \cup {MessagePacket(k, From[k], To[k], now + MessageTtl)}]
        /\ UNCHANGED <<wire, queue>>
    BY <1>1 DEF QueueMessage
  <2>2. \A n \in Node : pendingSend[n] \subseteq pendingSend'[n]  BY <2>1, <1>p
  <2> QED  BY <1>k, <2>1, <2>2
<1>2. ASSUME NEW n \in Node, NEW p \in pendingSend[n], SendPending(n, p) PROVE Goal
  <2>1. /\ SendOrQueue(n, p, NoLink, wire) /\ UNCHANGED <<now, outbox>>
        /\ pendingSend' = [pendingSend EXCEPT ![n] = @ \ {p}]
    BY <1>2 DEF SendPending
  <2>2. p \in Packet  BY <1>p
  <2>3. /\ wire \subseteq wire'
        /\ \A k \in Node : \A r \in queue[k] : \E s \in queue'[k] : s.packet.id = r.packet.id
        /\ \/ p.expiresAt <= now \/ p.hopCount >= p.hopLimit
           \/ p.id \in swallowed'
           \/ \E f \in wire' : f.packet = p
           \/ \E s \in queue'[n] : s.packet.id = p.id
    BY <1>0, <2>1, <2>2, SendOrQueueHolds
  <2>4. \A k \in Node : \A q \in pendingSend[k] : q \in pendingSend'[k] \/ (k = n /\ q = p)
    BY <2>1, <1>p
  <2>5. p.id = id => Goal
    <3> SUFFICES ASSUME p.id = id PROVE Goal  OBVIOUS
    <3>1. MessageOf(p, m)  BY <1>i
    <3>2. ~(p.expiresAt <= now)  BY <1>e, <2>1, <2>2, <3>1
    <3>3. p.hopCount >= p.hopLimit => Goal
      <4>1. n = From[m]  BY <3>1 DEF CarryInv, MessageOf
      <4> QED  BY <4>1 DEF GivenUp, Goal, id
    <3> QED  BY <2>3, <3>2, <3>3, <1>r, <1>w, <1>y
  <2> QED  BY <1>k, <2>3, <2>4, <2>5
<1>3. ASSUME NEW f \in wire, ReceiveDuplicate(f.to, f) PROVE Goal
  <2>1. wire' = wire \ {f} /\ UNCHANGED <<queue, pendingSend>>  BY <1>3 DEF ReceiveDuplicate
  <2>2. f.packet.id = id => Goal  BY <1>3 DEF GivenUp, Goal, id
  <2> QED  BY <1>k, <2>1, <2>2
<1>4. ASSUME NEW f \in wire, RelayOnward(f.to, f), UNCHANGED pendingSend,
             f.packet.id = id => UNCHANGED <<now, outbox>> /\ RelayFrame(f.to, f)
      PROVE  Goal
  <2> DEFINE n == f.to
             q == RelayPacket(f.packet, n)
  <2>1. f.packet \in Packet /\ n \in Node /\ q \in Packet  BY <1>p, CreatedPackets
  <2>2. CASE ShouldRelay(f.packet, n, now)
    <3>1. SendOrQueue(n, q, f.from, wire \ {f})  BY <1>4, <2>2 DEF RelayOnward
    <3> HIDE DEF q, n
    <3>2. /\ wire \ {f} \subseteq wire'
          /\ \A k \in Node : \A r \in queue[k] : \E s \in queue'[k] : s.packet.id = r.packet.id
          /\ \/ q.expiresAt <= now \/ q.hopCount >= q.hopLimit
             \/ q.id \in swallowed'
             \/ \E g \in wire' : g.packet = q
             \/ \E s \in queue'[n] : s.packet.id = q.id
      BY <1>0, <2>1, <3>1, SendOrQueueHolds
    <3>3. f.packet.id = id => Goal
      <4> SUFFICES ASSUME f.packet.id = id PROVE Goal  OBVIOUS
      <4>1. MessageOf(f.packet, m)  BY <1>i
      <4>2. ~(f.packet.expiresAt <= now)  BY <1>e, <1>4, <2>1, <4>1
      <4>3. /\ q.id = id /\ q.expiresAt = f.packet.expiresAt
            /\ q.hopCount = f.packet.hopCount + 1 /\ q.hopLimit = f.packet.hopLimit
        BY <2>1, RelayKeeps DEF q
      <4>4. q.hopCount >= q.hopLimit => Goal  BY <1>4, <4>3 DEF GivenUp, Goal, id
      <4> QED  BY <2>1, <3>2, <4>2, <4>3, <4>4, <1>r, <1>w, <1>y
    <3> QED  BY <1>k, <1>4, <3>2, <3>3
  <2>3. CASE ~ShouldRelay(f.packet, n, now)
    <3>1. wire' = wire \ {f} /\ UNCHANGED queue  BY <1>4, <2>3 DEF RelayOnward
    <3>2. f.packet.id = id => Goal
      <4> SUFFICES ASSUME f.packet.id = id PROVE Goal  OBVIOUS
      <4>1. MessageOf(f.packet, m)  BY <1>i
      <4>2. f.packet.expiresAt > now
        <5>1. ~(f.packet.expiresAt <= now)  BY <1>e, <1>4, <2>1, <4>1
        <5>2. f.packet.expiresAt \in Nat  BY <2>1 DEF Packet, PacketFields
        <5> QED  BY <5>1, <5>2, <1>o
      <4>3. f.packet.recipient # n  BY <1>4 DEF RelayFrame
      <4>4. f.packet.sender = n \/ ~(f.packet.hopCount < f.packet.hopLimit)
        BY <2>3, <4>2, <4>3 DEF ShouldRelay, CanRelay
      <4>5. n = From[m] \/ f.packet.hopCount + 1 >= f.packet.hopLimit
        <5>1. f.packet.hopCount \in Nat /\ f.packet.hopLimit \in Nat
          BY <2>1 DEF Packet, PacketFields
        <5> QED  BY <4>1, <4>4, <5>1 DEF MessageOf
      <4> QED  BY <1>4, <4>5 DEF GivenUp, Goal, id
    <3> QED  BY <1>k, <1>4, <3>1, <3>2
  <2> QED  BY <2>2, <2>3
<1>5. ASSUME NEW f \in wire, RelayFrame(f.to, f) PROVE Goal
  <2>1. RelayOnward(f.to, f) /\ UNCHANGED <<pendingSend, now, outbox>>  BY <1>5 DEF RelayFrame
  <2> QED  BY <1>4, <1>5, <2>1
<1>6. ASSUME NEW f \in wire, ReceiveAnnounce(f.to, f) PROVE Goal
  <2>1. f.packet.type = "announce" /\ RelayOnward(f.to, f) /\ UNCHANGED pendingSend
    BY <1>6 DEF ReceiveAnnounce
  <2>2. f.packet.id # id  BY <2>1, <1>i DEF MessageOf
  <2> QED  BY <1>4, <2>1, <2>2
<1>7. ASSUME NEW f \in wire, ReceiveMessage(f.to, f) PROVE Goal
  <2> DEFINE p == f.packet
  <2> DEFINE expiry == IF p.expiresAt < now + AckTtl THEN p.expiresAt ELSE now + AckTtl
  <2> PICK a : a = AckPacket(p, ackCount[p.messageId], expiry)  OBVIOUS
  <2>1. /\ UNCHANGED <<queue, now, outbox>> /\ wire' = wire \ {f}
        /\ p.recipient = f.to
        /\ ~(p.expiresAt <= now) =>
              /\ alerts' = [alerts EXCEPT ![f.to] = @ \cup ({p.messageId} \cap Alerting)]
              /\ ackCount' = [ackCount EXCEPT ![p.messageId] = @ + 1]
        /\ \/ UNCHANGED pendingSend
           \/ pendingSend' = [pendingSend EXCEPT ![f.to] = @ \cup {a}]
    BY <1>7 DEF ReceiveMessage
  <2>2. \A k \in Node : pendingSend[k] \subseteq pendingSend'[k]  BY <2>1, <1>p
  <2>3. p.id # id
    <3> SUFFICES ASSUME p.id = id PROVE FALSE  OBVIOUS
    <3>1. MessageOf(p, m)  BY <1>i
    <3>2. ~(p.expiresAt <= now)  BY <1>e, <1>p, <2>1, <3>1
    <3>3. To[m] = f.to /\ p.messageId = m  BY <2>1, <3>1 DEF MessageOf
    <3>4. alerts \in [Node -> SUBSET Message] /\ ackCount \in [Message -> Nat]  BY <1>0 DEF TypeOK
    <3>5. ackCount'[m] > 0  BY <2>1, <3>2, <3>3, <3>4
    <3>6. m \in Alerting => m \in alerts'[To[m]]  BY <1>p, <2>1, <3>2, <3>3, <3>4
    <3> QED  BY <3>5, <3>6, <1>u DEF Received
  <2> QED  BY <1>k, <2>1, <2>2, <2>3
<1>8. ASSUME NEW f \in wire, ReceiveAck(f.to, f) PROVE Goal
  <2>1. f.packet.type = "ack" /\ wire' = wire \ {f} /\ UNCHANGED <<queue, pendingSend>>
    BY <1>8 DEF ReceiveAck
  <2>2. f.packet.id # id  BY <2>1, <1>i DEF MessageOf
  <2> QED  BY <1>k, <2>1, <2>2
<1>9. ASSUME NEW n \in Node, NEW r \in draining[n].left, DrainExpired(n, r) PROVE Goal
  <2>1. /\ r.packet.expiresAt <= draining[n].at
        /\ queue' = [queue EXCEPT ![n] = Without(n, r.packet.id)]
        /\ UNCHANGED <<wire, pendingSend, now, outbox>>
    BY <1>9 DEF DrainExpired
  <2>2. r.packet.id # id
    <3>1. r.packet \in Packet /\ draining[n].at \in Nat /\ draining[n].at <= now
      BY <1>0, <1>9, TurnTakes DEF DrainInv, DrainExpired
    <3>2. r.packet.expiresAt \in Nat  BY <3>1 DEF Packet, PacketFields
    <3>3. r.packet.expiresAt <= now  BY <1>o, <2>1, <3>1, <3>2
    <3> QED  BY <1>e, <1>i, <2>1, <3>1, <3>3
  <2>3. \A k \in Node : \A s \in queue[k] : s \in queue'[k] \/ s.packet.id = r.packet.id
    BY <1>q, <2>1 DEF Without
  <2> QED  BY <1>k, <2>1, <2>2, <2>3
<1>10. ASSUME NEW n \in Node, NEW r \in draining[n].left, DrainSend(n, r) PROVE Goal
  <2>1. wire \subseteq wire' /\ UNCHANGED <<queue, pendingSend>>  BY <1>10 DEF DrainSend, Send
  <2> QED  BY <1>k, <2>1
<1>11. ASSUME NEW n \in Node, NEW r \in draining[n].left, DrainFail(n, r) PROVE Goal
  <2> DEFINE retried == [r EXCEPT !.attempts = r.attempts + 1,
                                  !.nextAttemptAt = NextRelayAttemptAt(r.attempts + 1, draining[n].at)]
  <2>1. retried.packet = r.packet  BY <1>0 DEF TypeOK, DrainCall, QueueRecord
  <2>2. /\ UNCHANGED <<wire, pendingSend>>
        /\ \/ queue' = [queue EXCEPT ![n] = Without(n, r.packet.id)] /\ r.packet.id \in excused'
           \/ queue' = [queue EXCEPT ![n] = Without(n, r.packet.id) \cup {retried}]
    BY <1>11 DEF DrainFail
  <2> HIDE DEF retried
  <2>3. \A k \in Node : \A s \in queue[k] : s \in queue'[k] \/ (k = n /\ s.packet.id = r.packet.id)
    BY <1>q, <2>2 DEF Without
  <2>4. r.packet.id \in excused' \/ retried \in queue'[n]  BY <1>q, <2>2
  <2> QED  BY <1>k, <1>r, <1>y, <2>1, <2>2, <2>3, <2>4
<1>12. ASSUME NEW n \in Node, NEW i \in sending[n], DrainRemove(n, i) PROVE Goal
  <2>1. queue' = [queue EXCEPT ![n] = Without(n, i)] /\ UNCHANGED <<wire, pendingSend>>
    BY <1>12 DEF DrainRemove
  <2>2. \A k \in Node : \A s \in queue[k] : s \in queue'[k] \/ s.packet.id = i
    BY <1>q, <2>1 DEF Without
  <2>3. i = id => Goal  BY <1>12 DEF GivenUp, Goal, id
  <2> QED  BY <1>k, <2>1, <2>2, <2>3
<1>13. ASSUME NEW lost \in SUBSET wire, wire' = wire \ lost, UNCHANGED queue,
              excused' = excused \cup IdsOf(lost),
              \A n \in Node : \A p \in pendingSend[n] : p.id = id => p \in pendingSend'[n] \/ Goal
       PROVE  Goal
  <2>1. \A f \in lost : f.packet.id \in excused'  BY <1>13 DEF IdsOf
  <2>2. \A f \in wire : f.packet.id = id => f \in wire' \/ Goal  BY <1>13, <1>r, <2>1
  <2> QED  BY <1>k, <1>13, <2>2
<1>14. ASSUME NEW n \in Node, Restart(n) PROVE Goal
  <2>1. /\ wire' = wire \ OfDevice(n) /\ excused' = excused \cup IdsOf(OfDevice(n))
        /\ UNCHANGED queue /\ pendingSend' = [pendingSend EXCEPT ![n] = {}]
    BY <1>14 DEF Restart, Disconnect
  <2>2. OfDevice(n) \in SUBSET wire  BY DEF OfDevice
  <2>3. \A k \in Node : \A p \in pendingSend[k] : p.id = id => p \in pendingSend'[k] \/ Goal
    <3> SUFFICES ASSUME NEW k \in Node, NEW p \in pendingSend[k], p.id = id, p \notin pendingSend'[k]
                 PROVE  Goal
      OBVIOUS
    <3>1. k = n  BY <1>p, <2>1
    <3>2. p.sender = n /\ MessageOf(p, m)  BY <1>i, <3>1 DEF CarryInv
    <3>3. n = From[m]  BY <3>2 DEF MessageOf
    <3> QED  BY <1>14, <3>1, <3>3 DEF GivenUp, Goal, id
  <2> QED  BY <1>13, <2>1, <2>2, <2>3
<1>15. ASSUME NEW n \in Node, StopMesh(n) PROVE Goal
  <2>1. PICK lost : lost \subseteq wire /\ Disconnect(n, lost)  BY <1>15 DEF StopMesh, OfDevice
  <2>2. UNCHANGED <<queue, pendingSend>>  BY <1>15 DEF StopMesh
  <2>3. wire' = wire \ lost /\ excused' = excused \cup IdsOf(lost)  BY <2>1 DEF Disconnect
  <2> QED  BY <1>13, <2>1, <2>2, <2>3
<1>16. ASSUME NEW x \in Node, NEW y \in Node, LinkDown(x, y) PROVE Goal
  <2>1. /\ wire' = wire \ OnLink(x, y) /\ excused' = excused \cup IdsOf(OnLink(x, y))
        /\ UNCHANGED <<queue, pendingSend>>
    BY <1>16 DEF LinkDown
  <2>2. OnLink(x, y) \in SUBSET wire  BY DEF OnLink
  <2> QED  BY <1>13, <2>1, <2>2
<1>17. ASSUME NEW f \in wire, LoseFrame(f) PROVE Goal
  <2>1. /\ wire' = wire \ {f} /\ excused' = excused \cup {f.packet.id}
        /\ UNCHANGED <<queue, pendingSend>>
    BY <1>17 DEF LoseFrame
  <2> QED  BY <1>k, <1>r, <2>1
<1>18. ASSUME wire \subseteq wire', UNCHANGED <<queue, pendingSend>> PROVE Goal  BY <1>k, <1>18
<1>19. ASSUME NEW n \in Node, NEW l \in Node,
              PeerConnected(n, l) \/ PeerLost(n, l) \/ LinkUp(n, l)
       PROVE  wire \subseteq wire' /\ UNCHANGED <<queue, pendingSend>>
  BY <1>19 DEF PeerConnected, PeerLost, LinkUp
<1>20. ASSUME NEW n \in Node,
              \/ FinishStop(n) \/ RestartFromService(n) \/ StartMesh(n) \/ DrainStart(n)
              \/ \E r \in draining[n].left : DrainSkip(n, r)
       PROVE  wire \subseteq wire' /\ UNCHANGED <<queue, pendingSend>>
  BY <1>20 DEF FinishStop, RestartFromService, StartMesh, DrainStart, DrainSkip
<1>21. ASSUME Tick \/ UNCHANGED vars PROVE wire \subseteq wire' /\ UNCHANGED <<queue, pendingSend>>
  BY <1>21 DEF Tick, vars
<1>22. stopping \subseteq Node  BY <1>0 DEF TypeOK
<1>23. Goal
  BY <1>1, <1>2, <1>3, <1>5, <1>6, <1>7, <1>8, <1>9, <1>10, <1>11, <1>12, <1>14, <1>15, <1>16,
     <1>17, <1>18, <1>19, <1>20, <1>21, <1>22
  DEF Next, AppNext, Environment, Receive, Drain
<1> QED  BY <1>23 DEF Goal

\* On every topology, with every number of restarts, link failures and retries, the last
\* copy of a message that is neither expired nor received goes only by a loss of the radio, a spent retry or hop
\* budget, a closing link, the author's crash before its first send, the removal of what
\* was sent, or a refusal by a device that has seen or made the message.
THEOREM CustodyKept == Spec => CustodyIsKept
<1>1. Init => EvidenceInv /\ CarryInv /\ DrainInv
  BY EvidenceInit, CarryInit DEF Init, DrainInv, OneRecord, NoDrain
<1>2. EvidenceInv /\ CarryInv /\ DrainInv /\ [Next]_vars => (EvidenceInv /\ CarryInv /\ DrainInv)'
  <2>1. EvidenceInv => TypeOK  BY DEF EvidenceInv
  <2> QED  BY <2>1, EvidenceStep, CarryStep, DurableStep
<1>3. EvidenceInv /\ CarryInv /\ DrainInv /\ [Next]_vars =>
        [\A m \in Message : Undelivered(m)' /\ Held(m) => Held(m)' \/ GivenUp(m)]_vars
  BY CustodyStep
<1> QED  BY <1>1, <1>2, <1>3, PTL DEF Spec, CustodyIsKept
=============================================================================
