--------------------------- MODULE AlertExchange ---------------------------
(***************************************************************************)
(* What the devices of the mesh make of the packets that reach them: the   *)
(* message a device writes (queueMessage), the duplicate filter,           *)
(* decryption and acknowledgement of a receiver, and the acknowledgement   *)
(* an author takes for a delivery.                                         *)
(*                                                                         *)
(* The network is all that MeshNetwork makes of it and more: any packet a  *)
(* frame can hold may arrive anywhere, at any time and any number of       *)
(* times, a relayed copy, an old one or a damaged one.  What cannot arrive *)
(* is a signature that fits its text and that nobody made (the promise of  *)
(* the signature scheme, external).                                        *)
(***************************************************************************)
EXTENDS MeshPackets, Sequences, FiniteSets

CONSTANTS
    Alert,         \* the alerts a person may write
    Packet,        \* the packets a frame may hold
    MessageTtl,    \* the seven days queueMessage gives a message
    MaxEntries,    \* maxEntries of the duplicate filter
    Retention      \* retentionMs of the duplicate filter

VARIABLES
    clock,      \* clock[d]: Date.now() of device d
    used,       \* the ids createId has made
    composed,   \* composed[d]: the messages d has written, sealed and signed
    outbox,     \* outbox[d]: the records of its messages
    accepted,   \* accepted[d]: what the filter of d took in, in order, since the start
    filter,     \* filter[d]: the places in accepted[d] of the entries it still holds
    shown,      \* shown[d]: the messages d has decrypted and shown
    owed,       \* owed[d]: message packets shown and not yet acknowledged
    answers     \* answers[d]: the acknowledgements d has signed

vars == <<clock, used, composed, outbox, accepted, filter, shown, owed, answers>>

Init ==
    /\ clock = [d \in Device |-> 0] /\ used = {}
    /\ composed = [d \in Device |-> {}] /\ outbox = [d \in Device |-> {}]
    /\ accepted = [d \in Device |-> <<>>] /\ filter = [d \in Device |-> {}]
    /\ shown = [d \in Device |-> {}] /\ owed = [d \in Device |-> {}]
    /\ answers = [d \in Device |-> {}]

\* Every signature there is.
Signed ==
    UNION {{c.envelope.signature : c \in composed[d]} \cup {a.signature : a \in answers[d]}
             : d \in Device}

-----------------------------------------------------------------------------
\* DeduplicationCache.prune, has, and the eviction of the oldest in remember.
Kept(d) == {n \in filter[d] : clock[d] - accepted[d][n].at <= Retention}

Holds(d, id) == \E n \in Kept(d) : accepted[d][n].id = id

Newest(places) == {n \in places : Cardinality({m \in places : m > n}) < MaxEntries}

\* remember returns true: the id is new to the filter.
Remember(d, id) ==
    /\ ~Holds(d, id)
    /\ accepted' = [accepted EXCEPT ![d] = Append(@, [id |-> id, at |-> clock[d]])]
    /\ filter' = [filter EXCEPT ![d] = Newest(Kept(d) \cup {Len(accepted[d]) + 1})]

-----------------------------------------------------------------------------
\* The texts a message may carry, with the alert each was made of: queueAlert serializes
\* one, queueMessage takes any text that trim() leaves something of.
Written ==
    {[body |-> SerializeStructuredAlert(a), alert |-> a] : a \in {b \in Alert : ValidAlert(b)}}
        \cup {[body |-> Plain(t), alert |-> NoAlert] : t \in Text \ Blank}

\* queueMessage: the recipient's entry gives the key, whichever its announcement named.
QueueMessage(d, recipient, key, text, messageId, packetId) ==
    LET peerId == DerivePeerId(recipient)
        expiry == clock[d] + MessageTtl
        e == EncryptMeshMessage(MeshIdentity(d), peerId, key, messageId, <<"dm", peerId>>,
                                text.body, clock[d], expiry)
        c == [envelope |-> e, packetId |-> packetId, alert |-> text.alert]
    IN  /\ CanEncrypt(MeshIdentity(d), peerId, key, text.body, clock[d], expiry)
        /\ messageId # packetId /\ {messageId, packetId} \cap used = {}
        /\ used' = used \cup {messageId, packetId}
        /\ composed' = [composed EXCEPT ![d] = @ \cup {c}]
        /\ outbox' = [outbox EXCEPT ![d] = @ \cup {[message |-> c, state |-> "queued"]}]
        /\ UNCHANGED <<clock, accepted, filter, shown, owed, answers>>

\* A packet a frame may bring; if its signature fits, some device has made it.
SignatureFits(p) ==
    \/ Verify(p.signature, MessageText(EnvelopeOf(p)), p.senderSigningPublicKey)
    \/ Verify(p.signature, AcknowledgementText(p), p.senderSigningPublicKey)

Arrives(p) == IsMeshPacket(p) /\ (SignatureFits(p) => p.signature \in Signed)

\* receive: a packet the filter holds is dropped, and the filter pruned.
ReceiveDuplicate(d, p) ==
    /\ Arrives(p) /\ Holds(d, p.packetId)
    /\ filter' = [filter EXCEPT ![d] = Kept(d)]
    /\ UNCHANGED <<clock, used, composed, outbox, accepted, shown, owed, answers>>

\* What the receiver shows of a packet it has decrypted.
ShownOf(p) ==
    [ message |-> DecryptMeshMessage(EnvelopeOf(p)),
      alert |-> ParseStructuredAlert(p.ciphertext.body) ]

\* receive and handleDecryptedMessage: the message is shown, its acknowledgement is due.
ReceiveMessage(d, p) ==
    /\ Arrives(p) /\ Remember(d, p.packetId)
    /\ CanDecryptPacket(MeshIdentity(d), p, clock[d])
    /\ shown' = [shown EXCEPT ![d] = @ \cup {ShownOf(p)}]
    /\ owed' = [owed EXCEPT ![d] = @ \cup {p}]
    /\ UNCHANGED <<clock, used, composed, outbox, answers>>

\* sendAcknowledgement, after the alert was stored.
SendAcknowledgement(d, p, packetId) ==
    /\ p \in owed[d] /\ packetId \notin used
    /\ CanAcknowledge(MeshIdentity(d), p, clock[d])
    /\ used' = used \cup {packetId}
    /\ owed' = [owed EXCEPT ![d] = @ \ {p}]
    /\ answers' = [answers EXCEPT ![d] = @ \cup
           {CreateAcknowledgementPacket(MeshIdentity(d), p, packetId, "received", clock[d])}]
    /\ UNCHANGED <<clock, composed, outbox, accepted, filter, shown>>

\* sendAcknowledgement: the message has expired meanwhile, and nothing is sent.
FailAcknowledgement(d, p) ==
    /\ p \in owed[d] /\ ~CanAcknowledge(MeshIdentity(d), p, clock[d])
    /\ owed' = [owed EXCEPT ![d] = @ \ {p}]
    /\ UNCHANGED <<clock, used, composed, outbox, accepted, filter, shown, answers>>

\* handleAcknowledgement: the record of the message, to the acknowledgement's sender, whose
\* packet it answers.
Acknowledged(d, p) ==
    {r \in outbox[d] : /\ r.message.envelope.messageId = p.messageId
                       /\ r.message.envelope.recipientId = p.senderId
                       /\ r.message.packetId = p.ackForPacketId}

Answered(record, p) ==
    [message |-> record.message, state |-> IF p.ackKind = "read" THEN "read" ELSE "delivered"]

ReceiveAcknowledgement(d, p) ==
    /\ Arrives(p) /\ Remember(d, p.packetId)
    /\ VerifyAcknowledgementPacket(p, MeshIdentity(d).peerId, clock[d])
    /\ outbox' = [outbox EXCEPT ![d] = (@ \ Acknowledged(d, p)) \cup
                      {Answered(r, p) : r \in Acknowledged(d, p)}]
    /\ UNCHANGED <<clock, used, composed, shown, owed, answers>>

\* receive: a packet for others is relayed or let go, one for this device that cannot be
\* read or verified is reported; the filter has taken its id all the same.
ReceiveOther(d, p) ==
    /\ Arrives(p) /\ Remember(d, p.packetId)
    /\ ~CanDecryptPacket(MeshIdentity(d), p, clock[d])
    /\ ~VerifyAcknowledgementPacket(p, MeshIdentity(d).peerId, clock[d])
    /\ UNCHANGED <<clock, used, composed, outbox, shown, owed, answers>>

-----------------------------------------------------------------------------
\* A call that read the list before another wrote it writes it back: records of the other
\* are gone, or queued again (DeviceRecords has the calls one by one).
OverwriteOutbox(d, kept, again) ==
    /\ kept \subseteq outbox[d] /\ again \subseteq outbox[d]
    /\ outbox' = [outbox EXCEPT ![d] =
           kept \cup {[message |-> r.message, state |-> "queued"] : r \in again}]
    /\ UNCHANGED <<clock, used, composed, accepted, filter, shown, owed, answers>>

\* The process dies and starts again: the filter and what was under way are gone, the
\* outbox and the identity (loadMeshIdentity) are not.
Restart(d) ==
    /\ accepted' = [accepted EXCEPT ![d] = <<>>] /\ filter' = [filter EXCEPT ![d] = {}]
    /\ owed' = [owed EXCEPT ![d] = {}]
    /\ UNCHANGED <<clock, used, composed, outbox, shown, answers>>

Tick(d) ==
    /\ clock' = [clock EXCEPT ![d] = @ + 1]
    /\ UNCHANGED <<used, composed, outbox, accepted, filter, shown, owed, answers>>

Next ==
    \E d \in Device :
        \/ \E recipient, key \in Device, text \in Written, messageId, packetId \in Id :
               QueueMessage(d, recipient, key, text, messageId, packetId)
        \/ \E p \in Packet : \/ ReceiveDuplicate(d, p) \/ ReceiveMessage(d, p)
                             \/ ReceiveAcknowledgement(d, p) \/ ReceiveOther(d, p)
        \/ \E p \in owed[d] : \/ \E packetId \in Id : SendAcknowledgement(d, p, packetId)
                              \/ FailAcknowledgement(d, p)
        \/ \E kept, again \in SUBSET outbox[d] : OverwriteOutbox(d, kept, again)
        \/ Restart(d) \/ Tick(d)

Spec == Init /\ [][Next]_vars

-----------------------------------------------------------------------------
\* What the receiver of a message shows if it shows what was written.
Meant(c) ==
    [message |-> DecryptMeshMessage(c.envelope), alert |-> c.alert]

\* Every message a device shows was written by the device it names as its sender, for this
\* device and with this text, conversation and expiry; and the alert shown with it is the
\* one that was written (decryptMeshMessage, parseStructuredAlert).
ShownIsWritten ==
    \A d \in Device : \A s \in shown[d] :
        \E author \in Device : \E c \in composed[author] :
            /\ s = Meant(c)
            /\ s.message.senderId = DerivePeerId(author)
            /\ s.message.recipientId = DerivePeerId(d)

\* A message its author holds for delivered has been shown, as it was written, by the
\* device it is for (handleAcknowledgement).
DeliveredIsShown ==
    \A d \in Device : \A r \in outbox[d] :
        r.state # "queued" =>
            \E recipient \in Device :
                /\ r.message.envelope.recipientId = DerivePeerId(recipient)
                /\ Meant(r.message) \in shown[recipient]

\* One process takes in an id twice only after the retention has passed or after as many
\* other ids as the filter holds (DeduplicationCache.remember).
TakenAgainLate ==
    \A d \in Device : \A m, n \in DOMAIN accepted[d] :
        m < n /\ accepted[d][m].id = accepted[d][n].id =>
            \/ accepted[d][n].at - accepted[d][m].at > Retention
            \/ n - m > MaxEntries
=============================================================================
