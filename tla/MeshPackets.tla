---------------------------- MODULE MeshPackets ----------------------------
(***************************************************************************)
(* What a packet carries and how a device makes and reads it: the packet   *)
(* format of packages/protocol, the sealed and signed messages of          *)
(* packages/mesh-crypto and the structured alerts of packages/domain.      *)
(*                                                                         *)
(* A key pair is named by the device that generated it, and a key and its  *)
(* base64 text are one value.  A hash, a signature and a sealed box are    *)
(* terms: each is determined by what it was made from, and opens to that.  *)
(* A JSON text is the set of the name/value pairs it holds, which is what  *)
(* sorting its keys makes of it.                                           *)
(***************************************************************************)
EXTENDS Integers

CONSTANTS
    Device,        \* the devices, each with the identity it generated
    Id,            \* the ids createId makes, for messages, packets and alerts
    Text,          \* texts a person writes: a title, a village, a plain message
    Blank,         \* those that trim() leaves empty
    LongBody,      \* bodies whose packet is over MAX_PACKET_BYTES
    Undefined,     \* an absent field, or one of another JSON type
    Empty,         \* the empty string
    HopLimit,      \* DEFAULT_HOP_LIMIT, and the literal 3 of acknowledgements
    AckTtl         \* the default ttlMs of createAcknowledgementPacket

PROTOCOL_VERSION == 1

\* What JavaScript's ! tells apart: undefined and "" are not there.
Present(value) == value \notin {Undefined, Empty}

-----------------------------------------------------------------------------
\* libsodium, as mesh-crypto uses it: a signature names its key and its text, a sealed
\* box the key that opens it.
Sign(key, text) == [by |-> key, of |-> text]
Verify(signature, text, key) == signature = Sign(key, text)
Seal(body, key) == [sealedFor |-> key, body |-> body]
Opens(box, key) == box = Seal(box.body, key)

\* JSON.stringify drops the absent fields; JSON.parse finds each field by its name.
Stringify(object) ==
    [json |-> {<<f, object[f]>> : f \in {g \in DOMAIN object : object[g] # Undefined}}]

Parse(text, fields) ==
    [f \in fields |-> IF \E entry \in text.json : entry[1] = f
                      THEN (CHOOSE entry \in text.json : entry[1] = f)[2] ELSE Undefined]

\* A plain message, whose text is not JSON.
Plain(text) == [plain |-> text]

-----------------------------------------------------------------------------
\* StructuredAlert; the ward and the accuracy of a location are not looked at.
AlertKind == {"flood", "fire", "medical", "missing_person", "infrastructure", "sos"}
AlertPriority == {"critical", "high", "normal"}
AlertField == {"schemaVersion", "alertId", "kind", "priority", "title", "description",
               "village", "location", "createdAt", "expiresAt"}

\* validateStructuredAlert; a number that is not finite is Undefined.
ValidAlert(alert) ==
    /\ alert = [f \in AlertField |-> alert[f]]
    /\ alert.schemaVersion = 1
    /\ Present(alert.alertId) /\ alert.kind \in AlertKind /\ alert.priority \in AlertPriority
    /\ \A f \in {"title", "description", "village"} : alert[f] \in Text \ Blank
    /\ \A f \in {"createdAt", "expiresAt"} : alert[f] \in Int
    /\ alert.expiresAt > alert.createdAt
    /\ alert.location # Undefined =>
           \A f \in {"latitude", "longitude"} : alert.location[f] # Undefined

\* serializeStructuredAlert, which throws, as createStructuredAlert does, unless the alert
\* is valid.
SerializeStructuredAlert(alert) == Stringify(alert)

NoAlert == Undefined

\* parseStructuredAlert: a text that is not JSON, or not of a valid alert, gives none.
ParseStructuredAlert(body) ==
    IF DOMAIN body = {"json"} /\ ValidAlert(Parse(body, AlertField))
    THEN Parse(body, AlertField) ELSE NoAlert

-----------------------------------------------------------------------------
\* derivePeerId and generateMeshIdentity: the peer id is the hash of the signing key.
DerivePeerId(signingPublicKey) == [hash |-> signingPublicKey]

MeshIdentity(d) == [peerId |-> DerivePeerId(d), signingKey |-> d, encryptionKey |-> d]

\* canonicalMetadata, joined with the sealed bytes that are signed after it.
MessageText(e) ==
    <<"sanketly/mesh-message/v1", e.version, e.messageId, e.conversationId, e.senderId,
      e.recipientId, e.createdAt, e.expiresAt, e.senderSigningPublicKey,
      e.senderEncryptionPublicKey, e.ciphertext>>

\* canonicalAcknowledgementMetadata.
AcknowledgementText(p) ==
    <<"sanketly/mesh-acknowledgement/v1", 1, p.packetId, p.messageId, p.conversationId,
      p.senderId, p.recipientId, p.ackForPacketId, p.ackKind, p.createdAt, p.expiresAt,
      p.senderSigningPublicKey>>

\* encryptMeshMessage: what it demands, and the envelope it seals and signs.
CanEncrypt(identity, peerId, key, body, createdAt, expiresAt) ==
    /\ Present(body) /\ expiresAt > createdAt
    /\ identity.peerId = DerivePeerId(identity.signingKey)
    /\ Present(peerId) /\ Present(key)

EncryptMeshMessage(identity, peerId, key, messageId, conversationId, body, createdAt, expiresAt) ==
    LET metadata(signature) ==
            [ version |-> 1, messageId |-> messageId, conversationId |-> conversationId,
              senderId |-> identity.peerId, recipientId |-> peerId,
              createdAt |-> createdAt, expiresAt |-> expiresAt,
              senderSigningPublicKey |-> identity.signingKey,
              senderEncryptionPublicKey |-> identity.encryptionKey,
              ciphertext |-> Seal(body, key), signature |-> signature ]
    IN  metadata(Sign(identity.signingKey, MessageText(metadata(Undefined))))

-----------------------------------------------------------------------------
\* MeshPacket.
PacketKind == {"announce", "handshake", "message", "ack"}
Field == {"version", "type", "packetId", "messageId", "senderId", "recipientId",
          "conversationId", "cryptoVersion", "senderSigningPublicKey",
          "senderEncryptionPublicKey", "createdAt", "expiresAt", "hopLimit", "hopCount",
          "lastHopId", "ciphertext", "payload", "signature", "ackForPacketId", "ackKind"}

\* The fields a message and an acknowledgement must have.
MessageField == {"messageId", "recipientId", "conversationId", "cryptoVersion", "ciphertext",
                 "senderSigningPublicKey", "senderEncryptionPublicKey", "signature"}
AckField == {"messageId", "recipientId", "conversationId", "senderSigningPublicKey",
             "signature", "ackForPacketId"}

\* isMeshPacket.
IsMeshPacket(p) ==
    /\ p = [f \in Field |-> p[f]]
    /\ p.version = PROTOCOL_VERSION /\ p.type \in PacketKind
    /\ p.packetId # Undefined /\ p.senderId # Undefined
    /\ \A f \in {"createdAt", "expiresAt", "hopLimit", "hopCount"} : p[f] \in Int
    /\ 0 <= p.hopCount /\ p.hopCount <= p.hopLimit
    /\ p.type = "message" => \A f \in MessageField : p[f] # Undefined
    /\ p.type = "ack" =>
         /\ \A f \in AckField : p[f] # Undefined
         /\ p.ackKind \in {"received", "read"}

CanRelay(p, now) == p.expiresAt > now /\ p.hopCount < p.hopLimit

\* relayPacket: the copy a device passes on.
RelayPacket(p, relayPeerId) == [p EXCEPT !.hopCount = @ + 1, !.lastHopId = relayPeerId]

\* encodePacket: when the frame of a packet can be made; decodePacket takes one back to the
\* packet, or drops it if it is none (IsMeshPacket).
CanEncode(p) ==
    /\ p.version = PROTOCOL_VERSION /\ 0 <= p.hopCount /\ p.hopCount <= p.hopLimit
    /\ \A body \in LongBody, key \in Device : p.ciphertext # Seal(body, key)

-----------------------------------------------------------------------------
\* createMessagePacket.
CreateMessagePacket(packetId, e, now, ttl) ==
    [ version |-> PROTOCOL_VERSION, type |-> "message", packetId |-> packetId,
      messageId |-> e.messageId, senderId |-> e.senderId, recipientId |-> e.recipientId,
      conversationId |-> e.conversationId, cryptoVersion |-> e.version,
      senderSigningPublicKey |-> e.senderSigningPublicKey,
      senderEncryptionPublicKey |-> e.senderEncryptionPublicKey,
      createdAt |-> now, expiresAt |-> now + ttl, hopLimit |-> HopLimit, hopCount |-> 0,
      lastHopId |-> e.senderId, ciphertext |-> e.ciphertext, signature |-> e.signature,
      payload |-> Undefined, ackForPacketId |-> Undefined, ackKind |-> Undefined ]

EnvelopeToMeshPacket(e, packetId) ==
    CreateMessagePacket(packetId, e, e.createdAt, e.expiresAt - e.createdAt)

\* The envelope decryptMeshPacket takes out of a packet.
EnvelopeOf(p) ==
    [ version |-> p.cryptoVersion, messageId |-> p.messageId,
      conversationId |-> p.conversationId, senderId |-> p.senderId,
      recipientId |-> p.recipientId, createdAt |-> p.createdAt, expiresAt |-> p.expiresAt,
      senderSigningPublicKey |-> p.senderSigningPublicKey,
      senderEncryptionPublicKey |-> p.senderEncryptionPublicKey,
      ciphertext |-> p.ciphertext, signature |-> p.signature ]

\* assertSafeEnvelope.
SafeEnvelope(e, now) ==
    /\ e.version = 1
    /\ \A f \in {"messageId", "conversationId", "senderId", "recipientId", "ciphertext",
                 "signature"} : Present(e[f])
    /\ e.expiresAt > e.createdAt /\ e.expiresAt > now

\* decryptMeshMessage: when it returns, and the message it returns.
CanDecrypt(identity, e, now) ==
    /\ SafeEnvelope(e, now)
    /\ e.recipientId = identity.peerId
    /\ DerivePeerId(e.senderSigningPublicKey) = e.senderId
    /\ Verify(e.signature, MessageText(e), e.senderSigningPublicKey)
    /\ Opens(e.ciphertext, identity.encryptionKey)

DecryptMeshMessage(e) ==
    [ messageId |-> e.messageId, conversationId |-> e.conversationId,
      senderId |-> e.senderId, recipientId |-> e.recipientId, body |-> e.ciphertext.body,
      createdAt |-> e.createdAt, expiresAt |-> e.expiresAt ]

\* decryptMeshPacket.
CanDecryptPacket(identity, p, now) ==
    /\ p.type = "message"
    /\ \A f \in MessageField : Present(p[f])
    /\ CanDecrypt(identity, EnvelopeOf(p), now)

-----------------------------------------------------------------------------
\* createAcknowledgementPacket: what it demands, and the packet it signs.
AckExpiry(original, now) ==
    IF original.expiresAt < now + AckTtl THEN original.expiresAt ELSE now + AckTtl

CanAcknowledge(identity, original, now) ==
    /\ original.type = "message"
    /\ \A f \in {"messageId", "recipientId", "conversationId"} : Present(original[f])
    /\ original.recipientId = identity.peerId
    /\ AckExpiry(original, now) > now

CreateAcknowledgementPacket(identity, original, packetId, ackKind, now) ==
    LET packet(signature) ==
            [ version |-> 1, type |-> "ack", packetId |-> packetId,
              messageId |-> original.messageId, senderId |-> identity.peerId,
              recipientId |-> original.senderId, conversationId |-> original.conversationId,
              senderSigningPublicKey |-> identity.signingKey, createdAt |-> now,
              expiresAt |-> AckExpiry(original, now), hopLimit |-> HopLimit, hopCount |-> 0,
              lastHopId |-> identity.peerId, ackForPacketId |-> original.packetId,
              ackKind |-> ackKind, signature |-> signature, ciphertext |-> Undefined,
              payload |-> Undefined, cryptoVersion |-> Undefined,
              senderEncryptionPublicKey |-> Undefined ]
    IN  packet(Sign(identity.signingKey, AcknowledgementText(packet(Undefined))))

\* verifyAcknowledgementPacket: when it returns.
VerifyAcknowledgementPacket(p, expectedRecipientId, now) ==
    /\ p.type = "ack"
    /\ \A f \in AckField \cup {"ackKind"} : Present(p[f])
    /\ p.expiresAt > now /\ p.expiresAt > p.createdAt
    /\ p.recipientId = expectedRecipientId
    /\ DerivePeerId(p.senderSigningPublicKey) = p.senderId
    /\ Verify(p.signature, AcknowledgementText(p), p.senderSigningPublicKey)
=============================================================================
