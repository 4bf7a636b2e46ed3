------------------------ MODULE AlertExchangeProofs ------------------------
(***************************************************************************)
(* What is proved of MeshPackets and AlertExchange.                        *)
(*                                                                         *)
(* Of the packet rules: a relay changes nothing a reader reads, and what   *)
(* one device seals and signs the other reads and verifies until it        *)
(* expires.                                                                *)
(*                                                                         *)
(* Of the devices: a message shown was written for the device that shows   *)
(* it (ShownIsWritten), and one held for delivered has been shown          *)
(* (DeliveredIsShown).  Both follow from what the records of the devices   *)
(* say of each other (RecordsInv), because a packet that decrypts or       *)
(* verifies carries a signature, every signature was made by a device that *)
(* has the record, and the signed texts differ wherever the records do.    *)
(*                                                                         *)
(* Of the duplicate filter: an entry it no longer holds is too old or has  *)
(* as many after it as the filter holds (HeldOrOld), so an id is taken in  *)
(* twice only late (TakenAgainLate).                                       *)
(***************************************************************************)
EXTENDS AlertExchange, FiniteSetTheorems, TLAPS

-----------------------------------------------------------------------------
(***************************************************************************)
(* Conversions.                                                            *)
(***************************************************************************)

\* A text made of an object gives the object back to whoever looks for its fields.
LEMMA ParseStringify ==
    ASSUME NEW fields, NEW object, object = [f \in fields |-> object[f]]
    PROVE  Parse(Stringify(object), fields) = object
<1> DEFINE there == {f \in fields : object[f] # Undefined}
           json  == {<<f, object[f]>> : f \in there}
<1>1. Stringify(object).json = json
  BY DEF Stringify
<1>2. ASSUME NEW f \in fields
      PROVE  object[f] = IF \E entry \in json : entry[1] = f
                         THEN (CHOOSE entry \in json : entry[1] = f)[2] ELSE Undefined
  <2>1. CASE f \in there
    <3>1. <<f, object[f]>> \in json /\ <<f, object[f]>>[1] = f
      BY <2>1
    <3>2. PICK entry : entry = CHOOSE e \in json : e[1] = f
      OBVIOUS
    <3>3. entry \in json /\ entry[1] = f
      BY <3>1, <3>2
    <3>4. entry[2] = object[f]
      BY <3>3
    <3> QED
      BY <3>1, <3>2, <3>4
  <2>2. CASE f \notin there
    BY <2>2
  <2> QED
    BY <2>1, <2>2
<1> HIDE DEF json
<1> QED
  BY <1>1, <1>2 DEF Parse

\* Whoever reads the text of a valid alert has the alert (parseStructuredAlert after
\* serializeStructuredAlert).
LEMMA AlertIsReadBack ==
    ASSUME NEW alert, ValidAlert(alert)
    PROVE  ParseStructuredAlert(SerializeStructuredAlert(alert)) = alert
<1>1. alert = [f \in AlertField |-> alert[f]]
  BY DEF ValidAlert
<1>2. Parse(Stringify(alert), AlertField) = alert
  BY <1>1, ParseStringify
<1>3. DOMAIN Stringify(alert) = {"json"}
  BY DEF Stringify
<1> QED
  BY <1>2, <1>3 DEF ParseStructuredAlert, SerializeStructuredAlert

-----------------------------------------------------------------------------
(***************************************************************************)
(* Packets made, relayed and read.                                         *)
(***************************************************************************)

\* What a relay passes on is a packet again, and its receiver
\* reads and verifies in it what it would in the packet itself (relayPacket changes
\* nothing that is signed).
THEOREM RelayedReadsTheSame ==
    ASSUME NEW p, IsMeshPacket(p),
           NEW now, CanRelay(p, now), NEW relayPeerId
    PROVE  LET copy == RelayPacket(p, relayPeerId) IN
           /\ IsMeshPacket(copy)
           /\ CanEncode(p) => CanEncode(copy)
           /\ EnvelopeOf(copy) = EnvelopeOf(p)
           /\ \A identity, later :
                  CanDecryptPacket(identity, copy, later) <=> CanDecryptPacket(identity, p, later)
           /\ \A peerId, later :
                  VerifyAcknowledgementPacket(copy, peerId, later)
                      <=> VerifyAcknowledgementPacket(p, peerId, later)
<1> DEFINE copy == RelayPacket(p, relayPeerId)
<1>1. p = [f \in Field |-> p[f]]
  BY DEF IsMeshPacket
<1>2. /\ copy = [f \in Field |-> copy[f]]
      /\ \A f \in Field \ {"hopCount", "lastHopId"} : copy[f] = p[f]
      /\ copy.hopCount = p.hopCount + 1
  BY <1>1 DEF RelayPacket, Field
<1>3. p.hopCount \in Int /\ p.hopLimit \in Int /\ 0 <= p.hopCount /\ p.hopCount < p.hopLimit
  BY DEF IsMeshPacket, CanRelay
<1>4. copy.hopCount \in Int /\ 0 <= copy.hopCount /\ copy.hopCount <= copy.hopLimit
  BY <1>2, <1>3 DEF Field
<1>5. /\ copy.version = p.version /\ copy.type = p.type /\ copy.packetId = p.packetId
      /\ copy.messageId = p.messageId /\ copy.senderId = p.senderId
      /\ copy.recipientId = p.recipientId /\ copy.conversationId = p.conversationId
      /\ copy.cryptoVersion = p.cryptoVersion /\ copy.ciphertext = p.ciphertext
      /\ copy.senderSigningPublicKey = p.senderSigningPublicKey
      /\ copy.senderEncryptionPublicKey = p.senderEncryptionPublicKey
      /\ copy.createdAt = p.createdAt /\ copy.expiresAt = p.expiresAt
      /\ copy.hopLimit = p.hopLimit /\ copy.signature = p.signature
      /\ copy.ackForPacketId = p.ackForPacketId /\ copy.ackKind = p.ackKind
  BY <1>2 DEF Field
<1>6. /\ \A f \in MessageField : copy[f] = p[f]
      /\ \A f \in AckField : copy[f] = p[f]
      /\ copy["ackKind"] = p["ackKind"]
      /\ \A f \in {"createdAt", "expiresAt", "hopLimit"} : copy[f] = p[f]
      /\ copy["hopCount"] = copy.hopCount
  BY <1>2 DEF Field, MessageField, AckField
<1> HIDE DEF copy
<1>7. IsMeshPacket(copy)
  <2>1. \A f \in {"createdAt", "expiresAt", "hopLimit", "hopCount"} : copy[f] \in Int
    BY <1>4, <1>6 DEF IsMeshPacket
  <2> QED
    BY <1>2, <1>4, <1>5, <1>6, <2>1 DEF IsMeshPacket
<1>8. CanEncode(p) => CanEncode(copy)
  BY <1>4, <1>5 DEF CanEncode
<1>9. EnvelopeOf(copy) = EnvelopeOf(p)
  BY <1>5 DEF EnvelopeOf
<1>10. ASSUME NEW identity, NEW later
       PROVE  CanDecryptPacket(identity, copy, later) <=> CanDecryptPacket(identity, p, later)
  BY <1>5, <1>6, <1>9 DEF CanDecryptPacket
<1>11. AcknowledgementText(copy) = AcknowledgementText(p)
  BY <1>5 DEF AcknowledgementText
<1>12. ASSUME NEW peerId, NEW later
       PROVE  VerifyAcknowledgementPacket(copy, peerId, later)
                  <=> VerifyAcknowledgementPacket(p, peerId, later)
  BY <1>5, <1>6, <1>11 DEF VerifyAcknowledgementPacket
<1> QED
  BY <1>7, <1>8, <1>9, <1>10, <1>12 DEF copy

\* A message sealed for a device's own key is, until it expires, a packet that device
\* decrypts to the text, sender and conversation that were written (encryptMeshMessage,
\* envelopeToMeshPacket, decryptMeshPacket).
THEOREM WrittenIsRead ==
    ASSUME NEW d, NEW reader, NEW messageId, NEW conversationId, NEW packetId, NEW body,
           NEW created \in Nat, NEW expiry \in Nat, NEW now \in Nat, now < expiry,
           CanEncrypt(MeshIdentity(d), DerivePeerId(reader), reader, body, created, expiry),
           Present(messageId), Present(conversationId), packetId # Undefined,
           NEW e, e = EncryptMeshMessage(MeshIdentity(d), DerivePeerId(reader), reader, messageId,
                                         conversationId, body, created, expiry),
           Present(e.senderId), Present(e.senderSigningPublicKey),
           Present(e.senderEncryptionPublicKey), Present(e.ciphertext), Present(e.signature),
           Present(e.version), HopLimit \in Nat
    PROVE  LET p == EnvelopeToMeshPacket(e, packetId) IN
           /\ IsMeshPacket(p)
           /\ CanDecryptPacket(MeshIdentity(reader), p, now)
           /\ DecryptMeshMessage(EnvelopeOf(p)) =
                  [ messageId |-> messageId, conversationId |-> conversationId,
                    senderId |-> DerivePeerId(d), recipientId |-> DerivePeerId(reader),
                    body |-> body, createdAt |-> created, expiresAt |-> expiry ]
<1> DEFINE p == EnvelopeToMeshPacket(e, packetId)
<1>1. /\ e.version = 1 /\ e.messageId = messageId /\ e.conversationId = conversationId
      /\ e.senderId = DerivePeerId(d) /\ e.recipientId = DerivePeerId(reader)
      /\ e.createdAt = created /\ e.expiresAt = expiry /\ e.senderSigningPublicKey = d
      /\ e.senderEncryptionPublicKey = d /\ e.ciphertext = Seal(body, reader)
  BY DEF EncryptMeshMessage, MeshIdentity
<1>2. e.signature = Sign(d, MessageText(e))
  BY DEF EncryptMeshMessage, MeshIdentity, MessageText
<1>3. expiry > created /\ Present(DerivePeerId(reader))
  BY DEF CanEncrypt
<1>4. created + (expiry - created) = expiry
  OBVIOUS
<1>5. /\ p = [f \in Field |-> p[f]] /\ p.version = PROTOCOL_VERSION /\ p.type = "message"
      /\ p.packetId = packetId /\ p.messageId = messageId /\ p.senderId = DerivePeerId(d)
      /\ p.recipientId = DerivePeerId(reader) /\ p.conversationId = conversationId
      /\ p.cryptoVersion = 1 /\ p.senderSigningPublicKey = d /\ p.senderEncryptionPublicKey = d
      /\ p.createdAt = created /\ p.expiresAt = expiry /\ p.hopLimit = HopLimit
      /\ p.hopCount = 0 /\ p.ciphertext = e.ciphertext /\ p.signature = e.signature
  BY <1>1, <1>4 DEF EnvelopeToMeshPacket, CreateMessagePacket, Field
<1>6. /\ p["createdAt"] = created /\ p["expiresAt"] = expiry /\ p["hopLimit"] = HopLimit
      /\ p["hopCount"] = 0
  BY <1>1, <1>4 DEF EnvelopeToMeshPacket, CreateMessagePacket
<1>7. \A f \in MessageField : Present(p[f])
  <2>1. /\ p["messageId"] = messageId /\ p["recipientId"] = e.recipientId
        /\ p["conversationId"] = conversationId /\ p["cryptoVersion"] = e.version
        /\ p["ciphertext"] = e.ciphertext /\ p["signature"] = e.signature
        /\ p["senderSigningPublicKey"] = e.senderSigningPublicKey
        /\ p["senderEncryptionPublicKey"] = e.senderEncryptionPublicKey
    BY <1>1 DEF EnvelopeToMeshPacket, CreateMessagePacket
  <2> HIDE DEF p
  <2> QED
    BY <1>1, <1>3, <2>1 DEF MessageField
<1> HIDE DEF p
<1>8. IsMeshPacket(p)
  <2>1. \A f \in MessageField : p[f] # Undefined
    BY <1>7 DEF Present
  <2>2. \A f \in {"createdAt", "expiresAt", "hopLimit", "hopCount"} : p[f] \in Int
    BY <1>6
  <2>3. p.senderId # Undefined /\ p.packetId # Undefined
    BY <1>1, <1>5 DEF Present
  <2> QED
    BY <1>5, <2>1, <2>2, <2>3 DEF IsMeshPacket, PacketKind
<1>9. EnvelopeOf(p) = e
  <2> DEFINE env == EnvelopeOf(p)
  <2>1. e = [ version |-> e.version, messageId |-> e.messageId,
              conversationId |-> e.conversationId, senderId |-> e.senderId,
              recipientId |-> e.recipientId, createdAt |-> e.createdAt,
              expiresAt |-> e.expiresAt, senderSigningPublicKey |-> e.senderSigningPublicKey,
              senderEncryptionPublicKey |-> e.senderEncryptionPublicKey,
              ciphertext |-> e.ciphertext, signature |-> e.signature ]
    BY DEF EncryptMeshMessage
  <2> QED
    BY <1>1, <1>5, <2>1 DEF EnvelopeOf
<1>10. SafeEnvelope(e, now)
  <2>1. /\ e["messageId"] = messageId /\ e["conversationId"] = conversationId
        /\ e["senderId"] = e.senderId /\ e["recipientId"] = e.recipientId
        /\ e["ciphertext"] = e.ciphertext /\ e["signature"] = e.signature
    BY <1>1
  <2>2. \A f \in {"messageId", "conversationId", "senderId", "recipientId", "ciphertext",
                  "signature"} : Present(e[f])
    BY <1>1, <1>3, <2>1
  <2> QED
    BY <1>1, <1>3, <2>2 DEF SafeEnvelope
<1>11. CanDecrypt(MeshIdentity(reader), e, now)
  BY <1>1, <1>2, <1>10 DEF CanDecrypt, MeshIdentity, Verify, Opens, Seal
<1>12. CanDecryptPacket(MeshIdentity(reader), p, now)
  BY <1>5, <1>7, <1>9, <1>11 DEF CanDecryptPacket
<1>13. DecryptMeshMessage(e) =
          [ messageId |-> messageId, conversationId |-> conversationId,
            senderId |-> DerivePeerId(d), recipientId |-> DerivePeerId(reader),
            body |-> body, createdAt |-> created, expiresAt |-> expiry ]
  BY <1>1 DEF DecryptMeshMessage, Seal
<1> QED
  BY <1>8, <1>9, <1>12, <1>13 DEF p

\* What an acknowledgement says, field by field.
LEMMA AnswerFields ==
    ASSUME NEW d, NEW original, NEW packetId, NEW kind, NEW now,
           NEW a, a = CreateAcknowledgementPacket(MeshIdentity(d), original, packetId, kind, now)
    PROVE  /\ a = [f \in Field |-> a[f]] /\ a.version = 1 /\ a.type = "ack" /\ a.packetId = packetId
           /\ a.messageId = original.messageId /\ a.senderId = DerivePeerId(d)
           /\ a.recipientId = original.senderId /\ a.conversationId = original.conversationId
           /\ a.senderSigningPublicKey = d /\ a.createdAt = now
           /\ a.expiresAt = AckExpiry(original, now) /\ a.hopLimit = HopLimit /\ a.hopCount = 0
           /\ a.ackForPacketId = original.packetId /\ a.ackKind = kind
           /\ a.signature = Sign(d, AcknowledgementText(a))
<1>1. /\ a = [f \in Field |-> a[f]] /\ a.version = 1 /\ a.type = "ack" /\ a.packetId = packetId
      /\ a.messageId = original.messageId /\ a.senderId = DerivePeerId(d)
      /\ a.recipientId = original.senderId /\ a.conversationId = original.conversationId
      /\ a.senderSigningPublicKey = d /\ a.createdAt = now
      /\ a.expiresAt = AckExpiry(original, now) /\ a.hopLimit = HopLimit /\ a.hopCount = 0
      /\ a.ackForPacketId = original.packetId /\ a.ackKind = kind
  BY DEF CreateAcknowledgementPacket, MeshIdentity, Field
<1>2. a.signature = Sign(d, AcknowledgementText(a))
  BY DEF CreateAcknowledgementPacket, MeshIdentity, AcknowledgementText
<1> QED
  BY <1>1, <1>2

\* The acknowledgement of a message is, until it expires, a packet the message's author
\* verifies (createAcknowledgementPacket, verifyAcknowledgementPacket).
THEOREM AnswerIsVerified ==
    ASSUME NEW d, NEW original, IsMeshPacket(original), NEW packetId, packetId # Undefined,
           NEW kind \in {"received", "read"}, NEW now \in Nat,
           CanAcknowledge(MeshIdentity(d), original, now),
           NEW a, a = CreateAcknowledgementPacket(MeshIdentity(d), original, packetId, kind, now),
           Present(original.senderId), Present(original.packetId), Present(a.signature),
           Present(d), Present(DerivePeerId(d)), Present("received"), Present("read"),
           HopLimit \in Nat, AckTtl \in Nat,
           NEW later \in Nat, later < AckExpiry(original, now)
    PROVE  IsMeshPacket(a) /\ VerifyAcknowledgementPacket(a, original.senderId, later)
<1>1. /\ a = [f \in Field |-> a[f]] /\ a.version = 1 /\ a.type = "ack" /\ a.packetId = packetId
      /\ a.messageId = original.messageId /\ a.senderId = DerivePeerId(d)
      /\ a.recipientId = original.senderId /\ a.conversationId = original.conversationId
      /\ a.senderSigningPublicKey = d /\ a.createdAt = now
      /\ a.expiresAt = AckExpiry(original, now) /\ a.hopLimit = HopLimit /\ a.hopCount = 0
      /\ a.ackForPacketId = original.packetId /\ a.ackKind = kind
      /\ a.signature = Sign(d, AcknowledgementText(a))
  BY AnswerFields
<1>2. /\ Present(original["messageId"]) /\ Present(original["conversationId"])
      /\ AckExpiry(original, now) > now
  BY DEF CanAcknowledge
<1>3. original["expiresAt"] \in Int
  BY DEF IsMeshPacket
<1>4. AckExpiry(original, now) \in Int
  BY <1>3 DEF AckExpiry
<1>5. /\ a["messageId"] = original["messageId"] /\ a["recipientId"] = original["senderId"]
      /\ a["conversationId"] = original["conversationId"] /\ a["senderSigningPublicKey"] = d
      /\ a["signature"] = a.signature /\ a["ackForPacketId"] = original["packetId"]
      /\ a["ackKind"] = kind /\ a["createdAt"] = now /\ a["hopLimit"] = HopLimit
      /\ a["hopCount"] = 0 /\ a["expiresAt"] = AckExpiry(original, now)
  BY <1>1
<1>6. \A f \in AckField \cup {"ackKind"} : Present(a[f])
  BY <1>2, <1>5 DEF AckField
<1>7. IsMeshPacket(a)
  <2>1. \A f \in AckField : a[f] # Undefined
    BY <1>6 DEF Present
  <2>2. \A f \in {"createdAt", "expiresAt", "hopLimit", "hopCount"} : a[f] \in Int
    BY <1>4, <1>5
  <2>3. a.senderId # Undefined /\ a.packetId # Undefined
    BY <1>1 DEF Present
  <2> QED
    BY <1>1, <2>1, <2>2, <2>3 DEF IsMeshPacket, PacketKind, PROTOCOL_VERSION
<1>8. VerifyAcknowledgementPacket(a, original.senderId, later)
  BY <1>1, <1>2, <1>4, <1>6 DEF VerifyAcknowledgementPacket, Verify
<1> QED
  BY <1>7, <1>8

-----------------------------------------------------------------------------
(***************************************************************************)
(* What each device has written, shown and answered.                       *)
(***************************************************************************)

\* What is recorded of the devices agrees: every message written is signed by its author
\* and has an id of its own, and every answer is signed by a device that has shown the
\* message it answers.
WrittenBy(d, c) ==
    /\ c.envelope.senderId = DerivePeerId(d) /\ c.envelope.senderSigningPublicKey = d
    /\ c.envelope.signature = Sign(d, MessageText(c.envelope))
    /\ c.alert = ParseStructuredAlert(c.envelope.ciphertext.body)

AnsweredBy(d, a) ==
    /\ a.signature = Sign(d, AcknowledgementText(a))
    /\ \E s \in shown[d] :
           s.message.messageId = a.messageId /\ s.message.senderId = a.recipientId

OwnId == \A d, e \in Device : \A b \in composed[d], c \in composed[e] :
             /\ b.envelope.messageId \in used
             /\ b.envelope.messageId = c.envelope.messageId => b = c

RecordsInv ==
    /\ \A d \in Device : \A c \in composed[d] : WrittenBy(d, c)
    /\ OwnId
    /\ \A d \in Device : \A r \in outbox[d] : r.message \in composed[d]
    /\ \A d \in Device : \A a \in answers[d] : AnsweredBy(d, a)
    /\ \A d \in Device : \A p \in owed[d] : ShownOf(p) \in shown[d]

Shape ==
    /\ DOMAIN composed = Device /\ DOMAIN outbox = Device /\ DOMAIN shown = Device
    /\ DOMAIN owed = Device /\ DOMAIN answers = Device

\* A signed message is no signed acknowledgement.
LEMMA TextsApart ==
    ASSUME NEW e, NEW p PROVE MessageText(e) # AcknowledgementText(p)
BY DEF MessageText, AcknowledgementText

\* What the signature of a message covers is what its reader shows.
LEMMA SameMessage ==
    ASSUME NEW e, NEW f, MessageText(e) = MessageText(f)
    PROVE  DecryptMeshMessage(e) = DecryptMeshMessage(f) /\ e.ciphertext = f.ciphertext
BY DEF MessageText, DecryptMeshMessage

LEMMA SameAnswer ==
    ASSUME NEW p, NEW q, AcknowledgementText(p) = AcknowledgementText(q)
    PROVE  /\ p.packetId = q.packetId /\ p.messageId = q.messageId
           /\ p.senderId = q.senderId /\ p.recipientId = q.recipientId
           /\ p.ackForPacketId = q.ackForPacketId
BY DEF AcknowledgementText

LEMMA SameSignature ==
    ASSUME NEW k, NEW l, NEW s, NEW t, Sign(k, s) = Sign(l, t) PROVE k = l /\ s = t
<1>1. Sign(k, s).by = k /\ Sign(k, s).of = s /\ Sign(l, t).by = l /\ Sign(l, t).of = t
  BY DEF Sign
<1> QED
  BY <1>1

LEMMA SamePeer ==
    ASSUME NEW k, NEW l, DerivePeerId(k) = DerivePeerId(l) PROVE k = l
<1>1. DerivePeerId(k).hash = k /\ DerivePeerId(l).hash = l
  BY DEF DerivePeerId
<1> QED
  BY <1>1

\* Where a signature comes from.
LEMMA SignedBy ==
    ASSUME NEW s \in Signed
    PROVE  \E d \in Device : \/ \E c \in composed[d] : s = c.envelope.signature
                             \/ \E a \in answers[d] : s = a.signature
<1>1. PICK d \in Device :
          s \in {c.envelope.signature : c \in composed[d]} \cup {a.signature : a \in answers[d]}
  BY DEF Signed
<1> QED
  BY <1>1

\* A packet a device decrypts carries a message its named sender has written.
LEMMA DecryptedIsWritten ==
    ASSUME RecordsInv, NEW d \in Device, NEW p, Arrives(p), NEW now,
           CanDecryptPacket(MeshIdentity(d), p, now)
    PROVE  \E author \in Device : \E c \in composed[author] :
               /\ ShownOf(p) = Meant(c)
               /\ p.senderId = DerivePeerId(author) /\ p.recipientId = DerivePeerId(d)
<1> DEFINE e == EnvelopeOf(p)
           key == p.senderSigningPublicKey
<1>1. /\ e.senderSigningPublicKey = key /\ e.signature = p.signature
      /\ e.senderId = p.senderId /\ e.recipientId = p.recipientId /\ e.ciphertext = p.ciphertext
  BY DEF EnvelopeOf
<1>2. CanDecrypt(MeshIdentity(d), e, now)
  BY DEF CanDecryptPacket
<1> HIDE DEF e
<1>3. /\ p.signature = Sign(key, MessageText(e))
      /\ p.senderId = DerivePeerId(key) /\ p.recipientId = DerivePeerId(d)
  BY <1>1, <1>2 DEF CanDecrypt, Verify, MeshIdentity
<1>4. p.signature \in Signed
  BY <1>3 DEF Arrives, SignatureFits, Verify, e
<1>5. PICK author \in Device : \/ \E c \in composed[author] : p.signature = c.envelope.signature
                               \/ \E a \in answers[author] : p.signature = a.signature
  BY <1>4, SignedBy
<1>6. ASSUME NEW a \in answers[author], p.signature = a.signature PROVE FALSE
  <2>1. a.signature = Sign(author, AcknowledgementText(a))
    BY DEF RecordsInv, AnsweredBy
  <2>2. Sign(key, MessageText(e)) = Sign(author, AcknowledgementText(a))
    BY <1>3, <1>6, <2>1
  <2>3. MessageText(e) = AcknowledgementText(a)
    BY ONLY <2>2, SameSignature
  <2> QED
    BY <2>3, TextsApart
<1>7. PICK c \in composed[author] : p.signature = c.envelope.signature
  BY <1>5, <1>6
<1>8. WrittenBy(author, c)
  BY DEF RecordsInv
<1>9. key = author /\ MessageText(e) = MessageText(c.envelope)
  <2>1. Sign(key, MessageText(e)) = Sign(author, MessageText(c.envelope))
    BY <1>3, <1>7, <1>8 DEF WrittenBy
  <2> QED
    BY ONLY <2>1, SameSignature
<1>10. DecryptMeshMessage(e) = DecryptMeshMessage(c.envelope)
       /\ e.ciphertext = c.envelope.ciphertext
  BY <1>9, SameMessage
<1>11. ShownOf(p) = Meant(c)
  BY <1>1, <1>8, <1>10 DEF ShownOf, Meant, WrittenBy, e
<1> QED
  BY <1>3, <1>9, <1>11

\* A packet a device verifies as an acknowledgement was signed by its named sender, which
\* has shown the message it names, written by this device.
LEMMA VerifiedIsAnswered ==
    ASSUME RecordsInv, ShownIsWritten, NEW d \in Device, NEW p, Arrives(p), NEW now,
           VerifyAcknowledgementPacket(p, MeshIdentity(d).peerId, now)
    PROVE  \E k \in Device : \E c \in composed[d] :
               /\ p.senderId = DerivePeerId(k) /\ c.envelope.messageId = p.messageId
               /\ c.envelope.recipientId = DerivePeerId(k) /\ Meant(c) \in shown[k]
<1> DEFINE key == p.senderSigningPublicKey
<1>1. /\ p.signature = Sign(key, AcknowledgementText(p))
      /\ p.senderId = DerivePeerId(key) /\ p.recipientId = DerivePeerId(d)
  BY DEF VerifyAcknowledgementPacket, Verify, MeshIdentity
<1>2. p.signature \in Signed
  BY <1>1 DEF Arrives, SignatureFits, Verify
<1>3. PICK k \in Device : \/ \E c \in composed[k] : p.signature = c.envelope.signature
                          \/ \E a \in answers[k] : p.signature = a.signature
  BY <1>2, SignedBy
<1>4. ASSUME NEW c \in composed[k], p.signature = c.envelope.signature PROVE FALSE
  <2>1. c.envelope.signature = Sign(k, MessageText(c.envelope))
    BY DEF RecordsInv, WrittenBy
  <2>2. Sign(k, MessageText(c.envelope)) = Sign(key, AcknowledgementText(p))
    BY <1>1, <1>4, <2>1
  <2>3. MessageText(c.envelope) = AcknowledgementText(p)
    BY ONLY <2>2, SameSignature
  <2> QED
    BY <2>3, TextsApart
<1>5. PICK a \in answers[k] : p.signature = a.signature
  BY <1>3, <1>4
<1>6. a.signature = Sign(k, AcknowledgementText(a)) /\ AnsweredBy(k, a)
  BY DEF RecordsInv, AnsweredBy
<1>7. key = k /\ AcknowledgementText(p) = AcknowledgementText(a)
  <2>1. Sign(key, AcknowledgementText(p)) = Sign(k, AcknowledgementText(a))
    BY <1>1, <1>5, <1>6
  <2> QED
    BY ONLY <2>1, SameSignature
<1>8. a.messageId = p.messageId /\ a.recipientId = DerivePeerId(d)
  BY <1>1, <1>7, SameAnswer
<1>9. PICK s \in shown[k] : s.message.messageId = p.messageId
                            /\ s.message.senderId = DerivePeerId(d)
  BY <1>6, <1>8 DEF AnsweredBy
<1>10. PICK author \in Device : \E c \in composed[author] :
          /\ s = Meant(c) /\ s.message.senderId = DerivePeerId(author)
          /\ s.message.recipientId = DerivePeerId(k)
  BY DEF ShownIsWritten
<1>11. author = d
  BY <1>9, <1>10, SamePeer
<1>12. PICK c \in composed[d] : s = Meant(c) /\ s.message.recipientId = DerivePeerId(k)
  BY <1>10, <1>11
<1>13. c.envelope.messageId = s.message.messageId
       /\ c.envelope.recipientId = s.message.recipientId
  BY <1>12 DEF Meant, DecryptMeshMessage
<1> QED
  BY <1>1, <1>7, <1>9, <1>12, <1>13

-----------------------------------------------------------------------------
(***************************************************************************)
(* Shown is written, and delivered is shown.                               *)
(***************************************************************************)

ExchangeInv == Shape /\ RecordsInv /\ ShownIsWritten /\ DeliveredIsShown

LEMMA ExchangeInit ==
    ASSUME Init PROVE ExchangeInv
BY DEF Init, ExchangeInv, Shape, RecordsInv, OwnId, ShownIsWritten, DeliveredIsShown

\* Every text a message may carry has the alert it was made of to be read in it.
LEMMA WrittenIsParsed ==
    ASSUME NEW text \in Written PROVE text.alert = ParseStructuredAlert(text.body)
<1>1. CASE \E a \in Alert : ValidAlert(a)
                /\ text = [body |-> SerializeStructuredAlert(a), alert |-> a]
  BY <1>1, AlertIsReadBack
<1>2. CASE \E t \in Text \ Blank : text = [body |-> Plain(t), alert |-> NoAlert]
  <2>1. PICK t \in Text \ Blank : text = [body |-> Plain(t), alert |-> NoAlert]
    BY <1>2
  <2>2. "plain" \in DOMAIN Plain(t) /\ DOMAIN Plain(t) # {"json"}
    BY DEF Plain
  <2> QED
    BY <2>1, <2>2 DEF ParseStructuredAlert
<1> QED
  BY <1>1, <1>2 DEF Written

LEMMA QueueKeepsExchange ==
    ASSUME ExchangeInv, NEW d \in Device, NEW recipient \in Device, NEW key \in Device,
           NEW text \in Written, NEW messageId \in Id, NEW packetId \in Id,
           QueueMessage(d, recipient, key, text, messageId, packetId)
    PROVE  ExchangeInv'
<1> USE DEF ExchangeInv
<1>1. PICK e : e = EncryptMeshMessage(MeshIdentity(d), DerivePeerId(recipient), key, messageId,
                       <<"dm", DerivePeerId(recipient)>>, text.body, clock[d],
                       clock[d] + MessageTtl)
  OBVIOUS
<1>2. PICK c : c = [envelope |-> e, packetId |-> packetId, alert |-> text.alert]
  OBVIOUS
<1>3. /\ messageId \notin used /\ used' = used \cup {messageId, packetId}
      /\ composed' = [composed EXCEPT ![d] = @ \cup {c}]
      /\ outbox' = [outbox EXCEPT ![d] = @ \cup {[message |-> c, state |-> "queued"]}]
      /\ UNCHANGED <<shown, owed, answers>>
  BY <1>1, <1>2 DEF QueueMessage
<1>4. e.messageId = messageId /\ e.ciphertext.body = text.body
      /\ e.senderId = DerivePeerId(d) /\ e.senderSigningPublicKey = d
      /\ e.signature = Sign(d, MessageText(e))
  BY <1>1 DEF EncryptMeshMessage, MeshIdentity, MessageText, Seal
<1>5. c.envelope = e /\ c.alert = text.alert
  BY <1>2
<1>6. WrittenBy(d, c)
  BY <1>4, <1>5, WrittenIsParsed DEF WrittenBy
<1>7. Shape'
  BY <1>3 DEF Shape
<1>8. /\ composed'[d] = composed[d] \cup {c}
      /\ outbox'[d] = outbox[d] \cup {[message |-> c, state |-> "queued"]}
      /\ \A b \in Device \ {d} : composed'[b] = composed[b] /\ outbox'[b] = outbox[b]
  BY <1>3 DEF Shape
<1>9. \A b \in Device : composed[b] \subseteq composed'[b]
  BY <1>8
<1>10. RecordsInv'
  <2>1. ASSUME NEW b \in Device, NEW x \in composed'[b] PROVE WrittenBy(b, x)'
    BY <1>6, <1>8 DEF RecordsInv, WrittenBy
  <2>2. OwnId'
    <3> SUFFICES ASSUME NEW a \in Device, NEW b \in Device,
                        NEW x \in composed'[a], NEW y \in composed'[b]
                 PROVE  /\ x.envelope.messageId \in used'
                        /\ x.envelope.messageId = y.envelope.messageId => x = y
      BY DEF OwnId
    <3>1. x \in composed[a] \/ x = c
      BY <1>8
    <3>2. y \in composed[b] \/ y = c
      BY <1>8
    <3>3. x \in composed[a] => x.envelope.messageId \in used
      BY DEF RecordsInv, OwnId
    <3>4. y \in composed[b] => y.envelope.messageId \in used
      BY DEF RecordsInv, OwnId
    <3>5. c.envelope.messageId = messageId
      BY <1>4, <1>5
    <3>6. x \in composed[a] /\ y \in composed[b]
              => (x.envelope.messageId = y.envelope.messageId => x = y)
      BY DEF RecordsInv, OwnId
    <3> QED
      BY <1>3, <3>1, <3>2, <3>3, <3>4, <3>5, <3>6
  <2>3. ASSUME NEW b \in Device, NEW r \in outbox'[b] PROVE r.message \in composed'[b]
    BY <1>8 DEF RecordsInv
  <2>4. ASSUME NEW b \in Device, NEW a \in answers'[b] PROVE AnsweredBy(b, a)'
    BY <1>3 DEF RecordsInv, AnsweredBy
  <2>5. \A b \in Device : \A p \in owed'[b] : ShownOf(p) \in shown'[b]
    BY <1>3 DEF RecordsInv
  <2> QED
    BY <2>1, <2>2, <2>3, <2>4, <2>5 DEF RecordsInv
<1>11. ShownIsWritten'
  BY <1>3, <1>9 DEF ShownIsWritten
<1>12. DeliveredIsShown'
  BY <1>3, <1>8 DEF DeliveredIsShown
<1> QED
  BY <1>7, <1>10, <1>11, <1>12

LEMMA ReceiveKeepsExchange ==
    ASSUME ExchangeInv, NEW d \in Device, NEW p, ReceiveMessage(d, p)
    PROVE  ExchangeInv'
<1> USE DEF ExchangeInv
<1>1. /\ Arrives(p) /\ CanDecryptPacket(MeshIdentity(d), p, clock[d])
      /\ shown' = [shown EXCEPT ![d] = @ \cup {ShownOf(p)}]
      /\ owed' = [owed EXCEPT ![d] = @ \cup {p}]
      /\ UNCHANGED <<used, composed, outbox, answers>>
  BY DEF ReceiveMessage
<1>2. PICK author \in Device : \E c \in composed[author] :
          /\ ShownOf(p) = Meant(c)
          /\ p.senderId = DerivePeerId(author) /\ p.recipientId = DerivePeerId(d)
  BY <1>1, DecryptedIsWritten
<1>3. /\ shown'[d] = shown[d] \cup {ShownOf(p)} /\ owed'[d] = owed[d] \cup {p}
      /\ \A b \in Device \ {d} : shown'[b] = shown[b] /\ owed'[b] = owed[b]
  BY <1>1 DEF Shape
<1>4. \A b \in Device : shown[b] \subseteq shown'[b]
  BY <1>3
<1>5. Shape'
  BY <1>1 DEF Shape
<1>6. RecordsInv'
  <2>1. ASSUME NEW b \in Device, NEW a \in answers'[b] PROVE AnsweredBy(b, a)'
    <3>1. AnsweredBy(b, a)
      BY <1>1 DEF RecordsInv
    <3> QED
      BY <1>4, <3>1 DEF AnsweredBy
  <2>2. \A b \in Device : \A q \in owed'[b] : ShownOf(q) \in shown'[b]
    BY <1>3 DEF RecordsInv
  <2>3. /\ \A b \in Device : \A c \in composed'[b] : WrittenBy(b, c)'
        /\ OwnId'
        /\ \A b \in Device : \A r \in outbox'[b] : r.message \in composed'[b]
    BY <1>1 DEF RecordsInv, OwnId, WrittenBy
  <2> QED
    BY <2>1, <2>2, <2>3 DEF RecordsInv
<1>7. ShownIsWritten'
  <2>1. /\ ShownOf(p).message.senderId = p.senderId
        /\ ShownOf(p).message.recipientId = p.recipientId
    BY DEF ShownOf, DecryptMeshMessage, EnvelopeOf
  <2> QED
    BY <1>1, <1>2, <1>3, <2>1 DEF ShownIsWritten
<1>8. DeliveredIsShown'
  BY <1>1, <1>4 DEF DeliveredIsShown
<1> QED
  BY <1>5, <1>6, <1>7, <1>8

LEMMA AnswerKeepsExchange ==
    ASSUME ExchangeInv, NEW d \in Device, NEW p, NEW packetId,
           SendAcknowledgement(d, p, packetId)
    PROVE  ExchangeInv'
<1> USE DEF ExchangeInv
<1>1. PICK a : a = CreateAcknowledgementPacket(MeshIdentity(d), p, packetId, "received", clock[d])
  OBVIOUS
<1>2. /\ p \in owed[d] /\ used' = used \cup {packetId}
      /\ owed' = [owed EXCEPT ![d] = @ \ {p}]
      /\ answers' = [answers EXCEPT ![d] = @ \cup {a}]
      /\ UNCHANGED <<composed, outbox, shown>>
  BY <1>1 DEF SendAcknowledgement
<1>3. /\ answers'[d] = answers[d] \cup {a} /\ owed'[d] \subseteq owed[d]
      /\ \A b \in Device \ {d} : answers'[b] = answers[b] /\ owed'[b] = owed[b]
  BY <1>2 DEF Shape
<1>4. AnsweredBy(d, a)
  <2>1. /\ a.messageId = p.messageId /\ a.recipientId = p.senderId
        /\ a.signature = Sign(d, AcknowledgementText(a))
    BY <1>1, AnswerFields
  <2>2. ShownOf(p) \in shown[d]
    BY <1>2 DEF RecordsInv
  <2>3. /\ ShownOf(p).message.messageId = p.messageId
        /\ ShownOf(p).message.senderId = p.senderId
    BY DEF ShownOf, DecryptMeshMessage, EnvelopeOf
  <2> QED
    BY <2>1, <2>2, <2>3 DEF AnsweredBy
<1>5. Shape'
  BY <1>2 DEF Shape
<1>6. RecordsInv'
  <2>1. ASSUME NEW b \in Device, NEW x \in answers'[b] PROVE AnsweredBy(b, x)'
    <3>1. AnsweredBy(b, x)
      BY <1>3, <1>4 DEF RecordsInv
    <3> QED
      BY <1>2, <3>1 DEF AnsweredBy
  <2>2. \A b \in Device : \A q \in owed'[b] : ShownOf(q) \in shown'[b]
    BY <1>2, <1>3 DEF RecordsInv
  <2>3. /\ \A b \in Device : \A c \in composed'[b] : WrittenBy(b, c)'
        /\ OwnId'
        /\ \A b \in Device : \A r \in outbox'[b] : r.message \in composed'[b]
    BY <1>2 DEF RecordsInv, OwnId, WrittenBy
  <2> QED
    BY <2>1, <2>2, <2>3 DEF RecordsInv
<1>7. ShownIsWritten' /\ DeliveredIsShown'
  BY <1>2 DEF ShownIsWritten, DeliveredIsShown
<1> QED
  BY <1>5, <1>6, <1>7

\* A step that changes the outbox alone, by records whose message it held, keeps the
\* invariant if what it marks as delivered has been shown.
LEMMA OutboxKeepsExchange ==
    ASSUME ExchangeInv, NEW d \in Device, NEW list,
           outbox' = [outbox EXCEPT ![d] = list],
           \A r \in list : \E o \in outbox[d] : r.message = o.message,
           \A r \in list : r \in outbox[d] \/ r.state = "queued" \/
               \E k \in Device : r.message.envelope.recipientId = DerivePeerId(k)
                                 /\ Meant(r.message) \in shown[k],
           UNCHANGED <<used, composed, shown, owed, answers>>
    PROVE  ExchangeInv'
<1> USE DEF ExchangeInv
<1>1. outbox'[d] = list /\ \A b \in Device \ {d} : outbox'[b] = outbox[b]
  BY DEF Shape
<1>2. Shape'
  BY DEF Shape
<1>3. RecordsInv'
  <2>1. \A b \in Device : \A r \in outbox'[b] : r.message \in composed'[b]
    BY <1>1 DEF RecordsInv
  <2>2. /\ \A b \in Device : \A c \in composed'[b] : WrittenBy(b, c)'
        /\ OwnId'
        /\ \A b \in Device : \A a \in answers'[b] : AnsweredBy(b, a)'
        /\ \A b \in Device : \A p \in owed'[b] : ShownOf(p) \in shown'[b]
    BY DEF RecordsInv, OwnId, WrittenBy, AnsweredBy
  <2> QED
    BY <2>1, <2>2 DEF RecordsInv
<1>4. ShownIsWritten'
  BY DEF ShownIsWritten
<1>5. DeliveredIsShown'
  BY <1>1 DEF DeliveredIsShown
<1> QED
  BY <1>2, <1>3, <1>4, <1>5

LEMMA DeliveryKeepsExchange ==
    ASSUME ExchangeInv, NEW d \in Device, NEW p, ReceiveAcknowledgement(d, p)
    PROVE  ExchangeInv'
<1>1. PICK list : list = (outbox[d] \ Acknowledged(d, p)) \cup
                             {Answered(r, p) : r \in Acknowledged(d, p)}
  OBVIOUS
<1>2. /\ Arrives(p) /\ VerifyAcknowledgementPacket(p, MeshIdentity(d).peerId, clock[d])
      /\ outbox' = [outbox EXCEPT ![d] = list]
      /\ UNCHANGED <<used, composed, shown, owed, answers>>
  BY <1>1 DEF ReceiveAcknowledgement, ExchangeInv, Shape
<1>3. PICK k \in Device : \E c \in composed[d] :
          /\ p.senderId = DerivePeerId(k) /\ c.envelope.messageId = p.messageId
          /\ c.envelope.recipientId = DerivePeerId(k) /\ Meant(c) \in shown[k]
  BY <1>2, VerifiedIsAnswered DEF ExchangeInv
<1>4. ASSUME NEW r \in Acknowledged(d, p)
      PROVE  r.message.envelope.recipientId = DerivePeerId(k) /\ Meant(r.message) \in shown[k]
  <2>1. r \in outbox[d] /\ r.message.envelope.messageId = p.messageId
    BY DEF Acknowledged
  <2>2. r.message \in composed[d]
    BY <2>1 DEF ExchangeInv, RecordsInv
  <2>3. \A c \in composed[d] : c.envelope.messageId = p.messageId => c = r.message
    BY <2>1, <2>2 DEF ExchangeInv, RecordsInv, OwnId
  <2> QED
    BY <1>3, <2>3
<1>5. \A r \in Acknowledged(d, p) : r \in outbox[d] /\ Answered(r, p).message = r.message
  BY DEF Acknowledged, Answered
<1>6. \A r \in list : \E o \in outbox[d] : r.message = o.message
  BY <1>1, <1>5
<1>7. \A r \in list : r \in outbox[d] \/ r.state = "queued" \/
          \E b \in Device : r.message.envelope.recipientId = DerivePeerId(b)
                            /\ Meant(r.message) \in shown[b]
  BY <1>1, <1>4, <1>5
<1> QED
  BY <1>2, <1>6, <1>7, OutboxKeepsExchange

LEMMA OverwriteKeepsExchange ==
    ASSUME ExchangeInv, NEW d \in Device, NEW kept, NEW again, OverwriteOutbox(d, kept, again)
    PROVE  ExchangeInv'
<1>1. PICK list : list = kept \cup {[message |-> r.message, state |-> "queued"] : r \in again}
  OBVIOUS
<1>2. /\ outbox' = [outbox EXCEPT ![d] = list]
      /\ UNCHANGED <<used, composed, shown, owed, answers>>
      /\ kept \subseteq outbox[d] /\ again \subseteq outbox[d]
  BY <1>1 DEF OverwriteOutbox
<1>3. \A r \in list : \E o \in outbox[d] : r.message = o.message
  BY <1>1, <1>2
<1>4. \A r \in list : r \in outbox[d] \/ r.state = "queued"
  BY <1>1, <1>2
<1> QED
  BY <1>2, <1>3, <1>4, OutboxKeepsExchange

\* The other steps forget acknowledgements that are due, or nothing of this at all.
LEMMA QuietKeepsExchange ==
    ASSUME ExchangeInv, UNCHANGED <<used, composed, outbox, shown, answers>>,
           DOMAIN owed' = Device, \A d \in Device : owed'[d] \subseteq owed[d]
    PROVE  ExchangeInv'
<1> USE DEF ExchangeInv
<1>1. Shape' /\ ShownIsWritten' /\ DeliveredIsShown'
  BY DEF Shape, ShownIsWritten, DeliveredIsShown
<1>2. RecordsInv'
  <2>1. \A b \in Device : \A p \in owed'[b] : ShownOf(p) \in shown'[b]
    BY DEF RecordsInv
  <2>2. /\ \A b \in Device : \A c \in composed'[b] : WrittenBy(b, c)'
        /\ OwnId'
        /\ \A b \in Device : \A a \in answers'[b] : AnsweredBy(b, a)'
        /\ \A b \in Device : \A r \in outbox'[b] : r.message \in composed'[b]
    BY DEF RecordsInv, OwnId, WrittenBy, AnsweredBy
  <2> QED
    BY <2>1, <2>2 DEF RecordsInv
<1> QED
  BY <1>1, <1>2

LEMMA ExchangeStep ==
    ASSUME ExchangeInv, [Next]_vars PROVE ExchangeInv'
<1>1. CASE UNCHANGED vars
  <2>1. UNCHANGED <<used, composed, outbox, shown, answers>> /\ UNCHANGED owed
    BY <1>1 DEF vars
  <2> QED
    BY <2>1, QuietKeepsExchange DEF ExchangeInv, Shape
<1>2. ASSUME NEW d \in Device, NEW p,
             ReceiveDuplicate(d, p) \/ ReceiveOther(d, p) \/ Tick(d)
      PROVE  ExchangeInv'
  <2>1. UNCHANGED <<used, composed, outbox, shown, answers>> /\ UNCHANGED owed
    BY <1>2 DEF ReceiveDuplicate, ReceiveOther, Tick
  <2> QED
    BY <2>1, QuietKeepsExchange DEF ExchangeInv, Shape
<1>3. ASSUME NEW d \in Device, NEW p, FailAcknowledgement(d, p) \/ Restart(d)
      PROVE  ExchangeInv'
  <2>1. UNCHANGED <<used, composed, outbox, shown, answers>>
    BY <1>3 DEF FailAcknowledgement, Restart
  <2>2. DOMAIN owed = Device
    BY DEF ExchangeInv, Shape
  <2>3. DOMAIN owed' = Device /\ \A b \in Device : owed'[b] \subseteq owed[b]
    BY <1>3, <2>2 DEF FailAcknowledgement, Restart
  <2> QED
    BY <2>1, <2>3, QuietKeepsExchange
<1>4. CASE Next
  <2>1. PICK d \in Device :
          \/ \E recipient, key \in Device, text \in Written, messageId, packetId \in Id :
                 QueueMessage(d, recipient, key, text, messageId, packetId)
          \/ \E p \in Packet : \/ ReceiveDuplicate(d, p) \/ ReceiveMessage(d, p)
                               \/ ReceiveAcknowledgement(d, p) \/ ReceiveOther(d, p)
          \/ \E p \in owed[d] : \/ \E packetId \in Id : SendAcknowledgement(d, p, packetId)
                                \/ FailAcknowledgement(d, p)
          \/ \E kept, again \in SUBSET outbox[d] : OverwriteOutbox(d, kept, again)
          \/ Restart(d) \/ Tick(d)
    BY <1>4 DEF Next
  <2> QED
    BY <1>2, <1>3, <2>1, QueueKeepsExchange, ReceiveKeepsExchange, AnswerKeepsExchange,
       DeliveryKeepsExchange, OverwriteKeepsExchange
<1> QED
  BY <1>1, <1>4

\* Every message a device shows is what the device it names as its sender wrote for it.
THEOREM ShownCorrect == Spec => []ShownIsWritten
<1>1. ExchangeInv => ShownIsWritten
  BY DEF ExchangeInv
<1> QED
  BY ExchangeInit, ExchangeStep, <1>1, PTL DEF Spec

\* A message held for delivered has been shown, as written, by the device it is for.
THEOREM DeliveredCorrect == Spec => []DeliveredIsShown
<1>1. ExchangeInv => DeliveredIsShown
  BY DEF ExchangeInv
<1> QED
  BY ExchangeInit, ExchangeStep, <1>1, PTL DEF Spec

-----------------------------------------------------------------------------
(***************************************************************************)
(* The duplicate filter.                                                   *)
(***************************************************************************)

PacketName == {p.packetId : p \in Packet}
EntryType == [id : PacketName, at : Nat]

\* An entry taken in is held until it is too old or as many were taken in after it as the
\* filter holds.
HeldOrOld ==
    \A d \in Device : \A n \in DOMAIN accepted[d] :
        \/ n \in filter[d]
        \/ clock[d] - accepted[d][n].at > Retention
        \/ Len(accepted[d]) - n >= MaxEntries

FilterInv ==
    /\ clock \in [Device -> Nat]
    /\ accepted \in [Device -> Seq(EntryType)]
    /\ filter \in [Device -> SUBSET Nat]
    /\ \A d \in Device : filter[d] \subseteq DOMAIN accepted[d]
    /\ HeldOrOld
    /\ TakenAgainLate

LEMMA EntryAt ==
    ASSUME NEW s \in Seq(EntryType)
    PROVE  /\ Len(s) \in Nat /\ DOMAIN s = 1..Len(s)
           /\ \A n \in DOMAIN s : s[n] \in EntryType /\ s[n].at \in Nat
<1>1. Len(s) \in Nat /\ DOMAIN s = 1..Len(s) /\ \A n \in DOMAIN s : s[n] \in EntryType
  OBVIOUS
<1> QED
  BY <1>1 DEF EntryType

LEMMA FilterInit ==
    ASSUME Init PROVE FilterInv
BY DEF Init, FilterInv, HeldOrOld, TakenAgainLate

\* What Newest leaves out has at least MaxEntries above it.
LEMMA LeftOut ==
    ASSUME NEW len \in Nat, NEW places \in SUBSET (1..len), NEW n \in places,
           n \notin Newest(places), MaxEntries \in Nat
    PROVE  len - n >= MaxEntries
<1> DEFINE above == {m \in places : m > n}
<1>1. ~(Cardinality(above) < MaxEntries)
  BY DEF Newest
<1>2. above \subseteq (n + 1)..len /\ n \in 1..len
  <2>1. n \in 1..len
    OBVIOUS
  <2>2. ASSUME NEW m \in above PROVE m \in (n + 1)..len
    <3>1. m \in 1..len /\ m > n
      OBVIOUS
    <3> QED
      BY <2>1, <3>1
  <2> QED
    BY <2>1, <2>2
<1>3. IsFiniteSet((n + 1)..len) /\ Cardinality((n + 1)..len) = len - n
  BY <1>2, FS_Interval
<1>4. Cardinality(above) <= len - n /\ Cardinality(above) \in Nat
  BY <1>2, <1>3, FS_Subset, FS_CardinalityType
<1> QED
  BY <1>1, <1>2, <1>4

LEMMA RememberKeepsFilter ==
    ASSUME MaxEntries \in Nat, Retention \in Nat, FilterInv,
           NEW d \in Device, NEW p \in Packet, Remember(d, p.packetId), UNCHANGED clock
    PROVE  FilterInv'
<1> DEFINE new == [id |-> p.packetId, at |-> clock[d]]
           len == Len(accepted[d])
           places == Kept(d) \cup {len + 1}
<1>1. /\ accepted' = [accepted EXCEPT ![d] = Append(@, new)]
      /\ filter' = [filter EXCEPT ![d] = Newest(places)] /\ ~Holds(d, p.packetId)
  BY DEF Remember
<1>2. new \in EntryType /\ new.id = p.packetId /\ new.at = clock[d]
  BY DEF PacketName, EntryType, FilterInv
<1>3. len \in Nat /\ DOMAIN accepted[d] = 1..len /\ clock[d] \in Nat
      /\ accepted[d] \in Seq(EntryType)
  <2>1. accepted[d] \in Seq(EntryType) /\ clock[d] \in Nat
    BY DEF FilterInv
  <2> QED
    BY <2>1, EntryAt
<1>4. \A n \in 1..len : accepted[d][n].at \in Nat /\ accepted[d][n] \in EntryType
  BY <1>3, EntryAt
<1>5. Kept(d) \subseteq filter[d] /\ filter[d] \subseteq 1..len
  BY <1>3 DEF Kept, FilterInv
<1>6. Kept(d) \subseteq places /\ len + 1 \in places
  OBVIOUS
<1> HIDE DEF new, len, places
<1>7. /\ accepted'[d] = Append(accepted[d], new) /\ filter'[d] = Newest(places)
      /\ Len(accepted'[d]) = len + 1 /\ DOMAIN accepted'[d] = 1..(len + 1)
      /\ \A n \in 1..len : accepted'[d][n] = accepted[d][n]
      /\ accepted'[d][len + 1] = new
  BY <1>1, <1>2, <1>3 DEF FilterInv, len
<1>8. \A b \in Device \ {d} : accepted'[b] = accepted[b] /\ filter'[b] = filter[b]
  BY <1>1 DEF FilterInv
<1>9. places \subseteq 1..(len + 1) /\ Newest(places) \subseteq places
  BY <1>3, <1>5 DEF Newest, places
<1>10. /\ clock' \in [Device -> Nat]
      /\ accepted' \in [Device -> Seq(EntryType)]
      /\ filter' \in [Device -> SUBSET Nat]
  <2>1. Append(accepted[d], new) \in Seq(EntryType)
    BY <1>2, <1>3
  <2>2. Newest(places) \in SUBSET Nat
    <3>1. 1..(len + 1) \subseteq Nat
      BY <1>3
    <3> QED
      BY <1>9, <3>1
  <2> QED
    BY <1>1, <2>1, <2>2 DEF FilterInv
<1>11. \A b \in Device : filter'[b] \subseteq DOMAIN accepted'[b]
  BY <1>7, <1>8, <1>9 DEF FilterInv
<1>12. ASSUME NEW n \in 1..len
       PROVE  \/ n \in Kept(d) \/ clock[d] - accepted[d][n].at > Retention
              \/ len - n >= MaxEntries
  <2>1. \/ n \in filter[d] \/ clock[d] - accepted[d][n].at > Retention
        \/ len - n >= MaxEntries
    BY <1>3 DEF FilterInv, HeldOrOld, len
  <2> QED
    BY <1>3, <1>4, <2>1 DEF Kept
<1>13. HeldOrOld'
  <2> SUFFICES ASSUME NEW b \in Device, NEW n \in DOMAIN accepted'[b]
               PROVE  \/ n \in filter'[b]
                      \/ clock'[b] - accepted'[b][n].at > Retention
                      \/ Len(accepted'[b]) - n >= MaxEntries
    BY DEF HeldOrOld
  <2>1. CASE b # d
    BY <1>8, <2>1 DEF FilterInv, HeldOrOld
  <2>2. CASE b = d
    <3>1. n \in 1..(len + 1) /\ Len(accepted'[b]) = len + 1
      BY <1>7, <2>2
    <3>2. ASSUME n \in places, n \notin Newest(places) PROVE len + 1 - n >= MaxEntries
      <4>1. len + 1 \in Nat /\ places \in SUBSET (1..(len + 1))
        BY <1>3, <1>9
      <4>2. PICK last \in Nat : last = len + 1
        BY <4>1
      <4>3. places \in SUBSET (1..last) /\ MaxEntries \in Nat
        BY <4>1, <4>2
      <4>4. last - n >= MaxEntries
        BY ONLY <3>2, <4>3, LeftOut
      <4> QED
        BY <1>3, <3>1, <4>2, <4>4
    <3>3. SUFFICES n \in Newest(places) \/ clock[d] - accepted'[d][n].at > Retention
                       \/ len + 1 - n >= MaxEntries
      <4>1. clock' = clock
        OBVIOUS
      <4>2. /\ filter'[b] = Newest(places) /\ clock'[b] = clock[d]
            /\ accepted'[b] = accepted'[d]
        BY <1>7, <2>2, <4>1
      <4> QED
        BY <1>3, <3>1, <4>2
    <3>4. CASE n = len + 1
      BY <1>6, <3>2, <3>4
    <3>5. CASE n \in 1..len
      <4>1. CASE n \in Kept(d)
        BY <1>6, <3>2, <4>1
      <4>2. CASE clock[d] - accepted[d][n].at > Retention
        BY <1>7, <3>5, <4>2
      <4>3. CASE len - n >= MaxEntries
        BY <1>3, <3>5, <4>3
      <4> QED
        BY <1>12, <3>5, <4>1, <4>2, <4>3
    <3> QED
      BY <1>3, <3>1, <3>4, <3>5
  <2> QED
    BY <2>1, <2>2
<1>14. TakenAgainLate'
  <2> SUFFICES ASSUME NEW b \in Device, NEW m \in DOMAIN accepted'[b],
                      NEW n \in DOMAIN accepted'[b],
                      m < n, accepted'[b][m].id = accepted'[b][n].id
               PROVE  \/ accepted'[b][n].at - accepted'[b][m].at > Retention
                      \/ n - m > MaxEntries
    BY DEF TakenAgainLate
  <2>1. CASE b # d
    BY <1>8, <2>1 DEF FilterInv, TakenAgainLate
  <2>2. CASE b = d /\ n \in 1..len
    <3>1. m \in 1..len
      BY <1>3, <1>7, <2>2
    <3> QED
      BY <1>3, <1>7, <2>2, <3>1 DEF FilterInv, TakenAgainLate
  <2>3. CASE b = d /\ n = len + 1
    <3>1. m \in 1..len
      BY <1>3, <1>7, <2>3
    <3>2. accepted[d][m].id = p.packetId
      BY <1>2, <1>7, <2>3, <3>1
    <3>3. m \notin Kept(d)
      BY <1>1, <3>2 DEF Holds
    <3>4. clock[d] - accepted[d][m].at > Retention \/ len - m >= MaxEntries
      BY <1>12, <3>1, <3>3
    <3>5. accepted'[b][n].at = clock[d] /\ accepted'[b][m].at = accepted[d][m].at
      BY <1>2, <1>7, <2>3, <3>1
    <3>6. len - m >= MaxEntries => n - m > MaxEntries
      BY <1>3, <2>3, <3>1
    <3> QED
      BY <3>4, <3>5, <3>6
  <2>4. b = d => n \in 1..len \/ n = len + 1
    <3>1. b = d => n \in 1..(len + 1)
      BY <1>7
    <3> QED
      BY <1>3, <3>1
  <2> QED
    BY <2>1, <2>2, <2>3, <2>4
<1> QED
  BY <1>10, <1>11, <1>13, <1>14 DEF FilterInv

LEMMA FilterStep ==
    ASSUME MaxEntries \in Nat, Retention \in Nat, FilterInv, [Next]_vars PROVE FilterInv'
<1>1. ASSUME UNCHANGED <<clock, accepted, filter>> PROVE FilterInv'
  BY <1>1 DEF FilterInv, HeldOrOld, TakenAgainLate
<1>2. ASSUME NEW d \in Device, NEW p \in Packet, ReceiveDuplicate(d, p) PROVE FilterInv'
  <2>1. /\ filter' = [filter EXCEPT ![d] = Kept(d)] /\ UNCHANGED <<clock, accepted>>
    BY <1>2 DEF ReceiveDuplicate
  <2>2. /\ Kept(d) \subseteq filter[d] /\ filter'[d] = Kept(d)
        /\ \A b \in Device \ {d} : filter'[b] = filter[b]
    BY <2>1 DEF Kept, FilterInv
  <2>3. filter' \in [Device -> SUBSET Nat]
    BY <2>1, <2>2 DEF FilterInv
  <2>4. HeldOrOld'
    <3> SUFFICES ASSUME NEW b \in Device, NEW n \in DOMAIN accepted[b]
                 PROVE  \/ n \in filter'[b]
                        \/ clock[b] - accepted[b][n].at > Retention
                        \/ Len(accepted[b]) - n >= MaxEntries
      BY <2>1 DEF HeldOrOld
    <3>1. \/ n \in filter[b]
          \/ clock[b] - accepted[b][n].at > Retention
          \/ Len(accepted[b]) - n >= MaxEntries
      BY DEF FilterInv, HeldOrOld
    <3>2. accepted[b][n].at \in Nat /\ clock[b] \in Nat
      <4>1. accepted[b] \in Seq(EntryType) /\ clock[b] \in Nat
        BY DEF FilterInv
      <4> QED
        BY <4>1, EntryAt
    <3>3. n \in filter[b] => n \in filter'[b] \/ clock[b] - accepted[b][n].at > Retention
      BY <2>2, <3>2 DEF Kept
    <3> QED
      BY <3>1, <3>3
  <2>5. TakenAgainLate'
    BY <2>1 DEF FilterInv, TakenAgainLate
  <2> QED
    BY <2>1, <2>2, <2>3, <2>4, <2>5 DEF FilterInv
<1>3. ASSUME NEW d \in Device, NEW p \in Packet,
             \/ ReceiveMessage(d, p) \/ ReceiveAcknowledgement(d, p) \/ ReceiveOther(d, p)
      PROVE  FilterInv'
  <2>1. Remember(d, p.packetId) /\ UNCHANGED clock
    BY <1>3 DEF ReceiveMessage, ReceiveAcknowledgement, ReceiveOther
  <2> QED
    BY <2>1, RememberKeepsFilter
<1>4. ASSUME NEW d \in Device, Restart(d) PROVE FilterInv'
  <2>1. /\ accepted' = [accepted EXCEPT ![d] = <<>>] /\ filter' = [filter EXCEPT ![d] = {}]
        /\ UNCHANGED clock
    BY <1>4 DEF Restart
  <2>2. /\ accepted'[d] = <<>> /\ filter'[d] = {}
        /\ \A b \in Device \ {d} : accepted'[b] = accepted[b] /\ filter'[b] = filter[b]
    BY <2>1 DEF FilterInv
  <2>3. /\ accepted' \in [Device -> Seq(EntryType)]
        /\ filter' \in [Device -> SUBSET Nat]
    BY <2>1 DEF FilterInv
  <2>4. HeldOrOld' /\ TakenAgainLate'
    BY <2>1, <2>2 DEF FilterInv, HeldOrOld, TakenAgainLate
  <2> QED
    BY <2>1, <2>2, <2>3, <2>4 DEF FilterInv
<1>5. ASSUME NEW d \in Device, Tick(d) PROVE FilterInv'
  <2>1. clock' = [clock EXCEPT ![d] = @ + 1] /\ UNCHANGED <<accepted, filter>>
    BY <1>5 DEF Tick
  <2>2. clock' \in [Device -> Nat] /\ \A b \in Device : clock'[b] >= clock[b]
    BY <2>1 DEF FilterInv
  <2>3. HeldOrOld'
    <3> SUFFICES ASSUME NEW b \in Device, NEW n \in DOMAIN accepted[b]
                 PROVE  \/ n \in filter[b]
                        \/ clock'[b] - accepted[b][n].at > Retention
                        \/ Len(accepted[b]) - n >= MaxEntries
      BY <2>1 DEF HeldOrOld
    <3>1. accepted[b][n].at \in Nat /\ clock[b] \in Nat /\ clock'[b] \in Nat
      <4>1. accepted[b] \in Seq(EntryType) /\ clock[b] \in Nat /\ clock'[b] \in Nat
        BY <2>2 DEF FilterInv
      <4> QED
        BY <4>1, EntryAt
    <3> QED
      BY <2>2, <3>1 DEF FilterInv, HeldOrOld
  <2>4. TakenAgainLate'
    BY <2>1 DEF FilterInv, TakenAgainLate
  <2> QED
    BY <2>1, <2>2, <2>3, <2>4 DEF FilterInv
<1>6. ASSUME NEW d \in Device, NEW p, NEW packetId,
             SendAcknowledgement(d, p, packetId) \/ FailAcknowledgement(d, p)
      PROVE  FilterInv'
  BY <1>1, <1>6 DEF SendAcknowledgement, FailAcknowledgement
<1>7. ASSUME NEW d \in Device, NEW kept, NEW again, OverwriteOutbox(d, kept, again)
      PROVE  FilterInv'
  BY <1>1, <1>7 DEF OverwriteOutbox
<1>8. ASSUME NEW d \in Device, NEW recipient, NEW key, NEW text, NEW messageId, NEW packetId,
             QueueMessage(d, recipient, key, text, messageId, packetId)
      PROVE  FilterInv'
  BY <1>1, <1>8 DEF QueueMessage
<1>9. CASE UNCHANGED vars
  BY <1>1, <1>9 DEF vars
<1>10. CASE Next
  <2>1. PICK d \in Device :
          \/ \E recipient, key \in Device, text \in Written, messageId, packetId \in Id :
                 QueueMessage(d, recipient, key, text, messageId, packetId)
          \/ \E p \in Packet : \/ ReceiveDuplicate(d, p) \/ ReceiveMessage(d, p)
                               \/ ReceiveAcknowledgement(d, p) \/ ReceiveOther(d, p)
          \/ \E p \in owed[d] : \/ \E packetId \in Id : SendAcknowledgement(d, p, packetId)
                                \/ FailAcknowledgement(d, p)
          \/ \E kept, again \in SUBSET outbox[d] : OverwriteOutbox(d, kept, again)
          \/ Restart(d) \/ Tick(d)
    BY <1>10 DEF Next
  <2> QED
    BY <1>2, <1>3, <1>4, <1>5, <1>6, <1>7, <1>8, <2>1
<1> QED
  BY <1>9, <1>10

\* An id is taken in twice by one process only after the retention or after as many other
\* ids as the filter holds.
THEOREM FilterCorrect ==
    ASSUME MaxEntries \in Nat, Retention \in Nat
    PROVE  Spec => []TakenAgainLate
<1>1. FilterInv => TakenAgainLate
  BY DEF FilterInv
<1>2. FilterInv /\ [Next]_vars => FilterInv'
  BY FilterStep
<1> QED
  BY FilterInit, <1>1, <1>2, PTL DEF Spec
=============================================================================
