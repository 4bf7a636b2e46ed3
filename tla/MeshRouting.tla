---------------------------- MODULE MeshRouting ----------------------------
(***************************************************************************)
(* The pure rules of packages/protocol/src/index.ts that the mesh engine   *)
(* applies to a packet: the packet itself, when it may still be relayed,   *)
(* what a relay changes in it, and which links a packet may leave by.      *)
(*                                                                         *)
(* Every device is a member of Node and a link is named by the device at   *)
(* its other end (a Nearby endpoint id names one remote device).  A peer   *)
(* table maps each link to what the application believes about it: NoPeer  *)
(* (no connected entry), Unverified (connected, no announcement processed) *)
(* or the peer id the last processed announcement bound to that link.      *)
(***************************************************************************)
EXTENDS Integers, FiniteSets

CONSTANTS
    Node,          \* the devices, each with its derived peer id
    Message,       \* message ids; each is sent in exactly one packet
    NoPeer,        \* "no connected entry for this link"
    Unverified,    \* a connected entry whose peerId is still the endpoint id
    HopLimit,      \* DEFAULT_HOP_LIMIT, and the literal 3 of acknowledgements
    AnnounceHopLimit,  \* hopLimit default of createAnnouncePacket
    MaxRelayAttempts,  \* MAX_RELAY_ATTEMPTS
    RetryBase          \* RELAY_RETRY_BASE_MS, in ticks of the model's clock

ASSUME RoutingAssumption ==
    /\ NoPeer \notin Node /\ Unverified \notin Node /\ NoPeer # Unverified
    /\ HopLimit \in Nat /\ AnnounceHopLimit \in Nat
    /\ MaxRelayAttempts \in Nat \ {0} /\ RetryBase \in Nat

PacketKind == {"message", "ack", "announce"}

\* A packet id is unique (createId): it is named by what the packet was created
\* for and by the how-manieth such packet it is.
PacketId == [kind: PacketKind, of: Message \cup Node, nr: Nat]

\* isMeshPacket: a message or an acknowledgement names the message it is about.
PacketFields ==
    [ type: PacketKind, id: PacketId,
      messageId: Message \cup {NoPeer},
      sender: Node, recipient: Node \cup {NoPeer},
      hopCount: Nat, hopLimit: Nat, expiresAt: Nat,
      lastHop: Node \cup {NoPeer} ]

Packet == {p \in PacketFields : p.type # "announce" => p.messageId \in Message}

PeerTable == [Node -> Node \cup {NoPeer, Unverified}]

-----------------------------------------------------------------------------
\* createMessagePacket, through envelopeToMeshPacket: the sender is its own last hop.
MessagePacket(m, from, to, expiry) ==
    [ type |-> "message", id |-> [kind |-> "message", of |-> m, nr |-> 0],
      messageId |-> m, sender |-> from, recipient |-> to,
      hopCount |-> 0, hopLimit |-> HopLimit, expiresAt |-> expiry, lastHop |-> from ]

\* Mutant: the acknowledgement goes to the relay that brought the message.
AckPacket_ToLastHop(p, nr, expiry) ==
    [ type |-> "ack", id |-> [kind |-> "ack", of |-> p.messageId, nr |-> nr],
      messageId |-> p.messageId, sender |-> p.recipient, recipient |-> p.lastHop,
      hopCount |-> 0, hopLimit |-> HopLimit, expiresAt |-> expiry, lastHop |-> p.recipient ]

\* createAcknowledgementPacket: answers the packet p, from its recipient to its sender.
AckPacket(p, nr, expiry) ==
    [ type |-> "ack", id |-> [kind |-> "ack", of |-> p.messageId, nr |-> nr],
      messageId |-> p.messageId, sender |-> p.recipient, recipient |-> p.sender,
      hopCount |-> 0, hopLimit |-> HopLimit, expiresAt |-> expiry, lastHop |-> p.recipient ]

\* createAnnouncePacket: no recipient and no last hop.
AnnouncePacket(n, nr, expiry) ==
    [ type |-> "announce", id |-> [kind |-> "announce", of |-> n, nr |-> nr],
      messageId |-> NoPeer, sender |-> n, recipient |-> NoPeer,
      hopCount |-> 0, hopLimit |-> AnnounceHopLimit, expiresAt |-> expiry, lastHop |-> NoPeer ]

CanRelay(p, now) == p.expiresAt > now /\ p.hopCount < p.hopLimit

ShouldRelay(p, local, now) ==
    p.sender # local /\ p.recipient # local /\ CanRelay(p, now)

\* Mutants: the relay leaves the last hop as it was; the relay counts down.
RelayPacket_KeepsLastHop(p, relay) == [p EXCEPT !.hopCount = @ + 1]
RelayPacket_CountsDown(p, relay) == [p EXCEPT !.hopCount = @ - 1, !.lastHop = relay]

\* relayPacket: the copy names the relay itself as its last hop.
RelayPacket(p, relay) == [p EXCEPT !.hopCount = @ + 1, !.lastHop = relay]

NextRelayAttemptAt(attempts, now) ==
    now + RetryBase * 2 ^ (IF attempts < MaxRelayAttempts THEN attempts ELSE MaxRelayAttempts)

-----------------------------------------------------------------------------
\* selectNextHop.  NoLink as the excluded link stands for an absent excludeLinkId.
NoLink == NoPeer

HasDirectDestination(p, table) ==
    /\ p.type \in {"message", "ack"}
    /\ \E l \in Node : table[l] = p.recipient

\* Mutant: the incoming link is not excluded.
Candidates_AnyLink(p, table, local, excluded) ==
    { l \in Node :
        /\ table[l] # NoPeer
        /\ p.type = "announce" \/ table[l] # Unverified
        /\ table[l] \notin {local, p.sender, p.lastHop} }

Candidates(p, table, local, excluded) ==
    { l \in Node :
        /\ table[l] # NoPeer
        /\ p.type = "announce" \/ table[l] # Unverified
        /\ l # excluded
        /\ table[l] \notin {local, p.sender, p.lastHop} }

\* The score gives a destination 1000 points, a verified entry 100 and its transport
\* and freshness together at most 60, so the classes below are ordered whatever the
\* transport and the freshness; within a class any candidate may come first.
NextHops(p, table, local, excluded, now) ==
    LET links    == Candidates(p, table, local, excluded)
        final    == { l \in links : table[l] = p.recipient }
        verified == { l \in links : table[l] # Unverified }
    IN  IF ~CanRelay(p, now) /\ ~HasDirectDestination(p, table) THEN {}
        ELSE IF final # {} THEN final
        ELSE IF verified # {} THEN verified ELSE links
=============================================================================
