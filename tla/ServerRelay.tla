---------------------------- MODULE ServerRelay ----------------------------
(***************************************************************************)
(* The relay server (server/src/socket.ts): authenticated sockets, the     *)
(* presence table activeSockets, the fan-out of a message to its           *)
(* recipients, and the mailbox of users who are offline, kept in Redis as  *)
(* one key per message and one list of keys per user.                      *)
(*                                                                         *)
(* One step is one turn of the server's event loop: an event of a socket   *)
(* or the continuation of an await.  All Redis commands go over one        *)
(* connection, which executes and answers them in the order they were      *)
(* issued, so a command takes effect in the turn that issues it and its    *)
(* continuation waits in replies.                                          *)
(***************************************************************************)
EXTENDS Naturals, Sequences, FiniteSets

CONSTANTS
    User, Socket, Message, Group,
    Owner,       \* the user whose session a socket presents; each socket connects once
    Sender,      \* the user who sends a message
    To,          \* its recipients, in the order of group.members
    GroupOf,     \* the group a message is for, or NoGroup
    NoSocket, NoGroup,
    Expiring,    \* messages whose expiresInSeconds runs out within the modelled time
    MaxRestart   \* bound: restarts of the server process

ASSUME RelayAssumption ==
    /\ Owner \in [Socket -> User] /\ Sender \in [Message -> User]
    /\ To \in [Message -> Seq(User)]
    /\ \A m \in Message : \A i, j \in 1..Len(To[m]) :
          To[m][i] # Sender[m] /\ (To[m][i] = To[m][j] => i = j)
    /\ GroupOf \in [Message -> Group \cup {NoGroup}]
    /\ \A m \in Message : GroupOf[m] = NoGroup => Len(To[m]) = 1
    /\ NoSocket \notin Socket /\ NoGroup \notin Group
    /\ Expiring \subseteq Message /\ MaxRestart \in Nat

VARIABLES
    sessions,   \* users with a session the server knows
    phase,      \* each socket: new, open, broken (the server has not noticed), closed
    active,     \* activeSockets
    groups,     \* groupStore
    replies,    \* continuations waiting for the answer of a Redis command
    store,      \* the keys msg:<user>:<message>
    list,       \* the lists queue:<user>
    wire,       \* packets on their way to the client of a socket
    got,        \* messages the client of a socket has received
    accepted,   \* history: messages in the order the server took them
    refused,    \* history: messages answered with message:error
    made,       \* history: groups created
    emitted,    \* history: deliveries handed to a socket
    expired,    \* history: deliveries whose key expired
    latest,     \* history: the socket of a user that connected last
    overlapped, \* history: users of whom two flushes ran at once
    restarts

relayVars   == <<sessions, phase, active, groups>>
redisVars   == <<store, list>>
clientVars  == <<wire, got>>
historyVars == <<accepted, refused, made, emitted, expired, latest, overlapped, restarts>>
vars == <<relayVars, replies, redisVars, clientVars, historyVars>>

Addressees(m) == {To[m][i] : i \in 1..Len(To[m])}
MailOf(u)     == {m \in Message : u \in Addressees(m)}
Delivery      == {d \in User \X Message : d[2] \in MailOf(d[1])}

SocketsOf(u)  == {s \in Socket : Owner[s] = u}

\* A flush waits for the keys, for a value or for a deletion; queueMessage for setex or rpush.
FlushReply ==
    {r \in [kind: {"keys", "value", "deleted"}, socket: Socket, keys: Seq(Message), found: BOOLEAN] :
        /\ r.keys \in Seq(MailOf(Owner[r.socket]))
        /\ r.kind = "value" => r.keys # <<>>}
QueueReply ==
    {r \in [kind: {"set", "pushed"}, user: User, message: Message, rest: Seq(User)] :
        r.user \in Addressees(r.message) /\ r.rest \in Seq(Addressees(r.message))}

\* Through presence, mailbox and flush, a user gets and is kept only mail addressed to them.
TypeOK ==
    /\ sessions \subseteq User
    /\ phase \in [Socket -> {"new", "open", "broken", "closed"}]
    /\ active \in [User -> Socket \cup {NoSocket}]
    /\ latest \in [User -> Socket \cup {NoSocket}]
    /\ \A u \in User : {active[u], latest[u]} \subseteq SocketsOf(u) \cup {NoSocket}
    /\ groups \subseteq Group /\ made \subseteq Group
    /\ replies \in Seq(FlushReply \cup QueueReply)
    /\ store \in [User -> SUBSET Message] /\ \A u \in User : store[u] \subseteq MailOf(u)
    /\ list \in [User -> Seq(Message)] /\ \A u \in User : list[u] \in Seq(MailOf(u))
    /\ wire \in [Socket -> Seq(Message)] /\ \A s \in Socket : wire[s] \in Seq(MailOf(Owner[s]))
    /\ got \in [Socket -> Seq(Message)] /\ \A s \in Socket : got[s] \in Seq(MailOf(Owner[s]))
    /\ accepted \in Seq(Message) /\ refused \subseteq Message
    /\ emitted \subseteq Delivery /\ expired \subseteq Delivery
    /\ overlapped \subseteq User
    /\ restarts \in Nat

Init ==
    /\ sessions = {} /\ groups = {} /\ made = {}
    /\ phase = [s \in Socket |-> "new"]
    /\ active = [u \in User |-> NoSocket]
    /\ replies = <<>>
    /\ store = [u \in User |-> {}]
    /\ list = [u \in User |-> <<>>]
    /\ wire = [s \in Socket |-> <<>>] /\ got = [s \in Socket |-> <<>>]
    /\ accepted = <<>> /\ refused = {}
    /\ emitted = {} /\ expired = {}
    /\ latest = [u \in User |-> NoSocket]
    /\ overlapped = {} /\ restarts = 0

-----------------------------------------------------------------------------
SeqSet(q) == {q[i] : i \in 1..Len(q)}

\* The server believes the socket connected.
Connected(s) == phase[s] \in {"open", "broken"}

FlushOf(u) == {r \in SeqSet(replies) : r.kind \in {"keys", "value", "deleted"} /\ Owner[r.socket] = u}

\* What a socket.emit puts on the wire: nothing once the connection is gone.
Emit(sockets, m) ==
    wire' = [s \in Socket |-> IF s \in sockets /\ phase[s] = "open" THEN Append(wire[s], m) ELSE wire[s]]

\* POST /auth/verify answers with a session id; POST /groups with a group id.
Login(u) ==
    /\ u \notin sessions
    /\ sessions' = sessions \cup {u}
    /\ UNCHANGED <<phase, active, groups, replies, redisVars, clientVars, historyVars>>

CreateGroup(g) ==
    /\ g \notin made
    /\ made' = made \cup {g} /\ groups' = groups \cup {g}
    /\ UNCHANGED <<sessions, phase, active, replies, redisVars, clientVars, accepted, refused,
                   emitted, expired, latest, overlapped, restarts>>

\* The middleware and the connection handler: presence, and the first command of the flush.
Connect(s) ==
    LET u == Owner[s]
    IN  /\ phase[s] = "new" /\ u \in sessions
        /\ phase' = [phase EXCEPT ![s] = "open"]
        /\ active' = [active EXCEPT ![u] = s]
        /\ latest' = [latest EXCEPT ![u] = s]
        /\ replies' = Append(replies, [kind |-> "keys", socket |-> s, keys |-> list[u], found |-> FALSE])
        /\ overlapped' = IF FlushOf(u) = {} THEN overlapped ELSE overlapped \cup {u}
        /\ UNCHANGED <<sessions, groups, redisVars, clientVars, accepted, refused, made,
                       emitted, expired, restarts>>

\* The client or its network goes away; what was under way to it is lost.
Break(s) ==
    /\ phase[s] = "open"
    /\ phase' = [phase EXCEPT ![s] = "broken"]
    /\ wire' = [wire EXCEPT ![s] = <<>>]
    /\ UNCHANGED <<sessions, active, groups, replies, redisVars, got, historyVars>>

\* Mutant: the presence entry is removed whichever socket it names.
Disconnect_AnySocket(s) ==
    /\ phase[s] = "broken"
    /\ phase' = [phase EXCEPT ![s] = "closed"]
    /\ active' = [active EXCEPT ![Owner[s]] = NoSocket]
    /\ UNCHANGED <<sessions, groups, replies, redisVars, clientVars, historyVars>>

Disconnect(s) ==
    /\ phase[s] = "broken"
    /\ phase' = [phase EXCEPT ![s] = "closed"]
    /\ active' = [active EXCEPT ![Owner[s]] = IF @ = s THEN NoSocket ELSE @]
    /\ UNCHANGED <<sessions, groups, replies, redisVars, clientVars, historyVars>>

Receive(s) ==
    /\ phase[s] = "open" /\ wire[s] # <<>>
    /\ got' = [got EXCEPT ![s] = Append(@, Head(wire[s]))]
    /\ wire' = [wire EXCEPT ![s] = Tail(@)]
    /\ UNCHANGED <<relayVars, replies, redisVars, historyVars>>

-----------------------------------------------------------------------------
\* The loop over the recipients up to its next await: those present get the message,
\* the first who is not gets the key msg:<user>:<message> by setex.
Present(u) == active[u] # NoSocket

LeadingPresent(rest) == {i \in 1..Len(rest) : \A j \in 1..i : Present(rest[j])}

\* Mutants: the first absent recipient ends the loop; the message is queued for its sender.
FanOut_StopsAtAbsent(m, rest, waiting) ==
    LET n       == Cardinality(LeadingPresent(rest))
        reached == {rest[i] : i \in 1..n}
    IN  /\ Emit({active[u] : u \in reached}, m)
        /\ emitted' = emitted \cup (reached \X {m})
        /\ IF n = Len(rest) THEN replies' = waiting /\ UNCHANGED store
           ELSE /\ store' = [store EXCEPT ![rest[n + 1]] = @ \cup {m}]
                /\ replies' = Append(waiting, [kind |-> "set", user |-> rest[n + 1],
                                               message |-> m, rest |-> <<>>])

FanOut_QueuesForSender(m, rest, waiting) ==
    LET n       == Cardinality(LeadingPresent(rest))
        reached == {rest[i] : i \in 1..n}
    IN  /\ Emit({active[u] : u \in reached}, m)
        /\ emitted' = emitted \cup (reached \X {m})
        /\ IF n = Len(rest) THEN replies' = waiting /\ UNCHANGED store
           ELSE /\ store' = [store EXCEPT ![Sender[m]] = @ \cup {m}]
                /\ replies' = Append(waiting, [kind |-> "set", user |-> Sender[m], message |-> m,
                                               rest |-> SubSeq(rest, n + 2, Len(rest))])

FanOut(m, rest, waiting) ==
    LET n       == Cardinality(LeadingPresent(rest))
        reached == {rest[i] : i \in 1..n}
    IN  /\ Emit({active[u] : u \in reached}, m)
        /\ emitted' = emitted \cup (reached \X {m})
        /\ IF n = Len(rest) THEN replies' = waiting /\ UNCHANGED store
           ELSE /\ store' = [store EXCEPT ![rest[n + 1]] = @ \cup {m}]
                /\ replies' = Append(waiting, [kind |-> "set", user |-> rest[n + 1], message |-> m,
                                               rest |-> SubSeq(rest, n + 2, Len(rest))])

\* message:send, for a user or for a group the sender knows the id of.
Send(m) ==
    /\ m \notin SeqSet(accepted) \cup refused
    /\ GroupOf[m] \in made \cup {NoGroup}
    /\ \E s \in Socket : Owner[s] = Sender[m] /\ Connected(s)
    /\ IF GroupOf[m] \in groups \cup {NoGroup}
       THEN /\ accepted' = Append(accepted, m)
            /\ FanOut(m, To[m], replies)
            /\ UNCHANGED refused
       ELSE /\ refused' = refused \cup {m}
            /\ UNCHANGED <<accepted, replies, store, wire, emitted>>
    /\ UNCHANGED <<relayVars, list, got, made, expired, latest, overlapped, restarts>>

-----------------------------------------------------------------------------
\* The continuations, each run when the answer to its command is next in line.
Answered(kind) == replies # <<>> /\ Head(replies).kind = kind

\* Mutant: a key is put in front of the list.
QueueSet_InFront ==
    LET r == Head(replies)
    IN  /\ Answered("set")
        /\ list' = [list EXCEPT ![r.user] = <<r.message>> \o @]
        /\ replies' = Append(Tail(replies), [r EXCEPT !.kind = "pushed"])
        /\ UNCHANGED <<relayVars, store, clientVars, historyVars>>

\* queueMessage: rpush follows setex, and the fan-out goes on after rpush.
QueueSet ==
    LET r == Head(replies)
    IN  /\ Answered("set")
        /\ list' = [list EXCEPT ![r.user] = Append(@, r.message)]
        /\ replies' = Append(Tail(replies), [r EXCEPT !.kind = "pushed"])
        /\ UNCHANGED <<relayVars, store, clientVars, historyVars>>

QueuePushed ==
    LET r == Head(replies)
    IN  /\ Answered("pushed")
        /\ FanOut(r.message, r.rest, Tail(replies))
        /\ UNCHANGED <<relayVars, list, got, accepted, refused, made, expired,
                       latest, overlapped, restarts>>

\* flushMessages: the head of its loop, get for the next key or del for the whole list.
NextKey(s, keys, waiting) ==
    LET u == Owner[s]
    IN  IF keys = <<>>
        THEN list' = [list EXCEPT ![u] = <<>>] /\ replies' = waiting
        ELSE /\ replies' = Append(waiting, [kind |-> "value", socket |-> s, keys |-> keys,
                                            found |-> Head(keys) \in store[u]])
             /\ UNCHANGED list

FlushKeys ==
    LET r == Head(replies)
    IN  /\ Answered("keys")
        /\ IF r.keys = <<>> THEN replies' = Tail(replies) /\ UNCHANGED list
           ELSE NextKey(r.socket, r.keys, Tail(replies))
        /\ UNCHANGED <<relayVars, store, clientVars, historyVars>>

\* Mutant: the key is left for its expiry.
FlushFound_KeepsKey ==
    LET r == Head(replies)
        u == Owner[r.socket]
    IN  /\ Answered("value") /\ r.found
        /\ Emit({r.socket}, Head(r.keys))
        /\ emitted' = emitted \cup {<<u, Head(r.keys)>>}
        /\ replies' = Append(Tail(replies), [kind |-> "deleted", socket |-> r.socket,
                                             keys |-> Tail(r.keys), found |-> FALSE])
        /\ UNCHANGED <<relayVars, store, list, got, accepted, refused, made, expired,
                       latest, overlapped, restarts>>

\* The value is there: it is emitted, and del is issued for its key.
FlushFound ==
    LET r == Head(replies)
        u == Owner[r.socket]
    IN  /\ Answered("value") /\ r.found
        /\ Emit({r.socket}, Head(r.keys))
        /\ emitted' = emitted \cup {<<u, Head(r.keys)>>}
        /\ store' = [store EXCEPT ![u] = @ \ {Head(r.keys)}]
        /\ replies' = Append(Tail(replies), [kind |-> "deleted", socket |-> r.socket,
                                             keys |-> Tail(r.keys), found |-> FALSE])
        /\ UNCHANGED <<relayVars, list, got, accepted, refused, made, expired,
                       latest, overlapped, restarts>>

\* Mutant: a key that is gone ends the flush.
FlushMissing_Returns ==
    LET r == Head(replies)
    IN  /\ Answered("value") /\ ~r.found
        /\ replies' = Tail(replies)
        /\ UNCHANGED <<relayVars, store, list, clientVars, historyVars>>

FlushMissing ==
    LET r == Head(replies)
    IN  /\ Answered("value") /\ ~r.found
        /\ NextKey(r.socket, Tail(r.keys), Tail(replies))
        /\ UNCHANGED <<relayVars, store, clientVars, historyVars>>

FlushDeleted ==
    LET r == Head(replies)
    IN  /\ Answered("deleted")
        /\ NextKey(r.socket, r.keys, Tail(replies))
        /\ UNCHANGED <<relayVars, store, clientVars, historyVars>>

Reply == QueueSet \/ QueuePushed \/ FlushKeys \/ FlushFound \/ FlushMissing \/ FlushDeleted

-----------------------------------------------------------------------------
\* Redis drops a key whose time to live is over; its place in the list stays.
Expire(u, m) ==
    /\ m \in store[u] \cap Expiring
    /\ store' = [store EXCEPT ![u] = @ \ {m}]
    /\ expired' = expired \cup {<<u, m>>}
    /\ UNCHANGED <<relayVars, replies, list, clientVars, accepted, refused, made, emitted,
                   latest, overlapped, restarts>>

\* Deliveries a fan-out has not come to yet.
Waiting == UNION {SeqSet(r.rest) \X {r.message} : r \in {x \in SeqSet(replies) : x.kind \in {"set", "pushed"}}}

\* The server process dies and starts anew: Redis keeps what it has, the maps are empty.
Restart ==
    /\ restarts < MaxRestart
    /\ restarts' = restarts + 1
    /\ sessions' = {} /\ groups' = {} /\ replies' = <<>>
    /\ active' = [u \in User |-> NoSocket] /\ latest' = [u \in User |-> NoSocket]
    /\ phase' = [s \in Socket |-> IF Connected(s) THEN "closed" ELSE phase[s]]
    /\ wire' = [s \in Socket |-> <<>>]
    /\ UNCHANGED <<redisVars, got, accepted, refused, made, emitted, expired, overlapped>>

Next ==
    \/ \E u \in User : Login(u)
    \/ \E g \in Group : CreateGroup(g)
    \/ \E s \in Socket : Connect(s) \/ Break(s) \/ Disconnect(s) \/ Receive(s)
    \/ \E m \in Message : Send(m)
    \/ Reply
    \/ \E u \in User, m \in Message : Expire(u, m)
    \/ Restart

Spec == Init /\ [][Next]_vars

\* Redis answers, and the event loop runs what it has answered; a connection that is up
\* carries its packets.  Users, networks and crashes promise nothing.
Fairness == WF_vars(Reply) /\ \A s \in Socket : WF_vars(Receive(s))

FairSpec == Spec /\ Fairness

-----------------------------------------------------------------------------
\* The presence table names the socket of a user that connected last as long as the
\* server believes it connected, whatever older or newer sockets of the user do
\* (the compare in the disconnect handler).
PresenceFollowsLatest ==
    \A u \in User :
        active[u] = IF latest[u] # NoSocket /\ Connected(latest[u]) THEN latest[u] ELSE NoSocket

\* Unless two flushes of a user ran at once, no message reaches the user twice, across
\* reconnections and a crash in the middle of a flush (the del after each emit).
Reached(s) == got[s] \o wire[s]

Places(u, m) ==
    UNION {{<<s, i>> : i \in {j \in 1..Len(Reached(s)) : Reached(s)[j] = m}} : s \in SocketsOf(u)}

OncePerUser ==
    \A u \in User \ overlapped : \A m \in Message : Cardinality(Places(u, m)) <= 1

\* The list of a user keeps the order in which the server took the messages of a sender
\* (queueMessage: "Keep order in list").
TakenBefore(m1, m2) ==
    \E i, j \in 1..Len(accepted) : i < j /\ accepted[i] = m1 /\ accepted[j] = m2

InOrder(q, messages) ==
    \A i, j \in 1..Len(q) :
        (i < j /\ {q[i], q[j]} \subseteq messages /\ Sender[q[i]] = Sender[q[j]])
            => TakenBefore(q[i], q[j])

DirectKeepsOrder ==
    \A u \in User : InOrder(list[u], {m \in Message : GroupOf[m] = NoGroup})

\* A stored message can still be found: it is in the user's list, in the hands of a
\* flush, or about to be pushed (flushMessages against queueMessage).
StoredIsListed ==
    \A u \in User : \A m \in store[u] :
        \/ m \in SeqSet(list[u])
        \/ \E r \in FlushOf(u) : m \in SeqSet(r.keys)
        \/ \E r \in SeqSet(replies) : r.kind = "set" /\ r.user = u /\ r.message = m

-----------------------------------------------------------------------------
\* The mailbox the server implements, delivery by delivery.  A value that a flush has
\* read is still to be emitted, whether or not its key has expired since.
InHand(d) ==
    \E r \in FlushOf(d[1]) : r.kind = "value" /\ r.found /\ Head(r.keys) = d[2]

Fate(d) ==
    IF d \in emitted THEN "emitted"
    ELSE IF d[2] \in store[d[1]] \/ InHand(d) THEN "stored"
    ELSE IF d \in expired THEN "expired"
    ELSE IF d \in Waiting THEN "taken"
    ELSE IF d[2] \in SeqSet(accepted) THEN "lost" ELSE "new"

Box == INSTANCE Mailbox WITH fate <- [d \in Delivery |-> Fate(d)]

ImplementsMailbox == Box!Spec

\* Every recipient of a message the server took gets it on a socket or in the mailbox,
\* unless the server crashes in between (the fan-out loop of message:send).
EveryRecipientIsServed ==
    \A d \in Delivery :
        (restarts = 0 /\ d[2] \in SeqSet(accepted))
            ~> (Fate(d) \in {"emitted", "stored", "expired"} \/ restarts > 0)

\* What a flush has read from the list of a user it hands over, unless it expires or the
\* server crashes: a key that is gone does not end the flush.
Promised(d, n) ==
    restarts = n /\ d[2] \in store[d[1]] /\ \E r \in FlushOf(d[1]) : d[2] \in SeqSet(r.keys)

FlushGoesThrough ==
    \A d \in Delivery, n \in 0..MaxRestart :
        Promised(d, n) ~> (d \in emitted \cup expired \/ restarts > n)
=============================================================================
