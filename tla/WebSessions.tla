---------------------------- MODULE WebSessions ----------------------------
(***************************************************************************)
(* End-to-end encrypted messages between web clients: sendMessage,         *)
(* sendGroupMessage and the message:receive handler, each taken apart at   *)
(* its awaits, over the sessions kept in IndexedDB.  Accounts, sockets and *)
(* prekeys are those of WebAccounts; a message the server accepted waits   *)
(* in order for a socket of its recipient (see ServerRelay).  A Proteus    *)
(* session is reduced to what decides whether a message can be read: its   *)
(* tag, the ratchet chain it sends on, the chain that one answers, and the *)
(* counters read on each chain.                                            *)
(***************************************************************************)
EXTENDS WebAccounts, SequencesExt

CONSTANT Op        \* operations under way: sends and message:receive handlers

VARIABLES
    store,             \* sessions in IndexedDB, by browser and peer
    op,
    group,             \* members of the group, {}: none
    mail,              \* messages that wait for a user at the server, as positions in sent
    sent,              \* every message emitted by a client
    read, unread, dropped, \* handled: shown; not decrypted; torn by the page
    spoiled,           \* history: sessions by browser and peer, see the properties
    chains             \* ratchet chains made

sessionVars == <<store, op, group, mail, sent, read, unread, dropped, spoiled, chains>>
vars == <<accountVars, sessionVars>>

Idle == [pc |-> "idle"]
SendPc == {"group", "load", "fetch", "init", "encrypt", "emit"}
Chain == 1 .. chains
NoSession == [tag |-> 0]

TypeOK ==
    /\ AccountsTypeOK
    /\ \A b \in Browser, p \in User : LET s == store[b][p] IN
           s # NoSession => /\ {s.tag, s.send} \subseteq Chain /\ s.answers \in Chain \cup {0}
                            /\ s.pre => (s.answers = 0 /\ s.recv = <<>>)
                            /\ DOMAIN s.recv \subseteq Chain
    /\ \A o \in Op : op[o].pc \in SendPc \cup {"idle", "open", "keep"}
    /\ group \subseteq User
    /\ \A u \in User : mail[u] \subseteq DOMAIN sent \ (read \cup unread \cup dropped)
    /\ \A i \in DOMAIN sent : sent[i].pre => sent[i].chain = sent[i].tag
    /\ {read, unread, dropped} \subseteq SUBSET DOMAIN sent
    /\ spoiled \subseteq Browser \X User

Init ==
    /\ AccountsInit
    /\ store = [b \in Browser |-> [p \in User |-> NoSession]]
    /\ op = [o \in Op |-> Idle]
    /\ group = {} /\ mail = [u \in User |-> {}] /\ sent = <<>>
    /\ read = {} /\ unread = {} /\ dropped = {} /\ spoiled = {} /\ chains = 0

-----------------------------------------------------------------------------
\* Proteus.  A session that nobody has answered sends prekey messages.
NewSession(owner) ==
    [tag |-> chains + 1, send |-> chains + 1, answers |-> 0, n |-> 0, pre |-> TRUE, owner |-> owner,
     recv |-> <<>>]

\* Encrypting uses the counter of the chain and steps it.
Stepped(s) == [s EXCEPT !.n = @ + 1]
Envelope(s, by, to) ==
    [by |-> by, from |-> None, to |-> to, tag |-> s.tag, pre |-> s.pre, owner |-> s.owner,
     chain |-> s.send, answers |-> s.answers, n |-> s.n]

\* A message can be read on a chain that is known, once; a new chain has to answer the one
\* this session sends on.
Readable(s, m) ==
    /\ m.tag = s.tag
    /\ IF m.chain \in DOMAIN s.recv THEN m.n \notin s.recv[m.chain] ELSE m.answers = s.send

\* Reading on a new chain begins a new chain to send on, which answers it.
Reading(s, m) ==
    IF m.chain \in DOMAIN s.recv
    THEN [s EXCEPT !.recv[m.chain] = @ \cup {m.n}]
    ELSE [s EXCEPT !.send = chains + 1, !.answers = m.chain, !.n = 0, !.pre = FALSE,
                   !.recv = [k \in DOMAIN @ \cup {m.chain} |-> IF k = m.chain THEN {m.n} ELSE @[k]]]

Received(m) ==
    [tag |-> m.tag, send |-> chains + 1, answers |-> m.chain, n |-> 0, pre |-> FALSE,
     owner |-> m.owner, recv |-> [k \in {m.chain} |-> {m.n}]]

-----------------------------------------------------------------------------
\* Operations of one browser on the session with one peer, between load and save.
OpAt(o, pc)   == op[o].pc = pc
Starts(o)     == OpAt(o, "idle") /\ o = CHOOSE x \in Op : OpAt(x, "idle")
To(o)         == Head(op[o].todo)
End(o)        == op' = [op EXCEPT ![o] = Idle]
Loaded(o, b, p) ==
    /\ op[o].pc \in {"fetch", "init", "encrypt", "keep"} /\ op[o].by = b
    /\ IF OpAt(o, "keep") THEN sent[op[o].msg].from = p ELSE To(o) = p

\* A send that overlaps another operation on the same session.
Tangled(b, p, sending) ==
    \E x \in Op : Loaded(x, b, p) /\ (sending \/ ~OpAt(x, "keep"))
Spoil(yes, b, p) == spoiled' = IF yes THEN spoiled \cup {<<b, p>>} ELSE spoiled

\* Both ends begin a session: the peer has begun one, and nothing of it was read here.
Crossing(u, p) ==
    /\ \/ \E n \in ident : n.user = p /\ store[n.by][u] # NoSession
       \/ \E x \in Op : op[x].pc \in {"init", "encrypt"} /\ op[x].user = p /\ To(x) = u
    /\ \A i \in read : ~(sent[i].from = p /\ sent[i].to = u)

-----------------------------------------------------------------------------
\* sendMessage and sendGroupMessage.  A call names its group, which can be forgotten.
SendMessage(o, b, p) ==
    /\ Starts(o) /\ Connected(b) /\ p # Of(socket[b]) /\ Spend("send")
    /\ op' = [op EXCEPT ![o] = [pc |-> "load", by |-> b, user |-> Of(socket[b]), via |-> "direct",
                                todo |-> <<p>>, out |-> <<>>, sess |-> NoSession]]
    /\ UNCHANGED <<store, group, mail, sent, read, unread, dropped, spoiled, chains>>

SendGroupMessage(o, b) ==
    /\ Starts(o) /\ Connected(b) /\ Spend("group")
    /\ op' = [op EXCEPT ![o] = [pc |-> "group", by |-> b, user |-> Of(socket[b]),
                                via |-> IF group = {} THEN "forgotten" ELSE "group",
                                todo |-> <<>>, out |-> <<>>, sess |-> NoSession]]
    /\ UNCHANGED <<store, group, mail, sent, read, unread, dropped, spoiled, chains>>

CreateGroup(b) ==
    /\ group = {} /\ localUsername[b] # None /\ budget["group"] > 0
    /\ group' \in {members \in SUBSET User : /\ IsFiniteSet(members) /\ Cardinality(members) > 1
                                             /\ localUsername[b] \in members}
    /\ UNCHANGED <<store, op, mail, sent, read, unread, dropped, spoiled, chains>>

\* The server forgets groups when it restarts; without the group the call fails.
GetGroup(o) ==
    /\ OpAt(o, "group")
    /\ IF op[o].via = "forgotten" THEN End(o)
       ELSE op' = [op EXCEPT ![o].pc = "load", ![o].todo = SetToSeq(group)]
    /\ UNCHANGED <<store, group, mail, sent, read, unread, dropped, spoiled, chains>>

\* The member that the module speaks for, as long as it speaks for one, gets no message.
Myself(o) == op[o].via # "direct" /\ To(o) = localUsername[op[o].by]
Onward(o) == IF Len(op[o].todo) = 1 THEN "emit" ELSE "load"

SkipMyself(o) ==
    /\ OpAt(o, "load") /\ Myself(o)
    /\ op' = [op EXCEPT ![o].pc = Onward(o), ![o].todo = Tail(@)]
    /\ UNCHANGED <<store, group, mail, sent, read, unread, dropped, spoiled, chains>>

\* Mutant: a session is made for every message.
Stored_Never(b, p) == NoSession
Stored(b, p) == store[b][p]

\* ensureSession: the stored session, which an identity has to deserialise, or a new one.
Load(o) ==
    /\ OpAt(o, "load") /\ ~Myself(o)
    /\ LET b == op[o].by
           s == Stored(b, To(o))
       IN  /\ IF s = NoSession THEN op' = [op EXCEPT ![o].pc = "fetch"]
              ELSE IF localIdentity[b] = None THEN End(o)
              ELSE op' = [op EXCEPT ![o].pc = "encrypt", ![o].sess = s]
           /\ Spoil(Tangled(b, To(o), TRUE), b, To(o))
    /\ UNCHANGED <<store, group, mail, sent, read, unread, dropped, chains>>

\* Mutant: a list that has run empty is not noticed.
Available_Uploaded(p) == bundle[p] # None
Available(p) == bundle[p] # None /\ bundle[p].left > 0

\* GET /prekeys/:username takes one prekey; none left, no identity or a lost answer fails
\* the call, and the prekey is gone.
FetchPrekey(o) ==
    LET p == To(o)
        Shift == /\ bundle' = [bundle EXCEPT ![p].left = @ - 1]
                 /\ takers' = [takers EXCEPT ![p] = @ \cup {op[o].by}]
        Waste == Shift /\ lacking' = lacking \cup {n \in ident : n.user = p}
    IN  /\ OpAt(o, "fetch")
        /\ \/ /\ Available(p) /\ localIdentity[op[o].by] # None
              /\ Shift
              /\ op' = [op EXCEPT ![o].pc = "init", ![o].sess = NewSession(bundle[p].by)]
              /\ chains' = chains + 1
              /\ Spoil(Crossing(op[o].user, p), op[o].by, p)
              /\ UNCHANGED <<budget, lacking>>
           \/ /\ ~Available(p) \/ localIdentity[op[o].by] = None
              /\ IF Available(p) THEN Waste ELSE UNCHANGED <<bundle, takers, lacking>>
              /\ End(o) /\ UNCHANGED <<chains, spoiled, budget>>
           \/ /\ (Available(p) /\ Waste) \/ UNCHANGED <<bundle, takers, lacking>>
              /\ Spend("fetch") /\ End(o) /\ UNCHANGED <<chains, spoiled>>
        /\ UNCHANGED <<store, group, mail, sent, read, unread, dropped>>

SaveNewSession(o) ==
    /\ OpAt(o, "init")
    /\ store' = [store EXCEPT ![op[o].by][To(o)] = op[o].sess]
    /\ op' = [op EXCEPT ![o].pc = "encrypt"]
    /\ UNCHANGED <<group, mail, sent, read, unread, dropped, spoiled, chains>>

\* Mutant: the session is saved as it was before it encrypted.
Saved_Before(s) == s
Saved(s) == Stepped(s)

\* encryptMessage saves the session before anything is sent.
Encrypt(o) ==
    /\ OpAt(o, "encrypt")
    /\ store' = [store EXCEPT ![op[o].by][To(o)] = Saved(op[o].sess)]
    /\ op' = [op EXCEPT ![o].pc = Onward(o), ![o].todo = Tail(@), ![o].sess = NoSession,
                        ![o].out = Append(@, Envelope(op[o].sess, op[o].by, To(o)))]
    /\ UNCHANGED <<group, mail, sent, read, unread, dropped, spoiled, chains>>

\* The server relays to the members of a group it knows, but for the sender.
Relayed(o, from, u) == op[o].via # "forgotten" /\ (op[o].via = "group" => u # from)

\* The server takes the sender from the socket and queues for each recipient.
Emit(o) ==
    /\ OpAt(o, "emit") /\ Connected(op[o].by)
    /\ LET from == Of(socket[op[o].by])
       IN  /\ sent' = sent \o [i \in DOMAIN op[o].out |-> [op[o].out[i] EXCEPT !.from = from]]
           /\ mail' = [u \in User |-> mail[u] \cup {i \in DOMAIN sent' : /\ i > Len(sent) /\ sent'[i].to = u
                                                                        /\ Relayed(o, from, u)}]
    /\ End(o)
    /\ UNCHANGED <<store, group, read, unread, dropped, spoiled, chains>>

\* Without a socket, or with one the server refused, the message is lost; one that is out
\* keeps it.
EmitLost(o) ==
    /\ OpAt(o, "emit")
    /\ IF socket[op[o].by] = None THEN TRUE ELSE sock[socket[op[o].by]] \in {"refused", "closed"}
    /\ End(o)
    /\ UNCHANGED <<store, group, mail, sent, read, unread, dropped, spoiled, chains>>

-----------------------------------------------------------------------------
\* message:receive.
Deliver(o, c) ==
    /\ Starts(o) /\ sock[c] = "open"
    /\ \E i \in mail[Of(c)] :
           /\ \A j \in mail[Of(c)] : i <= j
           /\ mail' = [mail EXCEPT ![Of(c)] = @ \ {i}]
           /\ op' = [op EXCEPT ![o] = [pc |-> "open", by |-> By(c), user |-> Of(c),
                                       msg |-> i, sess |-> NoSession]]
    /\ UNCHANGED <<store, group, sent, read, unread, dropped, spoiled, chains>>

\* A new session needs a prekey message for the identity this browser speaks for.
Speaks(b, u) == localUsername[b] = u /\ localIdentity[b] = u
Opens(b, m)  == m.pre /\ m.owner = b /\ Speaks(b, m.to)

ToKeep(o, s) == op' = [op EXCEPT ![o].pc = "keep", ![o].sess = s]

\* The session is loaded and the message decrypted; what fails is logged and forgotten.
OpenMessage(o) ==
    /\ OpAt(o, "open")
    /\ LET i == op[o].msg
           m == sent[i]
           b == op[o].by
           s == store[b][m.from]
       IN  /\ \/ /\ s = NoSession /\ Opens(b, m)
                 /\ ToKeep(o, Received(m)) /\ chains' = chains + 1
                 /\ UNCHANGED <<unread, dropped>>
              \/ /\ s # NoSession /\ localIdentity[b] # None /\ Readable(s, m)
                 /\ ToKeep(o, Reading(s, m))
                 /\ chains' = IF m.chain \in DOMAIN s.recv THEN chains ELSE chains + 1
                 /\ UNCHANGED <<unread, dropped>>
              \/ /\ IF s = NoSession THEN ~Opens(b, m) ELSE localIdentity[b] = None \/ ~Readable(s, m)
                 /\ End(o) /\ UNCHANGED chains
                 /\ IF Speaks(b, m.to) THEN unread' = unread \cup {i} /\ UNCHANGED dropped
                                       ELSE dropped' = dropped \cup {i} /\ UNCHANGED unread
           /\ Spoil(Tangled(b, m.from, FALSE), b, m.from)
    /\ UNCHANGED <<store, group, mail, sent, read>>

\* The session is saved, then the listeners are called.
KeepMessage(o) ==
    /\ OpAt(o, "keep")
    /\ store' = [store EXCEPT ![op[o].by][sent[op[o].msg].from] = op[o].sess]
    /\ read' = read \cup {op[o].msg}
    /\ End(o)
    /\ UNCHANGED <<group, mail, sent, unread, dropped, spoiled, chains>>

-----------------------------------------------------------------------------
\* Accounts and sockets go on; a page that is loaded again ends its operations, a server
\* that restarts forgets the group.
TornBy(b) == {o \in Op : op[o].pc # "idle" /\ op[o].by = b}

Account ==
    \/ /\ \/ \E c \in Call : \/ \E b \in Browser, u \in User : Connect(c, b, u)
                             \/ ConnectStep(c) \/ ConnectError(c) \/ Drop(c)
          \/ \E b \in Browser : Disconnect(b)
       /\ UNCHANGED sessionVars
    \/ /\ \E b \in Browser :
              /\ Reload(b, {n \in ident : \E o \in TornBy(b) : OpAt(o, "init") /\ n.user = To(o)})
              /\ op' = [o \in Op |-> IF o \in TornBy(b) THEN Idle ELSE op[o]]
              /\ dropped' = dropped \cup {op[o].msg : o \in {x \in TornBy(b) : op[x].pc \in {"open", "keep"}}}
       /\ UNCHANGED <<store, group, mail, sent, read, unread, spoiled, chains>>
    \/ /\ ServerRestart /\ group' = {}
       /\ op' = [o \in Op |-> IF op[o].pc \in SendPc /\ op[o].via = "group"
                             THEN [op[o] EXCEPT !.via = "forgotten"] ELSE op[o]]
       /\ UNCHANGED <<store, mail, sent, read, unread, dropped, spoiled, chains>>

accountsButBudget == <<serverVars, storeVars, tabVars, call, sock, historyVars, logins>>
accountsButServer == <<users, challenges, sessions, storeVars, tabVars, call, sock, disturbed, twofold, doubled, logins>>

UserSends ==
    \E o \in Op, b \in Browser : SendGroupMessage(o, b) \/ \E p \in User : SendMessage(o, b, p)

OpStep ==
    \E o \in Op : GetGroup(o) \/ SkipMyself(o) \/ Load(o) \/ SaveNewSession(o) \/ Encrypt(o) \/ Emit(o)
                 \/ EmitLost(o) \/ OpenMessage(o) \/ KeepMessage(o)

Message ==
    \/ UserSends /\ UNCHANGED accountsButBudget
    \/ (\E o \in Op : FetchPrekey(o)) /\ UNCHANGED accountsButServer
    \/ /\ OpStep \/ (\E b \in Browser : CreateGroup(b)) \/ (\E o \in Op, c \in Call : Deliver(o, c))
       /\ UNCHANGED accountVars

Next == Account \/ Message

Spec == Init /\ [][Next]_vars

\* The client's and the server's code goes on, and socket.io connects again.
FairSpec == Spec /\ WF_vars((\E c \in Call : ConnectStep(c)) /\ UNCHANGED sessionVars)

-----------------------------------------------------------------------------
\* One name per browser and one browser per name.
Plain(u) == \E b \in Browser : \A n \in ident : n.user = u <=> n.by = b

\* A user who is connected can be written to by MaxPrekeys browsers: the server has prekeys
\* of the user's identity, or they are on their way, and of those no browser has taken two,
\* whatever reloads, lost connections and later messages fall between.  Left out: a name two
\* browsers use, an upload that was lost or that the server forgot, a prekey that went to a
\* call which failed, and sends that overlapped (connectTransport, ensureSession).
PrekeysMatch ==
    \A c \in Call :
        (/\ sock[c] = "open" /\ NameOf(c) \notin lacking
         /\ \A n \in ident : n.user = Of(c) => n.by = By(c)
         /\ \A b \in Browser : <<b, Of(c)>> \notin spoiled)
        => \/ \E d \in Call : NameOf(d) = NameOf(c) /\ At(d, "upload")
           \/ /\ bundle[Of(c)] # None /\ bundle[Of(c)].by = By(c)
              /\ bundle[Of(c)].left + Cardinality(takers[Of(c)]) = MaxPrekeys

\* Every message that reaches its handler can be read, whoever of the two writes first and
\* however messages in both directions, reloads, lost connections and restarts fall, unless
\* both began a session at once, a send overlapped another operation on the session, or the
\* two share browsers with other names (ensureSession, message:receive).
EveryMessageRead ==
    \A i \in unread : LET m == sent[i] IN
        \/ ~Plain(m.from) \/ ~Plain(m.to)
        \/ <<m.by, m.to>> \in spoiled
        \/ \E n \in ident : n.user = m.to /\ <<n.by, m.from>> \in spoiled

\* No two messages are encrypted with the same key of the same chain, whatever is torn
\* between, unless sends of one session overlapped (encryptMessage saves before emitting).
FreshKeys ==
    \A i, j \in DOMAIN sent :
        (i # j /\ sent[i].chain = sent[j].chain /\ sent[i].n = sent[j].n)
            => <<sent[i].by, sent[i].to>> \in spoiled
=============================================================================
