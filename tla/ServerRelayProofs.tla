------------------------- MODULE ServerRelayProofs -------------------------
(* What ServerRelay promises for every set of users, sockets, messages and *)
(* groups, and for any number of restarts: its types and the addressing,   *)
(* the presence table, the mailbox it implements, the order of a list, and *)
(* that no user gets a message twice.                                      *)
EXTENDS ServerRelay, TLAPS, FiniteSetTheorems, SequenceTheorems

AnyReply == FlushReply \cup QueueReply

\* The store, the wire and the history of a typed state, in the next state.
ListOK    == list \in [User -> Seq(Message)] /\ \A u \in User : list[u] \in Seq(MailOf(u))
StoreOK   == store \in [User -> SUBSET Message] /\ \A u \in User : store[u] \subseteq MailOf(u)
WireOK    == wire \in [Socket -> Seq(Message)] /\ \A s \in Socket : wire[s] \in Seq(MailOf(Owner[s]))
GotOK     == got \in [Socket -> Seq(Message)] /\ \A s \in Socket : got[s] \in Seq(MailOf(Owner[s]))
SocketsOK ==
    /\ phase \in [Socket -> {"new", "open", "broken", "closed"}]
    /\ active \in [User -> Socket \cup {NoSocket}]
    /\ latest \in [User -> Socket \cup {NoSocket}]
    /\ \A u \in User : {active[u], latest[u]} \subseteq SocketsOf(u) \cup {NoSocket}
RestOK ==
    /\ sessions \subseteq User /\ groups \subseteq Group /\ made \subseteq Group
    /\ accepted \in Seq(Message) /\ refused \subseteq Message
    /\ expired \subseteq Delivery /\ overlapped \subseteq User /\ restarts \in Nat

TypeByParts == /\ ListOK /\ StoreOK /\ WireOK /\ GotOK /\ SocketsOK /\ RestOK
               /\ replies \in Seq(AnyReply) /\ emitted \subseteq Delivery

LEMMA TypeParts == (TypeOK <=> TypeByParts) /\ (TypeOK' <=> TypeByParts')
BY DEF TypeByParts, TypeOK, ListOK, StoreOK, WireOK, GotOK, SocketsOK, RestOK, AnyReply

\* A packet emitted to sockets of users it is addressed to.
LEMMA EmitType ==
    ASSUME WireOK, NEW m \in Message, NEW sockets, Emit(sockets, m),
           \A s \in sockets \cap Socket : m \in MailOf(Owner[s])
    PROVE  WireOK'
<1>1. wire' = [s \in Socket |-> IF s \in sockets /\ phase[s] = "open"
                                THEN Append(wire[s], m) ELSE wire[s]]
  BY DEF Emit
<1>2. \A s \in Socket : wire[s] \in Seq(Message) /\ wire[s] \in Seq(MailOf(Owner[s]))
  BY DEF WireOK
<1>3. wire' \in [Socket -> Seq(Message)]  BY <1>1, <1>2
<1>4. ASSUME NEW s \in Socket  PROVE  wire'[s] \in Seq(MailOf(Owner[s]))
  <2>1. CASE s \in sockets /\ phase[s] = "open"
    <3>1. wire'[s] = Append(wire[s], m) /\ m \in MailOf(Owner[s])  BY <1>1, <2>1
    <3> QED  BY <3>1, <1>2
  <2>2. CASE ~(s \in sockets /\ phase[s] = "open")  BY <1>1, <1>2, <2>2
  <2> QED  BY <2>1, <2>2
<1> QED  BY <1>3, <1>4 DEF WireOK

LEMMA LeadingType ==
    ASSUME NEW rest, Len(rest) \in Nat
    PROVE  Cardinality(LeadingPresent(rest)) \in 0..Len(rest)
<1>1. IsFiniteSet(1..Len(rest)) /\ Cardinality(1..Len(rest)) = Len(rest)
  <2>1. \A k \in Nat : IsFiniteSet(1..k) /\ Cardinality(1..k) = IF 1 > k THEN 0 ELSE k - 1 + 1
    BY FS_Interval
  <2> QED  BY <2>1
<1>2. LeadingPresent(rest) \subseteq 1..Len(rest)  BY DEF LeadingPresent
<1>3. Cardinality(LeadingPresent(rest)) <= Len(rest) /\ IsFiniteSet(LeadingPresent(rest))
  BY <1>1, <1>2, FS_Subset
<1> QED  BY <1>3, FS_CardinalityType

\* The loop over the recipients keeps what it touches well typed and rightly addressed.
LEMMA FanOutType ==
    ASSUME TypeOK, NEW m \in Message, NEW rest \in Seq(Addressees(m)),
           Addressees(m) \subseteq User,
           NEW waiting \in Seq(AnyReply), FanOut(m, rest, waiting)
    PROVE  WireOK' /\ StoreOK' /\ replies' \in Seq(AnyReply) /\ emitted' \subseteq Delivery
<1> DEFINE n       == Cardinality(LeadingPresent(rest))
           reached == {rest[i] : i \in 1..n}
           u       == rest[n + 1]
           next    == [kind |-> "set", user |-> u, message |-> m, rest |-> SubSeq(rest, n + 2, Len(rest))]
<1>1. n \in 0..Len(rest) /\ Len(rest) \in Nat  BY LeadingType
<1>f. /\ Emit({active[v] : v \in reached}, m)
      /\ emitted' = emitted \cup (reached \X {m})
      /\ \/ n = Len(rest) /\ replies' = waiting /\ UNCHANGED store
         \/ /\ n # Len(rest)
            /\ store' = [store EXCEPT ![u] = @ \cup {m}] /\ replies' = Append(waiting, next)
  BY DEF FanOut
<1> HIDE DEF n
<1>2. reached \subseteq Addressees(m)  BY <1>1
<1>3. \A v \in Addressees(m) : v \in User /\ m \in MailOf(v)  BY DEF MailOf
<1>4. WireOK'
  <2>1. ASSUME NEW s \in Socket, NEW v \in reached, s = active[v]  PROVE  m \in MailOf(Owner[s])
    <3>1. v \in Addressees(m)  BY <1>2
    <3>2. s \in SocketsOf(v)  BY <1>3, <2>1, <3>1, RelayAssumption DEF TypeOK
    <3> QED  BY <1>3, <3>1, <3>2 DEF SocketsOf
  <2> DEFINE sockets == {active[v] : v \in reached}
  <2>2. \A s \in sockets \cap Socket : m \in MailOf(Owner[s])  BY <2>1
  <2>3. Emit(sockets, m)  BY <1>f
  <2> HIDE DEF sockets
  <2> QED  BY <2>2, <2>3, EmitType, TypeParts DEF TypeByParts
<1>5. emitted' \subseteq Delivery
  BY <1>f, <1>2, <1>3 DEF TypeOK, Delivery
<1>6. CASE n = Len(rest)  BY <1>f, <1>4, <1>5, <1>6 DEF TypeOK, StoreOK
<1>7. CASE n # Len(rest)
  <2>1. u \in Addressees(m)  BY <1>1, <1>7
  <2>2. SubSeq(rest, n + 2, Len(rest)) \in Seq(Addressees(m))  BY <1>1, <1>7
  <2>3. SubSeq(rest, n + 2, Len(rest)) \in Seq(User)  BY <1>1, <1>7
  <2>4. next \in QueueReply
    BY <1>3, <2>1, <2>2, <2>3 DEF QueueReply
  <2>5. replies' \in Seq(AnyReply)
    <3>1. replies' = Append(waiting, next)  BY <1>f, <1>7
    <3>2. next \in AnyReply  BY <2>4 DEF AnyReply
    <3> HIDE DEF next
    <3> QED  BY <3>1, <3>2
  <2>6. StoreOK'
    <3>1. store' = [store EXCEPT ![u] = @ \cup {m}]  BY <1>f, <1>7
    <3> HIDE DEF u
    <3>2. u \in User /\ m \in MailOf(u)  BY <1>3, <2>1
    <3> QED  BY <3>1, <3>2 DEF StoreOK, TypeOK
  <2> QED  BY <1>4, <1>5, <2>5, <2>6
<1> QED  BY <1>6, <1>7

LEMMA NextKeyType ==
    ASSUME TypeOK, NEW s \in Socket, NEW keys \in Seq(MailOf(Owner[s])), keys \in Seq(Message),
           NEW waiting \in Seq(AnyReply), NextKey(s, keys, waiting)
    PROVE  ListOK' /\ replies' \in Seq(AnyReply)
<1>1. Owner[s] \in User  BY RelayAssumption
<1>2. CASE keys = <<>>
  <2>1. list' = [list EXCEPT ![Owner[s]] = <<>>] /\ replies' = waiting
    BY <1>2 DEF NextKey
  <2> QED  BY <1>1, <2>1 DEF ListOK, TypeOK
<1>3. CASE keys # <<>>
  <2> DEFINE r == [kind |-> "value", socket |-> s, keys |-> keys, found |-> Head(keys) \in store[Owner[s]]]
  <2>1. replies' = Append(waiting, r) /\ UNCHANGED list  BY <1>3 DEF NextKey
  <2>2. r \in FlushReply  BY <1>3 DEF FlushReply
  <2> QED  BY <2>1, <2>2 DEF AnyReply, ListOK, TypeOK
<1> QED  BY <1>2, <1>3

\* The continuation that runs is of its kind, and what waits behind it stays.
LEMMA HeadType ==
    ASSUME TypeOK, replies # <<>>
    PROVE  /\ Tail(replies) \in Seq(AnyReply)
           /\ Head(replies).kind \in {"set", "pushed"} => Head(replies) \in QueueReply
           /\ Head(replies).kind \in {"keys", "value", "deleted"} => Head(replies) \in FlushReply
<1>1. replies \in Seq(AnyReply)  BY DEF TypeOK, AnyReply
<1>2. Head(replies) \in AnyReply /\ Tail(replies) \in Seq(AnyReply)  BY <1>1
<1>3. \A r \in FlushReply : r.kind \in {"keys", "value", "deleted"}  BY DEF FlushReply
<1>4. \A r \in QueueReply : r.kind \in {"set", "pushed"}  BY DEF QueueReply
<1> QED  BY <1>2, <1>3, <1>4 DEF AnyReply

LEMMA AddresseesType == \A m \in Message : /\ Addressees(m) \subseteq User
                                           /\ To[m] \in Seq(Addressees(m))
<1> TAKE m \in Message
<1>1. To[m] \in Seq(User)  BY RelayAssumption
<1>2. Addressees(m) \subseteq User  BY <1>1 DEF Addressees
<1>3. \A i \in 1..Len(To[m]) : To[m][i] \in Addressees(m)  BY DEF Addressees
<1> QED  BY <1>1, <1>2, <1>3

-----------------------------------------------------------------------------
LEMMA TypeInit == Init => TypeOK
BY RelayAssumption DEF Init, TypeOK

LEMMA SocketStep ==
    ASSUME TypeOK, NEW s \in Socket, Connect(s) \/ Break(s) \/ Disconnect(s) \/ Receive(s)
    PROVE  TypeOK'
<1>1. Owner[s] \in User /\ s \in SocketsOf(Owner[s])  BY RelayAssumption DEF SocketsOf
<1>2. CASE Connect(s)
  <2> DEFINE r == [kind |-> "keys", socket |-> s, keys |-> list[Owner[s]], found |-> FALSE]
  <2>1. r \in FlushReply  BY <1>1 DEF FlushReply, TypeOK
  <2>2. replies' = Append(replies, r)  BY <1>2 DEF Connect
  <2>3. replies' \in Seq(AnyReply)
    <3> HIDE DEF r
    <3> QED  BY <2>1, <2>2 DEF TypeOK, AnyReply
  <2>4. SocketsOK'  BY <1>1, <1>2, TypeParts DEF TypeByParts, Connect, SocketsOK, SocketsOf
  <2>5. RestOK' /\ ListOK' /\ StoreOK' /\ WireOK' /\ GotOK' /\ emitted' \subseteq Delivery
    BY <1>1, <1>2, TypeParts
    DEF TypeByParts, Connect, RestOK, ListOK, StoreOK, WireOK, GotOK, redisVars, clientVars
  <2> QED  BY <2>3, <2>4, <2>5, TypeParts DEF TypeByParts
<1>3. CASE Break(s)
  <2>1. SocketsOK'  BY <1>3, TypeParts DEF TypeByParts, Break, SocketsOK, SocketsOf, historyVars
  <2>2. WireOK'
    <3>1. /\ wire' = [wire EXCEPT ![s] = <<>>] /\ wire \in [Socket -> Seq(Message)]
          /\ \A x \in Socket : wire[x] \in Seq(MailOf(Owner[x]))
      BY <1>3, TypeParts DEF TypeByParts, Break, WireOK
    <3>2. <<>> \in Seq(Message) /\ \A x \in Socket : <<>> \in Seq(MailOf(Owner[x]))
      OBVIOUS
    <3>3. wire' \in [Socket -> Seq(Message)]  BY <3>1, <3>2
    <3>4. \A x \in Socket : wire'[x] = IF x = s THEN <<>> ELSE wire[x]  BY <3>1
    <3> QED  BY <3>1, <3>2, <3>3, <3>4 DEF WireOK
  <2>3. RestOK' /\ ListOK' /\ StoreOK' /\ GotOK' /\ emitted' \subseteq Delivery
        /\ replies' \in Seq(AnyReply)
    BY <1>3, TypeParts DEF TypeByParts, Break, RestOK, ListOK, StoreOK, GotOK, redisVars, historyVars
  <2> QED  BY <2>1, <2>2, <2>3, TypeParts DEF TypeByParts
<1>4. CASE Disconnect(s)
  <2>1. SocketsOK'  BY <1>1, <1>4, TypeParts DEF TypeByParts, Disconnect, SocketsOK, SocketsOf, historyVars
  <2>2. RestOK' /\ ListOK' /\ StoreOK' /\ WireOK' /\ GotOK' /\ emitted' \subseteq Delivery
        /\ replies' \in Seq(AnyReply)
    BY <1>4, TypeParts
    DEF TypeByParts, Disconnect, RestOK, ListOK, StoreOK, WireOK, GotOK, redisVars, clientVars, historyVars
  <2> QED  BY <2>1, <2>2, TypeParts DEF TypeByParts
<1>5. CASE Receive(s)
  <2>1. wire[s] # <<>> /\ wire[s] \in Seq(Message) /\ wire[s] \in Seq(MailOf(Owner[s]))
        /\ got[s] \in Seq(Message) /\ got[s] \in Seq(MailOf(Owner[s]))
    BY <1>5, TypeParts DEF TypeByParts, Receive, WireOK, GotOK
  <2> DEFINE g == Append(got[s], Head(wire[s]))
             w == Tail(wire[s])
  <2>g. g \in Seq(Message) /\ g \in Seq(MailOf(Owner[s]))
    <3>1. Head(wire[s]) \in Message /\ Head(wire[s]) \in MailOf(Owner[s])  BY <2>1
    <3> QED  BY <2>1, <3>1
  <2>w. w \in Seq(Message) /\ w \in Seq(MailOf(Owner[s]))
    <3>1. \A S : \A q \in Seq(S) : q # <<>> => Tail(q) \in Seq(S)  OBVIOUS
    <3> QED  BY <2>1, <3>1
  <2>f. /\ got \in [Socket -> Seq(Message)] /\ wire \in [Socket -> Seq(Message)]
        /\ \A x \in Socket : got[x] \in Seq(MailOf(Owner[x])) /\ wire[x] \in Seq(MailOf(Owner[x]))
        /\ got' = [got EXCEPT ![s] = g] /\ wire' = [wire EXCEPT ![s] = w]
    BY <1>5, TypeParts DEF TypeByParts, Receive, GotOK, WireOK
  <2> HIDE DEF g, w
  <2>2. GotOK'
    <3>1. got' \in [Socket -> Seq(Message)]  BY <2>f, <2>g
    <3>2. \A x \in Socket : got'[x] = IF x = s THEN g ELSE got[x]  BY <2>f
    <3> QED  BY <2>f, <2>g, <3>1, <3>2 DEF GotOK
  <2>3. WireOK'
    <3>1. wire' \in [Socket -> Seq(Message)]  BY <2>f, <2>w
    <3>2. \A x \in Socket : wire'[x] = IF x = s THEN w ELSE wire[x]  BY <2>f
    <3> QED  BY <2>f, <2>w, <3>1, <3>2 DEF WireOK
  <2>4. SocketsOK' /\ RestOK' /\ ListOK' /\ StoreOK' /\ emitted' \subseteq Delivery
        /\ replies' \in Seq(AnyReply)
    BY <1>5, TypeParts
    DEF TypeByParts, Receive, SocketsOK, RestOK, ListOK, StoreOK, relayVars, redisVars, historyVars
  <2> QED  BY <2>2, <2>3, <2>4, TypeParts DEF TypeByParts
<1> QED  BY <1>2, <1>3, <1>4, <1>5

LEMMA SendStep ==
    ASSUME TypeOK, NEW m \in Message, Send(m)
    PROVE  TypeOK'
<1>1. SocketsOK' /\ ListOK' /\ GotOK'
  BY TypeParts DEF TypeByParts, Send, SocketsOK, ListOK, GotOK, relayVars
<1>2. RestOK'  BY TypeParts DEF TypeByParts, Send, RestOK, relayVars
<1>3. WireOK' /\ StoreOK' /\ replies' \in Seq(AnyReply) /\ emitted' \subseteq Delivery
  <2>1. CASE GroupOf[m] \in groups \cup {NoGroup}
    <3>1. FanOut(m, To[m], replies)  BY <2>1 DEF Send
    <3> QED  BY <3>1, AddresseesType, FanOutType, TypeParts DEF TypeByParts
  <2>2. CASE GroupOf[m] \notin groups \cup {NoGroup}
    BY <2>2, TypeParts DEF TypeByParts, Send, WireOK, StoreOK
  <2> QED  BY <2>1, <2>2
<1> QED  BY <1>1, <1>2, <1>3, TypeParts DEF TypeByParts

LEMMA ReplyStep ==
    ASSUME TypeOK, Reply
    PROVE  TypeOK'
<1> DEFINE r == Head(replies)
<1>0. replies # <<>> /\ SocketsOK' /\ RestOK' /\ GotOK'
  BY TypeParts
  DEF TypeByParts, Reply, QueueSet, QueuePushed, FlushKeys, FlushFound, FlushMissing, FlushDeleted, Answered,
      SocketsOK, RestOK, GotOK, relayVars, clientVars, historyVars
<1>t. Tail(replies) \in Seq(AnyReply)  BY <1>0, HeadType
<1>1. CASE QueueSet
  <2>1. r \in QueueReply  BY <1>0, <1>1, HeadType DEF QueueSet, Answered
  <2>2. r.user \in User /\ r.message \in MailOf(r.user)  BY <2>1 DEF QueueReply, MailOf
  <2>3. [r EXCEPT !.kind = "pushed"] \in QueueReply  BY <2>1 DEF QueueReply
  <2>4. replies' = Append(Tail(replies), [r EXCEPT !.kind = "pushed"])
        /\ list' = [list EXCEPT ![r.user] = Append(@, r.message)]
    BY <1>1 DEF QueueSet
  <2> HIDE DEF r
  <2>5. replies' \in Seq(AnyReply)
    <3> DEFINE q == [r EXCEPT !.kind = "pushed"]
    <3>1. q \in AnyReply /\ replies' = Append(Tail(replies), q)  BY <2>3, <2>4 DEF AnyReply
    <3> HIDE DEF q
    <3> QED  BY <1>t, <3>1
  <2>6. ListOK'
    <3>1. r.message \in Message  BY <2>2 DEF MailOf
    <3>2. list \in [User -> Seq(Message)] /\ \A u \in User : list[u] \in Seq(MailOf(u))
      BY TypeParts DEF TypeByParts, ListOK
    <3>3. list' \in [User -> Seq(Message)]  BY <2>2, <2>4, <3>1, <3>2
    <3>4. ASSUME NEW u \in User  PROVE  list'[u] \in Seq(MailOf(u))
      <4>1. CASE u = r.user
        <5>1. list'[u] = Append(list[u], r.message)  BY <2>4, <3>2, <4>1
        <5> QED  BY <2>2, <3>2, <4>1, <5>1
      <4>2. CASE u # r.user  BY <2>4, <3>2, <4>2
      <4> QED  BY <4>1, <4>2
    <3> QED  BY <3>3, <3>4 DEF ListOK
  <2>7. StoreOK' /\ WireOK' /\ emitted' \subseteq Delivery
    BY <1>1, TypeParts DEF TypeByParts, QueueSet, StoreOK, WireOK, clientVars, historyVars
  <2> QED  BY <1>0, <2>5, <2>6, <2>7, TypeParts DEF TypeByParts
<1>2. CASE QueuePushed
  <2>1. r \in QueueReply  BY <1>0, <1>2, HeadType DEF QueuePushed, Answered
  <2>2. r.message \in Message /\ r.rest \in Seq(Addressees(r.message))  BY <2>1 DEF QueueReply
  <2>3. FanOut(r.message, r.rest, Tail(replies))  BY <1>2 DEF QueuePushed
  <2>4. ListOK'  BY <1>2, TypeParts DEF TypeByParts, QueuePushed, ListOK
  <2> HIDE DEF r
  <2>5. WireOK' /\ StoreOK' /\ replies' \in Seq(AnyReply) /\ emitted' \subseteq Delivery
    BY <1>t, <2>2, <2>3, AddresseesType, FanOutType
  <2> QED  BY <1>0, <2>4, <2>5, TypeParts DEF TypeByParts
<1>3. ASSUME FlushKeys \/ FlushMissing \/ FlushDeleted  PROVE  TypeOK'
  <2>1. r \in FlushReply
    BY <1>0, <1>3, HeadType DEF FlushKeys, FlushMissing, FlushDeleted, Answered
  <2>2. r.socket \in Socket /\ r.keys \in Seq(MailOf(Owner[r.socket])) /\ r.keys \in Seq(Message)
        /\ (r.kind = "value" => r.keys # <<>>)
    BY <2>1 DEF FlushReply
  <2>3. StoreOK' /\ WireOK' /\ emitted' \subseteq Delivery
    BY <1>3, TypeParts
    DEF TypeByParts, FlushKeys, FlushMissing, FlushDeleted, StoreOK, WireOK, clientVars, historyVars
  <2>4. ListOK' /\ replies' \in Seq(AnyReply)
    <3>1. CASE FlushKeys
      <4>1. CASE r.keys = <<>>
        BY <1>t, <3>1, <4>1, TypeParts DEF TypeByParts, FlushKeys, ListOK
      <4>2. CASE r.keys # <<>>
        <5>1. NextKey(r.socket, r.keys, Tail(replies))  BY <3>1, <4>2 DEF FlushKeys
        <5> HIDE DEF r
        <5> QED  BY <1>t, <2>2, <5>1, NextKeyType
      <4> QED  BY <4>1, <4>2
    <3>2. CASE FlushMissing
      <4>1. NextKey(r.socket, Tail(r.keys), Tail(replies)) /\ r.kind = "value"
        BY <3>2 DEF FlushMissing, Answered
      <4> HIDE DEF r
      <4>0. r.keys # <<>>  BY <2>2, <4>1
      <4>2. Tail(r.keys) \in Seq(MailOf(Owner[r.socket])) /\ Tail(r.keys) \in Seq(Message)
        <5>1. \A S : \A q \in Seq(S) : q # <<>> => Tail(q) \in Seq(S)  OBVIOUS
        <5> QED  BY <2>2, <4>0, <5>1
      <4> QED  BY <1>t, <2>2, <4>1, <4>2, NextKeyType
    <3>3. CASE FlushDeleted
      <4>1. NextKey(r.socket, r.keys, Tail(replies))  BY <3>3 DEF FlushDeleted
      <4> HIDE DEF r
      <4> QED  BY <1>t, <2>2, <4>1, NextKeyType
    <3> QED  BY <1>3, <3>1, <3>2, <3>3
  <2> QED  BY <1>0, <2>3, <2>4, TypeParts DEF TypeByParts
<1>4. CASE FlushFound
  <2> DEFINE u == Owner[r.socket]
             m == Head(r.keys)
             q == [kind |-> "deleted", socket |-> r.socket, keys |-> Tail(r.keys), found |-> FALSE]
  <2>1. r \in FlushReply /\ r.kind = "value"
    BY <1>0, <1>4, HeadType DEF FlushFound, Answered
  <2>2. /\ r.socket \in Socket /\ r.keys \in Seq(MailOf(u)) /\ r.keys \in Seq(Message)
        /\ r.keys # <<>>
    BY <2>1 DEF FlushReply
  <2>3. u \in User /\ m \in MailOf(u) /\ m \in Message  BY <2>2, RelayAssumption
  <2>4. q \in FlushReply  BY <2>2 DEF FlushReply
  <2>5. /\ Emit({r.socket}, m) /\ emitted' = emitted \cup {<<u, m>>}
        /\ store' = [store EXCEPT ![u] = @ \ {m}]
        /\ replies' = Append(Tail(replies), q) /\ UNCHANGED list
    BY <1>4 DEF FlushFound
  <2>6. replies' \in Seq(AnyReply)
    <3> HIDE DEF q
    <3> QED  BY <1>t, <2>4, <2>5 DEF AnyReply
  <2>7. WireOK'
    <3> HIDE DEF r
    <3> DEFINE sockets == {r.socket}
    <3>1. \A s \in sockets \cap Socket : m \in MailOf(Owner[s])  BY <2>3
    <3>2. Emit(sockets, m)  BY <2>5
    <3> HIDE DEF sockets, m
    <3> QED  BY <2>3, <3>1, <3>2, EmitType, TypeParts DEF TypeByParts
  <2> HIDE DEF u, m
  <2>8. StoreOK'  BY <2>3, <2>5, TypeParts DEF TypeByParts, StoreOK
  <2>9. ListOK' /\ emitted' \subseteq Delivery
    BY <2>3, <2>5, TypeParts DEF TypeByParts, ListOK, Delivery
  <2> QED  BY <1>0, <2>6, <2>7, <2>8, <2>9, TypeParts DEF TypeByParts
<1> QED  BY <1>1, <1>2, <1>3, <1>4 DEF Reply

LEMMA EnvironmentStep ==
    ASSUME TypeOK,
           \/ \E u \in User : Login(u)
           \/ \E g \in Group : CreateGroup(g)
           \/ \E u \in User, m \in Message : Expire(u, m)
           \/ Restart
           \/ UNCHANGED vars
    PROVE  TypeOK'
<1>1. CASE \E u \in User : Login(u)
  BY <1>1 DEF TypeOK, Login, redisVars, clientVars, historyVars
<1>2. CASE \E g \in Group : CreateGroup(g)
  BY <1>2 DEF TypeOK, CreateGroup, redisVars, clientVars
<1>3. CASE \E u \in User, m \in Message : Expire(u, m)
  <2> PICK u \in User, m \in Message : Expire(u, m)  BY <1>3
  <2>1. <<u, m>> \in Delivery  BY DEF Expire, TypeOK, Delivery
  <2>2. StoreOK'  BY TypeParts DEF TypeByParts, Expire, StoreOK
  <2>3. SocketsOK' /\ RestOK' /\ ListOK' /\ WireOK' /\ GotOK'
        /\ replies' \in Seq(AnyReply) /\ emitted' \subseteq Delivery
    BY <2>1, TypeParts DEF TypeByParts, Expire, SocketsOK, RestOK, ListOK, WireOK, GotOK, relayVars, clientVars
  <2> QED  BY <2>2, <2>3, TypeParts DEF TypeByParts
<1>4. CASE Restart
  <2>1. SocketsOK'  BY <1>4, TypeParts DEF TypeByParts, Restart, SocketsOK
  <2>2. RestOK' /\ ListOK' /\ StoreOK' /\ GotOK' /\ emitted' \subseteq Delivery
    BY <1>4, TypeParts, RelayAssumption DEF TypeByParts, Restart, RestOK, ListOK, StoreOK, GotOK, redisVars
  <2>3. WireOK' /\ replies' \in Seq(AnyReply)  BY <1>4 DEF Restart, WireOK
  <2> QED  BY <2>1, <2>2, <2>3, TypeParts DEF TypeByParts
<1>5. CASE UNCHANGED vars
  BY <1>5 DEF TypeOK, vars, relayVars, redisVars, clientVars, historyVars
<1> QED  BY <1>1, <1>2, <1>3, <1>4, <1>5

\* Every step of the server keeps its types, and with them the addressing: presence entries
\* name sockets of their user, and mailbox, flush and wire hold mail of their user alone.
THEOREM RelayTypeCorrect == Spec => []TypeOK
<1>1. TypeOK /\ [Next]_vars => TypeOK'
  BY SocketStep, SendStep, ReplyStep, EnvironmentStep DEF Next
<1> QED  BY <1>1, TypeInit, PTL DEF Spec

-----------------------------------------------------------------------------
LEMMA PresenceStep ==
    ASSUME TypeOK, PresenceFollowsLatest, [Next]_vars
    PROVE  PresenceFollowsLatest'
<1>1. ASSUME NEW s \in Socket, Connect(s)  PROVE  PresenceFollowsLatest'
  BY <1>1, RelayAssumption DEF Connect, PresenceFollowsLatest, Connected, TypeOK, SocketsOf
<1>2. ASSUME NEW s \in Socket, Break(s)  PROVE  PresenceFollowsLatest'
  BY <1>2 DEF Break, PresenceFollowsLatest, Connected, TypeOK, historyVars
<1>3. ASSUME NEW s \in Socket, Disconnect(s)  PROVE  PresenceFollowsLatest'
  BY <1>3, RelayAssumption DEF Disconnect, PresenceFollowsLatest, Connected, TypeOK, SocketsOf, historyVars
<1>4. CASE Restart
  BY <1>4 DEF Restart, PresenceFollowsLatest
<1>5. ASSUME UNCHANGED <<phase, active, latest>>  PROVE  PresenceFollowsLatest'
  BY <1>5 DEF PresenceFollowsLatest, Connected
<1>6. ASSUME \/ \E u \in User : Login(u)
             \/ \E g \in Group : CreateGroup(g)
             \/ \E s \in Socket : Receive(s)
             \/ \E m \in Message : Send(m)
             \/ Reply
             \/ \E u \in User, m \in Message : Expire(u, m)
             \/ UNCHANGED vars
      PROVE  UNCHANGED <<phase, active, latest>>
  BY <1>6
  DEF Login, CreateGroup, Receive, Send, Reply, QueueSet, QueuePushed, FlushKeys, FlushFound,
      FlushMissing, FlushDeleted, Expire, vars, relayVars, historyVars
<1> QED  BY <1>1, <1>2, <1>3, <1>4, <1>5, <1>6 DEF Next

\* Presence is exact in every reachable state: however the sockets of a user connect and
\* leave, the table names the one that connected last while the server believes it connected.
THEOREM PresenceCorrect == Spec => []PresenceFollowsLatest
<1>1. Init => PresenceFollowsLatest  BY DEF Init, PresenceFollowsLatest
<1> QED  BY <1>1, PresenceStep, RelayTypeCorrect, PTL DEF Spec

-----------------------------------------------------------------------------
(* The mailbox.  A delivery is in one place at a time: with a fan-out that has not come to *)
(* it, in the store or in the hand of a flush, or already handed to a socket.              *)
AtMostOne(q, S) == \A i, j \in 1..Len(q) : q[i] \in S /\ q[j] \in S => i = j
Distinct(q)     == \A i, j \in 1..Len(q) : q[i] = q[j] => i = j

LoopOf(m)  == {r \in QueueReply : r.message = m}
FlushesOf(u) == {r \in FlushReply : Owner[r.socket] = u}

WaitsIn(r, d) == r.kind \in {"set", "pushed"} /\ r.message = d[2] /\ d[1] \in SeqSet(r.rest)
HeldBy(r, d)  == /\ r.kind = "value" /\ r.found
                 /\ Owner[r.socket] = d[1] /\ Head(r.keys) = d[2]
InStore(d)    == d[2] \in store[d[1]]

\* What the server took is all it ever holds or has handed over.
KnownInv ==
    /\ \A d \in Delivery : d \in emitted \cup expired \/ InStore(d) => d[2] \in SeqSet(accepted)
    /\ \A r \in SeqSet(replies) : r \in QueueReply => r.message \in SeqSet(accepted)

\* A message has one fan-out, and its loop comes to a recipient once.
LoopInv ==
    /\ \A m \in Message : AtMostOne(replies, LoopOf(m))
    /\ \A r \in SeqSet(replies) : r \in QueueReply => Distinct(r.rest)

\* What a fan-out has still ahead is nowhere else; what a flush has read was stored.
PlaceInv ==
    /\ \A d \in Delivery, r \in SeqSet(replies) :
          WaitsIn(r, d) => d \notin emitted \cup expired /\ ~InStore(d)
    /\ \A d \in Delivery, r \in SeqSet(replies) :
          HeldBy(r, d) => d \in emitted \cup expired \/ InStore(d)

MailInv == KnownInv /\ LoopInv /\ PlaceInv

-----------------------------------------------------------------------------
\* What a queue holds when its head is taken and an entry is added at its end.
LEMMA SetOfAppend ==
    ASSUME NEW S, NEW q \in Seq(S), NEW x \in S
    PROVE  SeqSet(Append(q, x)) = SeqSet(q) \cup {x}
<1>1. /\ Len(Append(q, x)) = Len(q) + 1 /\ Append(q, x)[Len(q) + 1] = x
      /\ \A i \in 1..Len(q) : Append(q, x)[i] = q[i]
  OBVIOUS
<1>2. 1..(Len(q) + 1) = 1..Len(q) \cup {Len(q) + 1} /\ Len(q) \in Nat  OBVIOUS
<1> QED  BY <1>1, <1>2 DEF SeqSet

LEMMA SetOfTail ==
    ASSUME NEW S, NEW q \in Seq(S), q # <<>>
    PROVE  /\ SeqSet(q) = {Head(q)} \cup SeqSet(Tail(q))
           /\ Head(q) \in S /\ Tail(q) \in Seq(S)
<1>1. /\ Len(q) \in Nat \ {0} /\ Len(Tail(q)) = Len(q) - 1 /\ Head(q) = q[1]
      /\ \A i \in 1..Len(q) - 1 : Tail(q)[i] = q[i + 1]
  OBVIOUS
<1>2. \A i \in 1..Len(q) : i = 1 \/ (i - 1 \in 1..Len(q) - 1 /\ (i - 1) + 1 = i)  BY <1>1
<1>3. SeqSet(q) \subseteq {Head(q)} \cup SeqSet(Tail(q))
  <2>1. ASSUME NEW i \in 1..Len(q)  PROVE  q[i] \in {Head(q)} \cup SeqSet(Tail(q))
    <3>1. CASE i = 1  BY <1>1, <3>1
    <3>2. CASE i # 1
      <4>1. i - 1 \in 1..Len(Tail(q)) /\ Tail(q)[i - 1] = q[i]  BY <1>1, <1>2, <3>2
      <4> QED  BY <4>1 DEF SeqSet
    <3> QED  BY <3>1, <3>2
  <2> QED  BY <2>1 DEF SeqSet
<1>4. \A i \in 1..Len(q) - 1 : i + 1 \in 1..Len(q)  BY <1>1
<1>5. SeqSet(Tail(q)) \subseteq SeqSet(q)  BY <1>1, <1>4 DEF SeqSet
<1>6. Head(q) \in SeqSet(q)  BY <1>1 DEF SeqSet
<1>7. Tail(q) \in Seq(S) /\ Head(q) \in S  OBVIOUS
<1> QED  BY <1>3, <1>5, <1>6, <1>7

\* Whoever is alone in a queue leaves none of its kind behind, and may come back.
LEMMA SoleOfTail ==
    ASSUME NEW S, NEW q \in Seq(S), q # <<>>, NEW K, AtMostOne(q, K)
    PROVE  AtMostOne(Tail(q), K) /\ (Head(q) \in K => SeqSet(Tail(q)) \cap K = {})
<1>1. /\ Len(q) \in Nat \ {0} /\ Len(Tail(q)) = Len(q) - 1 /\ Head(q) = q[1]
      /\ \A i \in 1..Len(q) - 1 : i + 1 \in 1..Len(q) /\ Tail(q)[i] = q[i + 1] /\ i + 1 # 1
      /\ 1 \in 1..Len(q)
  OBVIOUS
<1>2. \A i, j \in 1..Len(q) : q[i] \in K /\ q[j] \in K => i = j  BY DEF AtMostOne
<1>3. \A i, j \in 1..Len(q) - 1 : Tail(q)[i] \in K /\ Tail(q)[j] \in K => i = j
  <2> TAKE i, j \in 1..Len(q) - 1
  <2> HAVE Tail(q)[i] \in K /\ Tail(q)[j] \in K
  <2>1. i + 1 = j + 1  BY <1>1, <1>2
  <2> QED  BY <1>1, <2>1
<1>4. ASSUME Head(q) \in K, NEW i \in 1..Len(q) - 1  PROVE  Tail(q)[i] \notin K
  BY <1>1, <1>2, <1>4
<1> QED  BY <1>1, <1>3, <1>4 DEF AtMostOne, SeqSet

LEMMA SoleOfAppend ==
    ASSUME NEW S, NEW q \in Seq(S), NEW x \in S, NEW K, AtMostOne(q, K),
           x \in K => SeqSet(q) \cap K = {}
    PROVE  AtMostOne(Append(q, x), K)
<1>1. /\ Len(q) \in Nat /\ Len(Append(q, x)) = Len(q) + 1 /\ Append(q, x)[Len(q) + 1] = x
      /\ \A i \in 1..Len(q) : Append(q, x)[i] = q[i]
      /\ \A i \in 1..(Len(q) + 1) : i \in 1..Len(q) \/ i = Len(q) + 1
  OBVIOUS
<1>2. \A i, j \in 1..Len(q) : q[i] \in K /\ q[j] \in K => i = j  BY DEF AtMostOne
<1>3. \A i \in 1..Len(q) : x \in K => q[i] \notin K  BY DEF SeqSet
<1> QED  BY <1>1, <1>2, <1>3 DEF AtMostOne

LEMMA LoopKinds ==
    /\ \A r \in FlushReply : r \notin QueueReply /\ r.kind \notin {"set", "pushed"}
    /\ \A r \in QueueReply : r \notin FlushReply /\ r.kind \in {"set", "pushed"}
    /\ \A r \in QueueReply : r.message \in Message /\ r \in LoopOf(r.message)
<1>1. \A r \in FlushReply : r.kind \in {"keys", "value", "deleted"}  BY DEF FlushReply
<1>2. \A r \in QueueReply : r.kind \in {"set", "pushed"} /\ r.message \in Message  BY DEF QueueReply
<1> QED  BY <1>1, <1>2 DEF LoopOf

\* Waiting and InHand, reply by reply.
LEMMA PlacesByReply ==
    ASSUME NEW d \in Delivery
    PROVE  /\ d \in Waiting <=> \E r \in SeqSet(replies) : WaitsIn(r, d)
           /\ InHand(d) <=> \E r \in SeqSet(replies) : HeldBy(r, d)
           /\ d \in Waiting' <=> \E r \in SeqSet(replies') : WaitsIn(r, d)
           /\ InHand(d)' <=> \E r \in SeqSet(replies') : HeldBy(r, d)
<1>1. d = <<d[1], d[2]>>  BY DEF Delivery
<1>2. \A r : d \in SeqSet(r.rest) \X {r.message} <=> d[1] \in SeqSet(r.rest) /\ d[2] = r.message
  BY <1>1
<1>3. d \in Waiting <=> \E r \in SeqSet(replies) : WaitsIn(r, d)  BY <1>2 DEF Waiting, WaitsIn
<1>4. d \in Waiting' <=> \E r \in SeqSet(replies') : WaitsIn(r, d)  BY <1>2 DEF Waiting, WaitsIn
<1>5. InHand(d) <=> \E r \in SeqSet(replies) : HeldBy(r, d)  BY DEF InHand, HeldBy, FlushOf
<1>6. InHand(d)' <=> \E r \in SeqSet(replies') : HeldBy(r, d)  BY DEF InHand, HeldBy, FlushOf
<1> QED  BY <1>3, <1>4, <1>5, <1>6

\* Where the loop over the recipients leaves them, and what it waits for then (left): each is
\* handed the message, or it is stored for them, or the loop has still to come to them.
LoopLeaves(m, rest, waiting, left) ==
    /\ \/ left = {} /\ replies' = waiting
       \/ \E x \in LoopOf(m) :
             /\ left = {x} /\ replies' = Append(waiting, x)
             /\ Distinct(x.rest) /\ x.kind = "set" /\ (Len(rest) = 1 => x.rest = <<>>)
             /\ rest # <<>>
    /\ \A d \in Delivery : ~(d[2] = m /\ d[1] \in SeqSet(rest)) =>
          /\ d \in emitted' <=> d \in emitted
          /\ InStore(d)' <=> InStore(d)
          /\ \A x \in left : ~WaitsIn(x, d)
    /\ \A d \in Delivery : d[2] = m /\ d[1] \in SeqSet(rest) =>
          \/ d \in emitted' /\ (InStore(d)' <=> InStore(d)) /\ \A x \in left : ~WaitsIn(x, d)
          \/ (d \in emitted' <=> d \in emitted) /\ InStore(d)' /\ \A x \in left : ~WaitsIn(x, d)
          \/ /\ d \in emitted' <=> d \in emitted
             /\ InStore(d)' <=> InStore(d)
             /\ \E x \in left : WaitsIn(x, d)

LEMMA FanOutMoves ==
    ASSUME TypeOK, NEW m \in Message, NEW rest \in Seq(Addressees(m)), Distinct(rest),
           NEW waiting \in Seq(AnyReply), FanOut(m, rest, waiting)
    PROVE  \E left : LoopLeaves(m, rest, waiting, left)
<1> DEFINE n       == Cardinality(LeadingPresent(rest))
           reached == {rest[i] : i \in 1..n}
           u       == rest[n + 1]
           after   == SubSeq(rest, n + 2, Len(rest))
           next    == [kind |-> "set", user |-> u, message |-> m, rest |-> after]
<1>1. n \in 0..Len(rest) /\ Len(rest) \in Nat  BY LeadingType
<1>f. /\ emitted' = emitted \cup (reached \X {m})
      /\ \/ n = Len(rest) /\ replies' = waiting /\ UNCHANGED store
         \/ /\ n # Len(rest)
            /\ store' = [store EXCEPT ![u] = @ \cup {m}] /\ replies' = Append(waiting, next)
  BY DEF FanOut
<1>d. \A d \in Delivery : d = <<d[1], d[2]>> /\ d[1] \in User  BY DEF Delivery
<1>s. store \in [User -> SUBSET Message]  BY DEF TypeOK
<1>r. \A i \in 1..Len(rest) : rest[i] \in Addressees(m) /\ rest[i] \in User
  BY AddresseesType
<1> HIDE DEF n
<1>e. \A d \in Delivery : d \in emitted' <=> d \in emitted \/ (d[2] = m /\ d[1] \in reached)
  BY <1>d, <1>f
<1>i. \A d \in Delivery : d[1] \in SeqSet(rest) <=> \E i \in 1..Len(rest) : d[1] = rest[i]
  BY DEF SeqSet
<1>2. CASE n = Len(rest)
  <2>1. reached = SeqSet(rest)  BY <1>2 DEF SeqSet
  <2>2. \A d \in Delivery : InStore(d)' <=> InStore(d)  BY <1>1, <1>2, <1>f DEF InStore
  <2> HIDE DEF reached
  <2>3. replies' = waiting  BY <1>2, <1>f
  <2>4. LoopLeaves(m, rest, waiting, {})  BY <1>e, <2>1, <2>2, <2>3 DEF LoopLeaves
  <2> QED  BY <2>4
<1>3. CASE n # Len(rest)
  <2>1. /\ n + 1 \in 1..Len(rest) /\ Len(after) = Len(rest) - (n + 1)
        /\ \A i \in 1..Len(rest) - (n + 1) : after[i] = rest[i + (n + 1)]
    BY <1>1, <1>3
  <2>2. after \in Seq(Addressees(m)) /\ after \in Seq(User)  BY <1>1, <1>3, <1>r
  <2>3. u \in Addressees(m) /\ u \in User  BY <1>r, <2>1
  <2>4. next \in LoopOf(m)  BY <2>2, <2>3 DEF LoopOf, QueueReply
  <2>5. Distinct(after)
    <3>1. \A i \in 1..Len(rest) - (n + 1) : i + (n + 1) \in 1..Len(rest)  BY <1>1
    <3>2. \A i, j \in 1..Len(rest) - (n + 1) : after[i] = after[j] => i = j
      BY <1>1, <2>1, <3>1 DEF Distinct
    <3> QED  BY <2>1, <3>2 DEF Distinct
  <2>6. \A i \in 1..Len(rest) : i \in 1..n \/ i = n + 1 \/ (i - (n + 1) \in 1..Len(after) /\ rest[i] = after[i - (n + 1)])
    <3> TAKE i \in 1..Len(rest)
    <3> HIDE DEF after, u, reached
    <3>1. CASE i > n + 1
      <4>1. i - (n + 1) \in 1..Len(rest) - (n + 1) /\ (i - (n + 1)) + (n + 1) = i  BY <1>1, <3>1
      <4>2. after[i - (n + 1)] = rest[(i - (n + 1)) + (n + 1)]  BY <2>1, <4>1
      <4> QED  BY <2>1, <4>1, <4>2
    <3>2. CASE ~(i > n + 1)  BY <1>1, <3>2
    <3> QED  BY <3>1, <3>2
  <2>7. \A i \in 1..Len(after) : after[i] = rest[i + (n + 1)] /\ i + (n + 1) \in 1..Len(rest)
                                 /\ i + (n + 1) # n + 1 /\ i + (n + 1) \notin 1..n
    BY <1>1, <2>1
  <2>8. u \notin reached /\ u \notin SeqSet(after) /\ reached \cap SeqSet(after) = {}
    BY <1>1, <2>1, <2>7 DEF Distinct, SeqSet
  <2>9. SeqSet(rest) = reached \cup {u} \cup SeqSet(after)
    <3>1. SeqSet(rest) \subseteq reached \cup {u} \cup SeqSet(after)  BY <2>6 DEF SeqSet
    <3>2. reached \subseteq SeqSet(rest)  BY <1>1 DEF SeqSet
    <3>3. SeqSet(after) \subseteq SeqSet(rest)  BY <2>7 DEF SeqSet
    <3>4. u \in SeqSet(rest)  BY <2>1 DEF SeqSet
    <3> QED  BY <3>1, <3>2, <3>3, <3>4
  <2>10. \A d \in Delivery : InStore(d)' <=> InStore(d) \/ (d[1] = u /\ d[2] = m)
    BY <1>3, <1>d, <1>f, <1>s, <2>3 DEF InStore
  <2>11. \A d : WaitsIn(next, d) <=> d[2] = m /\ d[1] \in SeqSet(after)  BY DEF WaitsIn
  <2>12. replies' = Append(waiting, next) /\ next.kind = "set" /\ next.rest = after  BY <1>3, <1>f
  <2>13. Len(rest) = 1 => after = <<>>  BY <1>1, <1>3, <2>1, <2>2
  <2>14. rest # <<>>  BY <2>1
  <2> HIDE DEF next, after, u, reached
  <2>15. LoopLeaves(m, rest, waiting, {next})
    BY <1>e, <2>4, <2>5, <2>8, <2>9, <2>10, <2>11, <2>12, <2>13, <2>14 DEF LoopLeaves
  <2> QED  BY <2>15
<1> QED  BY <1>2, <1>3

-----------------------------------------------------------------------------
LEMMA MailInit == Init => MailInv
<1> SUFFICES ASSUME Init  PROVE MailInv  OBVIOUS
<1>1. SeqSet(replies) = {} /\ Len(replies) = 0  BY DEF Init, SeqSet
<1>2. \A d \in Delivery : d \notin emitted \cup expired /\ ~InStore(d)
  BY DEF Init, InStore, Delivery
<1> QED  BY <1>1, <1>2 DEF MailInv, KnownInv, LoopInv, PlaceInv, AtMostOne

\* A step that touches neither the store nor a continuation of a fan-out or of a value read.
LEMMA MailKept ==
    ASSUME TypeOK, MailInv, UNCHANGED <<emitted, expired, accepted, store>>,
           \/ replies' = replies
           \/ \E x \in FlushReply : replies' = Append(replies, x) /\ x.kind # "value"
    PROVE  /\ MailInv'
           /\ \A d \in Delivery : Fate(d)' = Fate(d)
<1>0. replies \in Seq(AnyReply)  BY DEF TypeOK, AnyReply
<1>1. CASE replies' = replies
  <2>1. MailInv'
    BY <1>1 DEF MailInv, KnownInv, LoopInv, PlaceInv, AtMostOne, InStore
  <2>2. \A d \in Delivery : Fate(d)' = Fate(d)
    BY <1>1 DEF Fate, Waiting, InHand, FlushOf
  <2> QED  BY <2>1, <2>2
<1>2. ASSUME NEW x \in FlushReply, replies' = Append(replies, x), x.kind # "value"
      PROVE  MailInv' /\ \A d \in Delivery : Fate(d)' = Fate(d)
  <2>1. SeqSet(replies') = SeqSet(replies) \cup {x}  BY <1>0, <1>2, SetOfAppend DEF AnyReply
  <2>2. x \notin QueueReply /\ \A d : ~WaitsIn(x, d) /\ ~HeldBy(x, d)
    BY <1>2, LoopKinds DEF WaitsIn, HeldBy
  <2>3. KnownInv' /\ PlaceInv'
    BY <1>2, <2>1, <2>2 DEF MailInv, KnownInv, PlaceInv, InStore
  <2>4. LoopInv'
    <3>1. \A m \in Message : AtMostOne(replies', LoopOf(m))
      <4> TAKE m \in Message
      <4>1. AtMostOne(replies, LoopOf(m)) /\ x \notin LoopOf(m)
        BY <2>2 DEF MailInv, LoopInv, LoopOf
      <4> QED  BY <1>0, <1>2, <4>1, SoleOfAppend DEF AnyReply
    <3> QED  BY <2>1, <2>2, <3>1 DEF MailInv, LoopInv
  <2>5. \A d \in Delivery : (d \in Waiting' <=> d \in Waiting) /\ (InHand(d)' <=> InHand(d))
    BY <2>1, <2>2, PlacesByReply
  <2>6. \A d \in Delivery : Fate(d)' = Fate(d)  BY <2>5 DEF Fate
  <2> QED  BY <2>3, <2>4, <2>6 DEF MailInv
<1> QED  BY <1>1, <1>2

\* How one delivery may go in a step of the server that is no crash.
Moves(d) == Fate(d)' = Fate(d) \/ <<Fate(d), Fate(d)'>> \in Box!Edge

\* A loop over recipients who are still ahead of it: none of their deliveries is in two
\* places afterwards, and none is in no place.
LEMMA FanOutMail ==
    ASSUME TypeOK, MailInv,
           NEW m \in Message, NEW rest \in Seq(Addressees(m)), Distinct(rest),
           NEW waiting \in Seq(AnyReply), FanOut(m, rest, waiting),
           UNCHANGED expired, SeqSet(accepted') = SeqSet(accepted) \cup {m},
           SeqSet(waiting) \subseteq SeqSet(replies), SeqSet(waiting) \cap LoopOf(m) = {},
           \A k \in Message : AtMostOne(waiting, LoopOf(k)),
           \A r \in SeqSet(replies) \ SeqSet(waiting), d \in Delivery :
              ~HeldBy(r, d) /\ (WaitsIn(r, d) => d[2] = m /\ d[1] \in SeqSet(rest)),
           \A d \in Delivery : d[2] = m /\ d[1] \in SeqSet(rest) =>
              /\ d \notin emitted \cup expired /\ ~InStore(d)
              /\ d \in Waiting \/ m \notin SeqSet(accepted),
           \A d \in Delivery : d[2] = m /\ d[1] \notin SeqSet(rest) => m \in SeqSet(accepted)
    PROVE  MailInv' /\ \A d \in Delivery : Moves(d)
<1> DEFINE Ahead(d) == d[2] = m /\ d[1] \in SeqSet(rest)
<1>0. PICK left : LoopLeaves(m, rest, waiting, left)  BY FanOutMoves
<1>1. /\ \/ left = {} /\ replies' = waiting
         \/ \E x \in LoopOf(m) : left = {x} /\ replies' = Append(waiting, x) /\ Distinct(x.rest)
      /\ \A d \in Delivery : ~Ahead(d) =>
            /\ d \in emitted' <=> d \in emitted
            /\ InStore(d)' <=> InStore(d)
            /\ \A x \in left : ~WaitsIn(x, d)
      /\ \A d \in Delivery : Ahead(d) =>
            \/ d \in emitted' /\ (InStore(d)' <=> InStore(d)) /\ \A x \in left : ~WaitsIn(x, d)
            \/ (d \in emitted' <=> d \in emitted) /\ InStore(d)' /\ \A x \in left : ~WaitsIn(x, d)
            \/ /\ d \in emitted' <=> d \in emitted
               /\ InStore(d)' <=> InStore(d)
               /\ \E x \in left : WaitsIn(x, d)
  BY <1>0 DEF LoopLeaves
<1>2. SeqSet(replies') = SeqSet(waiting) \cup left
  <2>1. CASE left = {}  BY <1>1, <2>1
  <2>2. ASSUME NEW x \in LoopOf(m), left = {x}, replies' = Append(waiting, x)
        PROVE  SeqSet(replies') = SeqSet(waiting) \cup left
    <3>1. x \in AnyReply  BY DEF LoopOf, AnyReply
    <3> QED  BY <2>2, <3>1, SetOfAppend
  <2> QED  BY <1>1, <2>1, <2>2
<1>3. \A x \in left : x \in QueueReply /\ x.message = m /\ Distinct(x.rest) /\ \A d : ~HeldBy(x, d)
  BY <1>1 DEF LoopOf, HeldBy, QueueReply
<1>a. \A d \in Delivery : Ahead(d) =>
        /\ d \notin emitted \cup expired /\ ~InStore(d) /\ (d \in Waiting \/ m \notin SeqSet(accepted))
        /\ \A r \in SeqSet(replies) : ~HeldBy(r, d)
  BY DEF MailInv, PlaceInv
<1>w. ASSUME NEW d \in Delivery, Ahead(d), NEW r \in SeqSet(waiting)  PROVE ~WaitsIn(r, d)
  <2> SUFFICES ASSUME WaitsIn(r, d)  PROVE FALSE  OBVIOUS
  <2>1. r \in AnyReply  BY DEF SeqSet
  <2>2. r \in QueueReply  BY <2>1, LoopKinds DEF AnyReply, WaitsIn
  <2>3. r \in LoopOf(m)  BY <1>w, <2>2 DEF WaitsIn, LoopOf
  <2> QED  BY <2>3
<1>4. KnownInv'
  <2>1. \A d \in Delivery : (d \in emitted \cup expired \/ InStore(d))' => d[2] \in SeqSet(accepted)'
    BY <1>1 DEF MailInv, KnownInv
  <2>2. \A r \in SeqSet(replies)' : r \in QueueReply => r.message \in SeqSet(accepted)'
    BY <1>2, <1>3 DEF MailInv, KnownInv
  <2> QED  BY <2>1, <2>2 DEF KnownInv
<1>5. LoopInv'
  <2>1. ASSUME NEW k \in Message  PROVE AtMostOne(replies', LoopOf(k))
    <3>1. CASE left = {}  BY <1>1, <3>1
    <3>2. CASE left # {}
      <4>1. PICK x \in LoopOf(m) : replies' = Append(waiting, x)  BY <1>1, <3>2
      <4>2. x \in LoopOf(k) => SeqSet(waiting) \cap LoopOf(k) = {}  BY DEF LoopOf
      <4>3. AtMostOne(waiting, LoopOf(k)) /\ x \in AnyReply  BY DEF LoopOf, AnyReply
      <4> HIDE DEF LoopOf
      <4> QED  BY <4>1, <4>2, <4>3, SoleOfAppend
    <3> QED  BY <3>1, <3>2
  <2>2. \A r \in SeqSet(replies)' : r \in QueueReply => Distinct(r.rest)
    BY <1>2, <1>3 DEF MailInv, LoopInv
  <2> QED  BY <2>1, <2>2 DEF LoopInv
<1>6. PlaceInv'
  <2>1. ASSUME NEW d \in Delivery, NEW r \in SeqSet(replies'), WaitsIn(r, d)
        PROVE  d \notin emitted' \cup expired' /\ ~InStore(d)'
    <3>1. CASE Ahead(d)
      <4>1. r \in left  BY <1>2, <1>w, <2>1, <3>1
      <4> QED  BY <1>1, <1>a, <2>1, <3>1, <4>1
    <3>2. CASE ~Ahead(d)
      <4>1. r \in SeqSet(replies)  BY <1>1, <1>2, <2>1, <3>2
      <4>2. d \notin emitted \cup expired /\ ~InStore(d)  BY <2>1, <4>1 DEF MailInv, PlaceInv
      <4> QED  BY <1>1, <3>2, <4>2
    <3> QED  BY <3>1, <3>2
  <2>2. ASSUME NEW d \in Delivery, NEW r \in SeqSet(replies'), HeldBy(r, d)
        PROVE  d \in emitted' \cup expired' \/ InStore(d)'
    <3>1. r \in SeqSet(replies)  BY <1>2, <1>3, <2>2
    <3>2. d \in emitted \cup expired \/ InStore(d)  BY <2>2, <3>1 DEF MailInv, PlaceInv
    <3> QED  BY <1>1, <1>a, <3>2
  <2> QED  BY <2>1, <2>2 DEF PlaceInv
<1>7. ASSUME NEW d \in Delivery  PROVE Moves(d)
  <2>1. InHand(d)' <=> InHand(d)  BY <1>2, <1>3, PlacesByReply
  <2>2. CASE Ahead(d)
    <3>1. ~InHand(d)  BY <1>a, <2>2, PlacesByReply
    <3>2. Fate(d) \in {"taken", "new"}  BY <1>a, <2>2, <3>1 DEF Fate, InStore
    <3>3. d \in emitted' \/ InStore(d)' \/ (~InStore(d)' /\ d \notin emitted' \cup expired' /\ d \in Waiting')
      BY <1>1, <1>2, <1>a, <2>2, PlacesByReply
    <3>4. Fate(d)' \in {"emitted", "stored", "taken"}  BY <2>1, <3>1, <3>3 DEF Fate, InStore
    <3>5. Fate(d) = "taken" \/ Fate(d)' \in {"emitted", "stored", "taken"}  BY <3>4
    <3> QED  BY <3>2, <3>4 DEF Moves, Box!Edge
  <2>3. CASE ~Ahead(d)
    <3>1. d \in Waiting' <=> d \in Waiting  BY <1>1, <1>2, <2>3, PlacesByReply
    <3>2. d[2] \in SeqSet(accepted)' <=> d[2] \in SeqSet(accepted)  BY <2>3
    <3>3. (d \in emitted' <=> d \in emitted) /\ (InStore(d)' <=> InStore(d))  BY <1>1, <2>3
    <3> QED  BY <2>1, <3>1, <3>2, <3>3 DEF Moves, Fate, InStore
  <2> QED  BY <2>2, <2>3
<1> QED  BY <1>4, <1>5, <1>6, <1>7 DEF MailInv

LEMMA SendMail ==
    ASSUME TypeOK, MailInv, NEW m \in Message, Send(m)
    PROVE  MailInv' /\ \A d \in Delivery : Moves(d)
<1>0. replies \in Seq(AnyReply) /\ accepted \in Seq(Message) /\ m \notin SeqSet(accepted)
      /\ UNCHANGED expired
  BY DEF TypeOK, AnyReply, Send
<1>1. CASE GroupOf[m] \in groups \cup {NoGroup}
  <2>1. FanOut(m, To[m], replies) /\ accepted' = Append(accepted, m)  BY <1>1 DEF Send
  <2>2. To[m] \in Seq(Addressees(m)) /\ Distinct(To[m]) /\ SeqSet(To[m]) = Addressees(m)
    BY AddresseesType, RelayAssumption DEF Distinct, SeqSet, Addressees
  <2>3. SeqSet(accepted') = SeqSet(accepted) \cup {m}  BY <1>0, <2>1, SetOfAppend
  <2>4. SeqSet(replies) \cap LoopOf(m) = {}  BY <1>0 DEF MailInv, KnownInv, LoopOf
  <2>5. \A d \in Delivery : d[2] = m =>
          /\ d[1] \in SeqSet(To[m]) /\ d \notin emitted \cup expired /\ ~InStore(d)
    BY <1>0, <2>2 DEF MailInv, KnownInv, Delivery, MailOf
  <2>6. \A k \in Message : AtMostOne(replies, LoopOf(k))  BY DEF MailInv, LoopInv
  <2> QED  BY <1>0, <2>1, <2>2, <2>3, <2>4, <2>5, <2>6, FanOutMail
<1>2. CASE GroupOf[m] \notin groups \cup {NoGroup}
  <2>1. UNCHANGED <<emitted, expired, accepted, store>> /\ replies' = replies  BY <1>2 DEF Send
  <2> QED  BY <2>1, MailKept DEF Moves
<1> QED  BY <1>1, <1>2

LEMMA QueueSetMail ==
    ASSUME TypeOK, MailInv, QueueSet
    PROVE  MailInv' /\ \A d \in Delivery : Moves(d)
<1> DEFINE r == Head(replies)
           T == Tail(replies)
           q == [r EXCEPT !.kind = "pushed"]
<1>0. replies \in Seq(AnyReply) /\ replies # <<>> /\ r.kind = "set"
  BY DEF TypeOK, AnyReply, QueueSet, Answered
<1>1. r \in QueueReply /\ T \in Seq(AnyReply)  BY <1>0, HeadType
<1>2. /\ q \in QueueReply /\ q.kind = "pushed" /\ q.message = r.message /\ q.rest = r.rest
      /\ r.message \in Message
  BY <1>0, <1>1 DEF QueueReply
<1>3. SeqSet(replies) = {r} \cup SeqSet(T)  BY <1>0, SetOfTail
<1>4. replies' = Append(T, q) /\ UNCHANGED <<emitted, expired, accepted, store>>
  BY DEF QueueSet, historyVars
<1>5. q \in AnyReply  BY <1>2 DEF AnyReply
<1>6. \A K : AtMostOne(replies, K) => AtMostOne(T, K) /\ (r \in K => SeqSet(T) \cap K = {})
  BY <1>0, SoleOfTail
<1> HIDE DEF q, r, T
<1>7. SeqSet(replies') = SeqSet(T) \cup {q}  BY <1>1, <1>4, <1>5, SetOfAppend
<1>8. \A d : (WaitsIn(q, d) <=> WaitsIn(r, d)) /\ ~HeldBy(q, d) /\ ~HeldBy(r, d)
  BY <1>0, <1>2 DEF WaitsIn, HeldBy
<1>9. KnownInv' /\ PlaceInv'
  BY <1>1, <1>2, <1>3, <1>4, <1>7, <1>8 DEF MailInv, KnownInv, PlaceInv, InStore
<1>10. LoopInv'
  <2>1. ASSUME NEW k \in Message  PROVE AtMostOne(replies', LoopOf(k))
    <3>1. AtMostOne(T, LoopOf(k)) /\ (r \in LoopOf(k) => SeqSet(T) \cap LoopOf(k) = {})
      BY <1>6 DEF MailInv, LoopInv
    <3>2. q \in LoopOf(k) => r \in LoopOf(k)  BY <1>1, <1>2 DEF LoopOf
    <3> QED  BY <1>1, <1>4, <1>5, <3>1, <3>2, SoleOfAppend
  <2> QED  BY <1>1, <1>2, <1>3, <1>7, <2>1 DEF MailInv, LoopInv
<1>11. \A d \in Delivery : (d \in Waiting' <=> d \in Waiting) /\ (InHand(d)' <=> InHand(d))
  BY <1>3, <1>7, <1>8, PlacesByReply
<1>12. \A d \in Delivery : Fate(d)' = Fate(d)  BY <1>4, <1>11 DEF Fate
<1> QED  BY <1>9, <1>10, <1>12 DEF MailInv, Moves

LEMMA QueuePushedMail ==
    ASSUME TypeOK, MailInv, QueuePushed
    PROVE  MailInv' /\ \A d \in Delivery : Moves(d)
<1> DEFINE r == Head(replies)
           T == Tail(replies)
           m == r.message
<1>0. replies \in Seq(AnyReply) /\ replies # <<>> /\ r.kind = "pushed"
  BY DEF TypeOK, AnyReply, QueuePushed, Answered
<1>1. r \in QueueReply /\ T \in Seq(AnyReply)  BY <1>0, HeadType
<1>2. m \in Message /\ r.rest \in Seq(Addressees(m)) /\ r \in LoopOf(m)  BY <1>1 DEF QueueReply, LoopOf
<1>3. SeqSet(replies) = {r} \cup SeqSet(T)  BY <1>0, SetOfTail
<1>4. FanOut(m, r.rest, T) /\ UNCHANGED <<expired, accepted>>  BY DEF QueuePushed
<1>5. \A K : AtMostOne(replies, K) => AtMostOne(T, K) /\ (r \in K => SeqSet(T) \cap K = {})
  BY <1>0, SoleOfTail
<1> HIDE DEF r, T
<1>6. Distinct(r.rest) /\ m \in SeqSet(accepted)
  BY <1>1, <1>3 DEF MailInv, LoopInv, KnownInv
<1>7. SeqSet(T) \cap LoopOf(m) = {} /\ \A k \in Message : AtMostOne(T, LoopOf(k))
  BY <1>2, <1>5 DEF MailInv, LoopInv
<1>8. \A d : ~HeldBy(r, d) /\ (WaitsIn(r, d) <=> d[2] = m /\ d[1] \in SeqSet(r.rest))
  BY <1>0 DEF HeldBy, WaitsIn
<1>9. \A d \in Delivery : d[2] = m /\ d[1] \in SeqSet(r.rest) =>
        d \notin emitted \cup expired /\ ~InStore(d) /\ d \in Waiting
  BY <1>3, <1>8, PlacesByReply DEF MailInv, PlaceInv
<1> HIDE DEF m
<1> QED  BY <1>1, <1>2, <1>3, <1>4, <1>6, <1>7, <1>8, <1>9, FanOutMail

\* A turn of a flush that hands nothing over: it reads a value only from the store.
LEMMA FlushTurn ==
    ASSUME TypeOK, MailInv, replies # <<>>, Head(replies) \in FlushReply,
           Head(replies).kind = "value" => ~Head(replies).found,
           UNCHANGED <<emitted, expired, accepted, store>>,
           \/ replies' = Tail(replies)
           \/ \E x \in FlushReply : /\ replies' = Append(Tail(replies), x)
                                    /\ \A d \in Delivery : HeldBy(x, d) => InStore(d)
    PROVE  MailInv' /\ \A d \in Delivery : Moves(d)
<1> DEFINE r == Head(replies)
           T == Tail(replies)
<1>0. replies \in Seq(AnyReply) /\ T \in Seq(AnyReply)  BY HeadType DEF TypeOK, AnyReply
<1>1. SeqSet(replies) = {r} \cup SeqSet(T)  BY <1>0, SetOfTail
<1>2. r \notin QueueReply /\ \A d : ~WaitsIn(r, d) /\ ~HeldBy(r, d)
  BY LoopKinds DEF WaitsIn, HeldBy
<1>3. \A K : AtMostOne(replies, K) => AtMostOne(T, K)  BY <1>0, SoleOfTail
<1> DEFINE Fits(left) == /\ SeqSet(replies') = SeqSet(T) \cup left /\ left \subseteq FlushReply
                         /\ \A d \in Delivery, x \in left : HeldBy(x, d) => InStore(d)
                         /\ \A k \in Message : AtMostOne(replies', LoopOf(k))
<1>4. \E left : Fits(left)
  <2>1. CASE replies' = T
    <3>1. \A k \in Message : AtMostOne(replies', LoopOf(k))  BY <1>3, <2>1 DEF MailInv, LoopInv
    <3>2. SeqSet(replies') = SeqSet(T) \cup {}  BY <2>1
    <3>3. Fits({})  BY <3>1, <3>2
    <3> HIDE DEF Fits
    <3> QED  BY <3>3
  <2>2. ASSUME NEW x \in FlushReply, replies' = Append(T, x),
               \A d \in Delivery : HeldBy(x, d) => InStore(d)
        PROVE  \E left : Fits(left)
    <3>1. x \in AnyReply /\ \A k \in Message : x \notin LoopOf(k)  BY LoopKinds DEF AnyReply, LoopOf
    <3> HIDE DEF T
    <3>2. \A k \in Message : AtMostOne(replies', LoopOf(k))
      BY <1>0, <1>3, <2>2, <3>1, SoleOfAppend DEF MailInv, LoopInv
    <3>3. SeqSet(replies') = SeqSet(T) \cup {x}  BY <1>0, <2>2, <3>1, SetOfAppend
    <3>4. Fits({x})  BY <2>2, <3>2, <3>3
    <3> HIDE DEF Fits
    <3> QED  BY <3>4
  <2> QED  BY <2>1, <2>2
<1> PICK left : Fits(left)  BY <1>4
<1> HIDE DEF r, T
<1>5. \A x \in left : x \notin QueueReply /\ \A d : ~WaitsIn(x, d)  BY LoopKinds DEF WaitsIn
<1>6. \A d : InStore(d)' <=> InStore(d)  BY DEF InStore
<1>7. KnownInv' /\ LoopInv'
  BY <1>1, <1>5, <1>6 DEF MailInv, KnownInv, LoopInv
<1>8. PlaceInv'  BY <1>1, <1>5, <1>6 DEF MailInv, PlaceInv
<1>9. \A d \in Delivery : /\ d \in Waiting' <=> d \in Waiting
                          /\ InHand(d)' \/ InStore(d) <=> InHand(d) \/ InStore(d)
  BY <1>1, <1>2, <1>5, PlacesByReply
<1>10. \A d \in Delivery : Fate(d)' = Fate(d)  BY <1>6, <1>9 DEF Fate, InStore
<1> QED  BY <1>7, <1>8, <1>10 DEF MailInv, Moves

LEMMA FlushFoundMail ==
    ASSUME TypeOK, MailInv, FlushFound
    PROVE  MailInv' /\ \A d \in Delivery : Moves(d)
<1> DEFINE r == Head(replies)
           T == Tail(replies)
           u == Owner[r.socket]
           m == Head(r.keys)
           q == [kind |-> "deleted", socket |-> r.socket, keys |-> Tail(r.keys), found |-> FALSE]
<1>0. /\ replies \in Seq(AnyReply) /\ replies # <<>> /\ r.kind = "value" /\ r.found
      /\ emitted' = emitted \cup {<<u, m>>}
      /\ store' = [store EXCEPT ![u] = @ \ {m}]
      /\ replies' = Append(T, q) /\ UNCHANGED <<expired, accepted>>
  BY DEF TypeOK, AnyReply, FlushFound, Answered
<1>1. r \in FlushReply /\ T \in Seq(AnyReply)  BY <1>0, HeadType
<1>2. q \in FlushReply /\ u \in User
  <2>1. r.socket \in Socket /\ r.keys \in Seq(MailOf(u)) /\ r.keys \in Seq(Message) /\ r.keys # <<>>
    BY <1>0, <1>1 DEF FlushReply
  <2>2. Tail(r.keys) \in Seq(MailOf(u)) /\ Tail(r.keys) \in Seq(Message)
    <3>1. \A S : \A k \in Seq(S) : k # <<>> => Tail(k) \in Seq(S)  OBVIOUS
    <3> QED  BY <2>1, <3>1
  <2> QED  BY <2>1, <2>2, RelayAssumption DEF FlushReply
<1>3. q \in AnyReply /\ q.kind = "deleted" /\ \A k \in Message : q \notin LoopOf(k)
  BY <1>2, LoopKinds DEF AnyReply, LoopOf
<1>4. SeqSet(replies) = {r} \cup SeqSet(T)  BY <1>0, SetOfTail
<1>5. \A K : AtMostOne(replies, K) => AtMostOne(T, K)  BY <1>0, SoleOfTail
<1>6. r \notin QueueReply /\ \A d \in Delivery : ~WaitsIn(r, d) /\ (HeldBy(r, d) <=> d = <<u, m>>)
  BY <1>0, <1>1, LoopKinds DEF WaitsIn, HeldBy, Delivery
<1>7. q \notin QueueReply /\ \A d \in Delivery : ~WaitsIn(q, d) /\ ~HeldBy(q, d)
  BY <1>2, <1>3, LoopKinds DEF WaitsIn, HeldBy
<1>8. \A d \in Delivery : /\ d \in emitted' <=> d \in emitted \/ d = <<u, m>>
                          /\ InStore(d)' <=> InStore(d) /\ d # <<u, m>>
  <2>1. store \in [User -> SUBSET Message]  BY DEF TypeOK
  <2>2. \A d \in Delivery : d = <<d[1], d[2]>> /\ d[1] \in User  BY DEF Delivery
  <2> HIDE DEF r, u, m
  <2> QED  BY <1>0, <1>2, <2>1, <2>2 DEF InStore
<1> HIDE DEF r, T, q, u, m
<1>9. SeqSet(replies') = SeqSet(T) \cup {q}  BY <1>0, <1>1, <1>3, SetOfAppend
<1>10. KnownInv'
  <2>1. \A d \in Delivery : d = <<u, m>> => d[2] \in SeqSet(accepted)
    BY <1>4, <1>6 DEF MailInv, PlaceInv, KnownInv
  <2> QED  BY <1>0, <1>4, <1>7, <1>8, <1>9, <2>1 DEF MailInv, KnownInv
<1>11. LoopInv'
  <2>1. \A k \in Message : AtMostOne(replies', LoopOf(k))
    BY <1>0, <1>1, <1>3, <1>5, SoleOfAppend DEF MailInv, LoopInv
  <2> QED  BY <1>4, <1>7, <1>9, <2>1 DEF MailInv, LoopInv
<1>12. PlaceInv'
  <2>1. ASSUME NEW d \in Delivery, NEW x \in SeqSet(replies'), WaitsIn(x, d)
        PROVE  d \notin emitted' \cup expired' /\ ~InStore(d)'
    <3>1. x \in SeqSet(replies) /\ x # q  BY <1>4, <1>7, <1>9, <2>1
    <3>2. d \notin emitted \cup expired /\ ~InStore(d)  BY <2>1, <3>1 DEF MailInv, PlaceInv
    <3>3. d # <<u, m>>  BY <1>4, <1>6, <3>2 DEF MailInv, PlaceInv
    <3> QED  BY <1>0, <1>8, <3>2, <3>3
  <2>2. ASSUME NEW d \in Delivery, NEW x \in SeqSet(replies'), HeldBy(x, d)
        PROVE  d \in emitted' \cup expired' \/ InStore(d)'
    BY <1>0, <1>4, <1>7, <1>8, <1>9, <2>2 DEF MailInv, PlaceInv
  <2> QED  BY <2>1, <2>2 DEF PlaceInv
<1>13. ASSUME NEW d \in Delivery  PROVE Moves(d)
  <2>1. d \in Waiting' <=> d \in Waiting  BY <1>4, <1>6, <1>7, <1>9, PlacesByReply
  <2>2. CASE d = <<u, m>>
    <3>1. InHand(d)  BY <1>4, <1>6, <2>2, PlacesByReply
    <3>2. Fate(d) \in {"emitted", "stored"} /\ Fate(d)' = "emitted"
      BY <1>8, <2>2, <3>1 DEF Fate
    <3> QED  BY <3>2 DEF Moves, Box!Edge
  <2>3. CASE d # <<u, m>>
    <3>1. InHand(d)' <=> InHand(d)  BY <1>4, <1>6, <1>7, <1>9, <2>3, PlacesByReply
    <3>2. Fate(d)' = Fate(d)  BY <1>0, <1>8, <2>1, <2>3, <3>1 DEF Fate, InStore
    <3> QED  BY <3>2 DEF Moves
  <2> QED  BY <2>2, <2>3
<1> QED  BY <1>10, <1>11, <1>12, <1>13 DEF MailInv

LEMMA ExpireMail ==
    ASSUME TypeOK, MailInv, NEW u \in User, NEW m \in Message, Expire(u, m)
    PROVE  MailInv' /\ \A d \in Delivery : Moves(d)
<1>1. /\ m \in store[u] /\ store' = [store EXCEPT ![u] = @ \ {m}]
      /\ expired' = expired \cup {<<u, m>>} /\ UNCHANGED <<replies, accepted, emitted>>
  BY DEF Expire
<1>2. \A d \in Delivery : /\ d \in expired' <=> d \in expired \/ d = <<u, m>>
                          /\ InStore(d)' <=> InStore(d) /\ d # <<u, m>>
                          /\ d = <<u, m>> => InStore(d)
  <2>1. store \in [User -> SUBSET Message]  BY DEF TypeOK
  <2>2. \A d \in Delivery : d = <<d[1], d[2]>> /\ d[1] \in User  BY DEF Delivery
  <2> QED  BY <1>1, <2>1, <2>2 DEF InStore
<1>3. KnownInv' /\ LoopInv'
  BY <1>1, <1>2 DEF MailInv, KnownInv, LoopInv, AtMostOne
<1>4. PlaceInv'  BY <1>1, <1>2 DEF MailInv, PlaceInv
<1>5. \A d \in Delivery : (d \in Waiting' <=> d \in Waiting) /\ (InHand(d)' <=> InHand(d))
  BY <1>1, PlacesByReply
<1>6. ASSUME NEW d \in Delivery  PROVE Moves(d)
  <2>1. CASE d = <<u, m>>
    <3>1. Fate(d) \in {"emitted", "stored"}  BY <1>2, <2>1 DEF Fate, InStore
    <3>2. Fate(d)' = Fate(d) \/ (Fate(d) = "stored" /\ Fate(d)' = "expired")
      BY <1>1, <1>2, <1>5, <2>1, <3>1 DEF Fate, InStore
    <3> QED  BY <3>2 DEF Moves, Box!Edge
  <2>2. CASE d # <<u, m>>
    <3>1. Fate(d)' = Fate(d)  BY <1>1, <1>2, <1>5, <2>2 DEF Fate, InStore
    <3> QED  BY <3>1 DEF Moves
  <2> QED  BY <2>1, <2>2
<1> QED  BY <1>3, <1>4, <1>6 DEF MailInv

\* A flush goes on at the head of its loop, and reads the next value from the store.
LEMMA NextKeyMail ==
    ASSUME TypeOK, MailInv, replies # <<>>, Head(replies) \in FlushReply,
           Head(replies).kind = "value" => ~Head(replies).found,
           UNCHANGED <<emitted, expired, accepted, store>>,
           NEW s \in Socket, NEW keys \in Seq(MailOf(Owner[s])), keys \in Seq(Message),
           NextKey(s, keys, Tail(replies))
    PROVE  MailInv' /\ \A d \in Delivery : Moves(d)
<1>1. CASE keys = <<>>
  <2>1. replies' = Tail(replies)  BY <1>1 DEF NextKey
  <2> QED  BY <2>1, FlushTurn
<1>2. CASE keys # <<>>
  <2> DEFINE x == [kind |-> "value", socket |-> s, keys |-> keys, found |-> Head(keys) \in store[Owner[s]]]
  <2>1. replies' = Append(Tail(replies), x)  BY <1>2 DEF NextKey
  <2>2. x \in FlushReply  BY <1>2 DEF FlushReply
  <2>3. \A d : HeldBy(x, d) => InStore(d)  BY DEF HeldBy, InStore
  <2> HIDE DEF x
  <2> QED  BY <2>1, <2>2, <2>3, FlushTurn
<1> QED  BY <1>1, <1>2

LEMMA FlushMail ==
    ASSUME TypeOK, MailInv, FlushKeys \/ FlushMissing \/ FlushDeleted
    PROVE  MailInv' /\ \A d \in Delivery : Moves(d)
<1> DEFINE r == Head(replies)
<1>1. /\ replies # <<>> /\ r.kind \in {"keys", "value", "deleted"} /\ (r.kind = "value" => ~r.found)
      /\ UNCHANGED <<emitted, expired, accepted, store>>
  BY DEF FlushKeys, FlushMissing, FlushDeleted, Answered, historyVars
<1>2. r \in FlushReply  BY <1>1, HeadType
<1>3. r.socket \in Socket /\ r.keys \in Seq(MailOf(Owner[r.socket])) /\ r.keys \in Seq(Message)
      /\ (r.kind = "value" => r.keys # <<>>)
  BY <1>2 DEF FlushReply
<1>4. CASE FlushKeys
  <2>1. CASE r.keys = <<>>
    <3>1. replies' = Tail(replies)  BY <1>4, <2>1 DEF FlushKeys
    <3> QED  BY <1>1, <1>2, <3>1, FlushTurn
  <2>2. CASE r.keys # <<>>
    <3>1. NextKey(r.socket, r.keys, Tail(replies))  BY <1>4, <2>2 DEF FlushKeys
    <3> QED  BY <1>1, <1>2, <1>3, <3>1, NextKeyMail
  <2> QED  BY <2>1, <2>2
<1>5. CASE FlushMissing
  <2>1. NextKey(r.socket, Tail(r.keys), Tail(replies)) /\ r.keys # <<>>
    BY <1>3, <1>5 DEF FlushMissing, Answered
  <2>2. Tail(r.keys) \in Seq(MailOf(Owner[r.socket])) /\ Tail(r.keys) \in Seq(Message)
    <3>1. \A S : \A q \in Seq(S) : q # <<>> => Tail(q) \in Seq(S)  OBVIOUS
    <3> QED  BY <1>3, <2>1, <3>1
  <2> QED  BY <1>1, <1>2, <1>3, <2>1, <2>2, NextKeyMail
<1>6. CASE FlushDeleted
  <2>1. NextKey(r.socket, r.keys, Tail(replies))  BY <1>6 DEF FlushDeleted
  <2> QED  BY <1>1, <1>2, <1>3, <2>1, NextKeyMail
<1> QED  BY <1>4, <1>5, <1>6

\* A crash loses what a fan-out had still ahead, and nothing that was stored.
LEMMA RestartMail ==
    ASSUME TypeOK, MailInv, Restart
    PROVE  /\ MailInv'
           /\ \A d \in Delivery :
                 IF Fate(d) = "taken" THEN Fate(d)' = "lost"
                 ELSE Fate(d)' = Fate(d) \/ <<Fate(d), Fate(d)'>> = <<"stored", "expired">>
<1>1. replies' = <<>> /\ UNCHANGED <<emitted, expired, accepted, store>>  BY DEF Restart, redisVars
<1>2. SeqSet(replies') = {} /\ Len(replies') = 0  BY <1>1 DEF SeqSet
<1>3. \A d : InStore(d)' <=> InStore(d)  BY <1>1 DEF InStore
<1>4. MailInv'
  BY <1>1, <1>2, <1>3 DEF MailInv, KnownInv, LoopInv, PlaceInv, AtMostOne
<1>5. ASSUME NEW d \in Delivery
      PROVE  IF Fate(d) = "taken" THEN Fate(d)' = "lost"
             ELSE Fate(d)' = Fate(d) \/ <<Fate(d), Fate(d)'>> = <<"stored", "expired">>
  <2>1. d \notin Waiting' /\ ~InHand(d)'  BY <1>2, PlacesByReply
  <2>2. InHand(d) => d \in emitted \cup expired \/ InStore(d)
    BY PlacesByReply DEF MailInv, PlaceInv
  <2>3. d \in Waiting => d[2] \in SeqSet(accepted)
    <3>1. ASSUME NEW x \in SeqSet(replies), WaitsIn(x, d)  PROVE d[2] \in SeqSet(accepted)
      <4>1. x \in AnyReply  BY DEF TypeOK, AnyReply, SeqSet
      <4>2. x \in QueueReply  BY <3>1, <4>1, LoopKinds DEF AnyReply, WaitsIn
      <4> QED  BY <3>1, <4>2 DEF MailInv, KnownInv, WaitsIn
    <3> QED  BY <3>1, PlacesByReply
  <2> QED  BY <1>1, <2>1, <2>2, <2>3 DEF Fate, InStore
<1> QED  BY <1>4, <1>5

LEMMA MailStep ==
    ASSUME TypeOK, MailInv, [Next]_vars
    PROVE  MailInv' /\ ((\A d \in Delivery : Moves(d)) \/ Restart)
<1>1. ASSUME \/ \E u \in User : Login(u)
             \/ \E g \in Group : CreateGroup(g)
             \/ \E s \in Socket : Break(s) \/ Disconnect(s) \/ Receive(s)
             \/ UNCHANGED vars
      PROVE  MailInv' /\ \A d \in Delivery : Moves(d)
  <2>1. UNCHANGED <<emitted, expired, accepted, store, replies>>
    BY <1>1 DEF Login, CreateGroup, Break, Disconnect, Receive, vars, redisVars, historyVars
  <2> QED  BY <2>1, MailKept DEF Moves
<1>2. ASSUME NEW s \in Socket, Connect(s)  PROVE MailInv' /\ \A d \in Delivery : Moves(d)
  <2> DEFINE x == [kind |-> "keys", socket |-> s, keys |-> list[Owner[s]], found |-> FALSE]
  <2>1. UNCHANGED <<emitted, expired, accepted, store>> /\ replies' = Append(replies, x)
    BY <1>2 DEF Connect, redisVars
  <2>2. x \in FlushReply /\ x.kind # "value"  BY RelayAssumption DEF FlushReply, TypeOK
  <2> HIDE DEF x
  <2> QED  BY <2>1, <2>2, MailKept DEF Moves
<1>3. ASSUME NEW m \in Message, Send(m)  PROVE MailInv' /\ \A d \in Delivery : Moves(d)
  BY <1>3, SendMail
<1>4. ASSUME Reply  PROVE MailInv' /\ \A d \in Delivery : Moves(d)
  BY <1>4, QueueSetMail, QueuePushedMail, FlushMail, FlushFoundMail DEF Reply
<1>5. ASSUME NEW u \in User, NEW m \in Message, Expire(u, m)
      PROVE  MailInv' /\ \A d \in Delivery : Moves(d)
  BY <1>5, ExpireMail
<1>6. ASSUME Restart  PROVE MailInv'  BY <1>6, RestartMail
<1> QED  BY <1>1, <1>2, <1>3, <1>4, <1>5, <1>6 DEF Next

\* The inductive invariant under the mailbox: in every reachable state a delivery the server
\* has taken is in one place, with its fan-out, in the store or a flush's hand, or gone out.
THEOREM MailInvCorrect == Spec => []MailInv
<1> QED  BY MailInit, MailStep, RelayTypeCorrect, PTL DEF Spec

\* The server implements the mailbox: every turn of its event loop moves each delivery as
\* Mailbox allows or not at all, so that only a crash loses one, and none that was stored.
THEOREM RelayImplementsMailbox == Spec => ImplementsMailbox
<1>1. Init => Box!Init
  <2> SUFFICES ASSUME Init PROVE Box!Init  OBVIOUS
  <2>1. MailInv  BY MailInit
  <2>2. ASSUME NEW d \in Delivery  PROVE Fate(d) = "new"
    <3>1. SeqSet(replies) = {} /\ SeqSet(accepted) = {}  BY DEF Init, SeqSet
    <3>2. d \notin Waiting /\ ~InHand(d)  BY <3>1, PlacesByReply
    <3> QED  BY <3>1, <3>2 DEF Fate, Init, Delivery
  <2> QED  BY <2>2 DEF Box!Init
<1>2. TypeOK /\ MailInv /\ [Next]_vars => [Box!Next]_([d \in Delivery |-> Fate(d)])
  <2> SUFFICES ASSUME TypeOK, MailInv, [Next]_vars
               PROVE  Box!Next
    OBVIOUS
  <2>1. CASE \A d \in Delivery : Moves(d)
    <3>1. Box!Progress  BY <2>1 DEF Box!Progress, Moves
    <3> QED  BY <3>1 DEF Box!Next
  <2>2. CASE Restart
    <3>1. Box!Crash  BY <2>2, RestartMail DEF Box!Crash
    <3> QED  BY <3>1 DEF Box!Next
  <2> QED  BY <2>1, <2>2, MailStep
<1> QED  BY <1>1, <1>2, RelayTypeCorrect, MailInvCorrect, PTL DEF Spec, ImplementsMailbox, Box!Spec

-----------------------------------------------------------------------------
(* The order of a list.  A message for one user is pushed when its setex is answered, so *)
(* the list follows the order of the waiting continuations, and that the order of arrival. *)
IsDirect(m)  == GroupOf[m] = NoGroup
DirectSet(r) == r.kind = "set" /\ IsDirect(r.message)

OrderedSets(q) ==
    \A i, j \in 1..Len(q) :
        i < j /\ DirectSet(q[i]) /\ DirectSet(q[j]) => TakenBefore(q[i].message, q[j].message)

OrderedList(q) ==
    \A i, j \in 1..Len(q) : i < j /\ IsDirect(q[i]) /\ IsDirect(q[j]) => TakenBefore(q[i], q[j])

OrderInv ==
    /\ \A u \in User : SeqSet(list[u]) \subseteq SeqSet(accepted) /\ OrderedList(list[u])
    /\ \A r \in SeqSet(replies) : r \in QueueReply /\ IsDirect(r.message) => r.rest = <<>>
    /\ OrderedSets(replies)
    /\ \A r \in SeqSet(replies) : DirectSet(r) =>
          \A m \in SeqSet(list[r.user]) : IsDirect(m) => TakenBefore(m, r.message)

LEMMA OrderInit == Init => OrderInv
<1> SUFFICES ASSUME Init  PROVE OrderInv  OBVIOUS
<1>1. SeqSet(replies) = {} /\ Len(replies) = 0  BY DEF Init, SeqSet
<1>2. \A u \in User : SeqSet(list[u]) = {} /\ Len(list[u]) = 0  BY DEF Init, SeqSet
<1> QED  BY <1>1, <1>2 DEF OrderInv, OrderedSets, OrderedList

LEMMA OrderedTail ==
    ASSUME NEW S, NEW q \in Seq(S), q # <<>>, OrderedSets(q)
    PROVE  /\ OrderedSets(Tail(q))
           /\ DirectSet(Head(q)) =>
                 \A r \in SeqSet(Tail(q)) : DirectSet(r) => TakenBefore(Head(q).message, r.message)
<1>1. /\ Len(q) \in Nat \ {0} /\ Len(Tail(q)) = Len(q) - 1 /\ Head(q) = q[1] /\ 1 \in 1..Len(q)
      /\ \A i \in 1..Len(q) - 1 : i + 1 \in 1..Len(q) /\ Tail(q)[i] = q[i + 1] /\ 1 < i + 1
  OBVIOUS
<1>2. \A i, j \in 1..Len(q) : i < j /\ DirectSet(q[i]) /\ DirectSet(q[j]) => TakenBefore(q[i].message, q[j].message)
  BY DEF OrderedSets
<1>3. \A i, j \in 1..Len(q) - 1 : i < j => i + 1 < j + 1  OBVIOUS
<1>4. OrderedSets(Tail(q))  BY <1>1, <1>2, <1>3 DEF OrderedSets
<1>5. ASSUME DirectSet(Head(q)), NEW i \in 1..Len(q) - 1, DirectSet(Tail(q)[i])
      PROVE  TakenBefore(Head(q).message, Tail(q)[i].message)
  BY <1>1, <1>2, <1>5
<1> QED  BY <1>1, <1>4, <1>5 DEF SeqSet

LEMMA OrderedAppend ==
    ASSUME NEW S, NEW q \in Seq(S), NEW x \in S, OrderedSets(q),
           DirectSet(x) => \A r \in SeqSet(q) : DirectSet(r) => TakenBefore(r.message, x.message)
    PROVE  OrderedSets(Append(q, x))
<1>1. /\ Len(q) \in Nat /\ Len(Append(q, x)) = Len(q) + 1 /\ Append(q, x)[Len(q) + 1] = x
      /\ \A i \in 1..Len(q) : Append(q, x)[i] = q[i]
      /\ \A i, j \in 1..(Len(q) + 1) : i < j => i \in 1..Len(q) /\ (j \in 1..Len(q) \/ j = Len(q) + 1)
  OBVIOUS
<1>2. \A i, j \in 1..Len(q) : i < j /\ DirectSet(q[i]) /\ DirectSet(q[j]) => TakenBefore(q[i].message, q[j].message)
  BY DEF OrderedSets
<1>3. DirectSet(x) => \A i \in 1..Len(q) : DirectSet(q[i]) => TakenBefore(q[i].message, x.message)
  BY DEF SeqSet
<1> QED  BY <1>1, <1>2, <1>3 DEF OrderedSets

LEMMA ListAppend ==
    ASSUME NEW q \in Seq(Message), NEW m \in Message, OrderedList(q),
           IsDirect(m) => \A k \in SeqSet(q) : IsDirect(k) => TakenBefore(k, m)
    PROVE  OrderedList(Append(q, m))
<1>1. /\ Len(q) \in Nat /\ Len(Append(q, m)) = Len(q) + 1 /\ Append(q, m)[Len(q) + 1] = m
      /\ \A i \in 1..Len(q) : Append(q, m)[i] = q[i]
      /\ \A i, j \in 1..(Len(q) + 1) : i < j => i \in 1..Len(q) /\ (j \in 1..Len(q) \/ j = Len(q) + 1)
  OBVIOUS
<1>2. \A i, j \in 1..Len(q) : i < j /\ IsDirect(q[i]) /\ IsDirect(q[j]) => TakenBefore(q[i], q[j])
  BY DEF OrderedList
<1>3. IsDirect(m) => \A i \in 1..Len(q) : IsDirect(q[i]) => TakenBefore(q[i], m)
  BY DEF SeqSet
<1> QED  BY <1>1, <1>2, <1>3 DEF OrderedList

\* A turn that neither takes a message nor pushes one: continuations go and others come,
\* none of them a setex for one user, and a list is at most emptied.
LEMMA OrderTurn ==
    ASSUME TypeOK, OrderInv, UNCHANGED accepted,
           NEW waiting \in Seq(AnyReply), OrderedSets(waiting),
           SeqSet(waiting) \subseteq SeqSet(replies),
           \/ replies' = waiting
           \/ \E x \in AnyReply : /\ replies' = Append(waiting, x) /\ ~DirectSet(x)
                                  /\ x \in QueueReply /\ IsDirect(x.message) => x.rest = <<>>,
           \A u \in User : list'[u] \in {list[u], <<>>}
    PROVE  OrderInv'
<1>1. \A u \in User : SeqSet(list'[u]) \subseteq SeqSet(list[u]) /\ OrderedList(list'[u])
  <2>1. SeqSet(<<>>) = {} /\ Len(<<>>) = 0  BY DEF SeqSet
  <2> QED  BY <2>1 DEF OrderInv, OrderedList
<1>2. \A m, k : TakenBefore(m, k)' <=> TakenBefore(m, k)  BY DEF TakenBefore
<1>3. /\ OrderedSets(replies')
      /\ \A r \in SeqSet(replies') : r \in SeqSet(replies) \/
           (~DirectSet(r) /\ (r \in QueueReply /\ IsDirect(r.message) => r.rest = <<>>))
  <2>1. CASE replies' = waiting  BY <2>1
  <2>2. ASSUME NEW x \in AnyReply, replies' = Append(waiting, x), ~DirectSet(x),
               x \in QueueReply /\ IsDirect(x.message) => x.rest = <<>>
        PROVE  /\ OrderedSets(replies')
               /\ \A r \in SeqSet(replies') : r \in SeqSet(replies) \/
                    (~DirectSet(r) /\ (r \in QueueReply /\ IsDirect(r.message) => r.rest = <<>>))
    BY <2>2, OrderedAppend, SetOfAppend
  <2> QED  BY <2>1, <2>2
<1>4. OrderedSets(replies)'  BY <1>2, <1>3 DEF OrderedSets
<1>5. \A u \in User : OrderedList(list[u])'  BY <1>1, <1>2 DEF OrderedList
<1>6. \A r \in AnyReply : DirectSet(r) => r.user \in User
  BY LoopKinds DEF AnyReply, DirectSet, QueueReply
<1>7. \A r \in SeqSet(replies) : r \in AnyReply  BY DEF TypeOK, AnyReply, SeqSet
<1>8. \A r \in SeqSet(replies') : DirectSet(r) =>
         \A m \in SeqSet(list'[r.user]) : IsDirect(m) => TakenBefore(m, r.message)
  BY <1>1, <1>3, <1>6, <1>7 DEF OrderInv
<1> QED  BY <1>1, <1>2, <1>3, <1>4, <1>5, <1>8 DEF OrderInv

LEMMA OrderStep ==
    ASSUME TypeOK, MailInv, OrderInv, [Next]_vars
    PROVE  OrderInv'
<1> DEFINE r == Head(replies)
           T == Tail(replies)
<1>0. replies \in Seq(AnyReply) /\ OrderedSets(replies) /\ accepted \in Seq(Message)
  BY DEF TypeOK, AnyReply, OrderInv
<1>h. replies # <<>> => /\ T \in Seq(AnyReply) /\ SeqSet(replies) = {r} \cup SeqSet(T)
                        /\ OrderedSets(T)
  BY <1>0, SetOfTail, OrderedTail
<1>1. ASSUME \/ \E u \in User : Login(u)
             \/ \E g \in Group : CreateGroup(g)
             \/ \E s \in Socket : Break(s) \/ Disconnect(s) \/ Receive(s)
             \/ \E u \in User, m \in Message : Expire(u, m)
             \/ UNCHANGED vars
      PROVE  OrderInv'
  <2>1. UNCHANGED <<accepted, list, replies>>
    BY <1>1 DEF Login, CreateGroup, Break, Disconnect, Receive, Expire, vars, redisVars, historyVars
  <2> QED  BY <1>0, <2>1, OrderTurn
<1>2. ASSUME NEW s \in Socket, Connect(s)  PROVE OrderInv'
  <2> DEFINE x == [kind |-> "keys", socket |-> s, keys |-> list[Owner[s]], found |-> FALSE]
  <2>1. UNCHANGED <<accepted, list>> /\ replies' = Append(replies, x)  BY <1>2 DEF Connect, redisVars
  <2>2. x \in FlushReply  BY RelayAssumption DEF FlushReply, TypeOK
  <2>3. x \in AnyReply /\ ~DirectSet(x) /\ x \notin QueueReply  BY <2>2, LoopKinds DEF AnyReply, DirectSet
  <2> HIDE DEF x
  <2> QED  BY <1>0, <2>1, <2>3, OrderTurn
<1>3. ASSUME NEW m \in Message, Send(m), GroupOf[m] \in groups \cup {NoGroup}  PROVE OrderInv'
  <2>1. FanOut(m, To[m], replies) /\ accepted' = Append(accepted, m) /\ UNCHANGED list  BY <1>3 DEF Send
  <2>2. To[m] \in Seq(Addressees(m)) /\ Distinct(To[m]) /\ (IsDirect(m) => Len(To[m]) = 1)
    BY AddresseesType, RelayAssumption DEF Distinct, IsDirect
  <2>3. SeqSet(accepted') = SeqSet(accepted) \cup {m}  BY <1>0, <2>1, SetOfAppend
  <2>4. /\ \A k, l : TakenBefore(k, l) => TakenBefore(k, l)'
        /\ \A k \in SeqSet(accepted) : TakenBefore(k, m)'
    <3>1. /\ Len(accepted) \in Nat /\ Len(accepted') = Len(accepted) + 1 /\ accepted'[Len(accepted) + 1] = m
          /\ \A i \in 1..Len(accepted) : accepted'[i] = accepted[i] /\ i < Len(accepted) + 1
                                         /\ i \in 1..Len(accepted')
          /\ Len(accepted) + 1 \in 1..Len(accepted')
      BY <1>0, <2>1
    <3>2. \A k, l : TakenBefore(k, l) => TakenBefore(k, l)'  BY <3>1 DEF TakenBefore
    <3>3. ASSUME NEW k \in SeqSet(accepted)  PROVE TakenBefore(k, m)'
      <4>1. PICK i \in 1..Len(accepted) : accepted[i] = k  BY DEF SeqSet
      <4> QED  BY <3>1, <4>1 DEF TakenBefore
    <3> QED  BY <3>2, <3>3
  <2>5. PICK left : LoopLeaves(m, To[m], replies, left)  BY <1>0, <2>1, <2>2, FanOutMoves
  <2>6. \/ left = {} /\ replies' = replies
        \/ \E x \in LoopOf(m) : /\ left = {x} /\ replies' = Append(replies, x)
                                /\ IsDirect(m) => x.rest = <<>>
    BY <2>2, <2>5 DEF LoopLeaves
  <2>7. SeqSet(replies') = SeqSet(replies) \cup left
    <3>1. ASSUME NEW x \in LoopOf(m), left = {x}, replies' = Append(replies, x)
          PROVE  SeqSet(replies') = SeqSet(replies) \cup left
      <4>1. x \in AnyReply  BY DEF LoopOf, AnyReply
      <4> QED  BY <1>0, <3>1, <4>1, SetOfAppend
    <3> QED  BY <2>6, <3>1
  <2>8. \A x \in left : x \in QueueReply /\ x.message = m /\ (IsDirect(m) => x.rest = <<>>)
    BY <2>6 DEF LoopOf
  <2>9. \A x \in SeqSet(replies) : DirectSet(x) => x \in QueueReply /\ x.message \in SeqSet(accepted)
    <3>1. \A x \in SeqSet(replies) : x \in AnyReply  BY <1>0 DEF SeqSet
    <3>2. \A x \in SeqSet(replies) : DirectSet(x) => x \in QueueReply
      BY <3>1, LoopKinds DEF AnyReply, DirectSet
    <3> QED  BY <3>2 DEF MailInv, KnownInv
  <2> DEFINE Before(k, l) == \E i, j \in 1..Len(accepted') : i < j /\ accepted'[i] = k /\ accepted'[j] = l
  <2>b. \A k, l : Before(k, l) <=> TakenBefore(k, l)'  BY DEF TakenBefore
  <2>10. OrderedSets(replies)'
    <3>1. OrderedSets(replies)' <=> \A i, j \in 1..Len(replies') :
             i < j /\ DirectSet(replies'[i]) /\ DirectSet(replies'[j])
                => Before(replies'[i].message, replies'[j].message)
      BY DEF OrderedSets, TakenBefore
    <3> HIDE DEF Before
    <3>2. \A i, j \in 1..Len(replies) : i < j /\ DirectSet(replies[i]) /\ DirectSet(replies[j])
             => Before(replies[i].message, replies[j].message)
      BY <1>0, <2>4, <2>b DEF OrderedSets
    <3>3. CASE replies' = replies  BY <3>1, <3>2, <3>3
    <3>4. ASSUME NEW x \in LoopOf(m), replies' = Append(replies, x)
          PROVE  OrderedSets(replies)'
      <4>1. x \in AnyReply /\ x.message = m  BY DEF LoopOf, AnyReply
      <4>2. /\ Len(replies) \in Nat /\ Len(replies') = Len(replies) + 1 /\ replies'[Len(replies) + 1] = x
            /\ \A i \in 1..Len(replies) : replies'[i] = replies[i]
            /\ \A i, j \in 1..(Len(replies) + 1) : i < j =>
                  i \in 1..Len(replies) /\ (j \in 1..Len(replies) \/ j = Len(replies) + 1)
        BY <1>0, <3>4, <4>1
      <4>3. \A i \in 1..Len(replies) : DirectSet(replies[i]) => Before(replies[i].message, m)
        BY <2>4, <2>9, <2>b DEF SeqSet
      <4> QED  BY <3>1, <3>2, <4>1, <4>2, <4>3
    <3> QED  BY <2>6, <3>3, <3>4
  <2>11. \A u \in User : OrderedList(list[u])'  BY <2>1, <2>4 DEF OrderInv, OrderedList
  <2>12. \A x \in SeqSet(replies') : DirectSet(x) =>
            \A k \in SeqSet(list[x.user]) : IsDirect(k) => TakenBefore(k, x.message)'
    <3>1. ASSUME NEW x \in left, NEW k \in SeqSet(list[x.user])  PROVE TakenBefore(k, x.message)'
      <4>1. x.user \in User  BY <2>8 DEF QueueReply
      <4> QED  BY <2>4, <2>8, <3>1, <4>1 DEF OrderInv
    <3> QED  BY <2>4, <2>7, <3>1 DEF OrderInv
  <2> QED  BY <2>1, <2>3, <2>7, <2>8, <2>10, <2>11, <2>12 DEF OrderInv
<1>4. ASSUME NEW m \in Message, Send(m), GroupOf[m] \notin groups \cup {NoGroup}  PROVE OrderInv'
  <2>1. UNCHANGED <<accepted, list, replies>>  BY <1>4 DEF Send
  <2> QED  BY <1>0, <2>1, OrderTurn
<1>5. ASSUME QueueSet  PROVE OrderInv'
  <2> DEFINE q == [r EXCEPT !.kind = "pushed"]
             u == r.user
             m == r.message
  <2>0. replies # <<>> /\ r.kind = "set" /\ replies' = Append(T, q) /\ UNCHANGED accepted
        /\ list' = [list EXCEPT ![u] = Append(@, m)]
    BY <1>5 DEF QueueSet, Answered, historyVars
  <2>1. r \in QueueReply /\ T \in Seq(AnyReply)  BY <2>0, HeadType
  <2>2. q \in QueueReply /\ q.kind = "pushed" /\ q.message = m /\ q.rest = r.rest /\ u \in User /\ m \in Message
    <3>1. u \in User /\ m \in Message  BY <2>1 DEF QueueReply
    <3>2. q \in QueueReply /\ q.kind = "pushed" /\ q.message = m /\ q.rest = r.rest
      BY <2>0, <2>1 DEF QueueReply
    <3> QED  BY <3>1, <3>2
  <2>3. q \in AnyReply /\ ~DirectSet(q)  BY <2>2 DEF AnyReply, DirectSet
  <2>4. r \in SeqSet(replies) /\ (DirectSet(r) <=> IsDirect(m))  BY <1>h, <2>0 DEF DirectSet
  <2>5. IsDirect(m) => /\ \A k \in SeqSet(list[u]) : IsDirect(k) => TakenBefore(k, m)
                       /\ \A x \in SeqSet(T) : DirectSet(x) => TakenBefore(m, x.message)
    BY <1>0, <2>0, <2>4, OrderedTail DEF OrderInv
  <2>6. IsDirect(m) => r.rest = <<>>  BY <2>1, <2>4 DEF OrderInv
  <2>7. m \in SeqSet(accepted)  BY <2>1, <2>4 DEF MailInv, KnownInv
  <2>l. list \in [User -> Seq(Message)]  BY DEF TypeOK
  <2> HIDE DEF q, r, T, u, m
  <2>8. SeqSet(replies') = SeqSet(T) \cup {q}  BY <2>0, <2>1, <2>3, SetOfAppend
  <2>9. OrderedSets(replies')  BY <1>h, <2>0, <2>1, <2>3, OrderedAppend
  <2>10. \A v \in User : list'[v] = IF v = u THEN Append(list[u], m) ELSE list[v]  BY <2>0, <2>2, <2>l
  <2>11. SeqSet(Append(list[u], m)) = SeqSet(list[u]) \cup {m} /\ OrderedList(Append(list[u], m))
    <3>1. list[u] \in Seq(Message) /\ OrderedList(list[u])  BY <2>2, <2>l DEF OrderInv
    <3> QED  BY <2>2, <2>5, <3>1, ListAppend, SetOfAppend
  <2>12. \A k, l : TakenBefore(k, l)' <=> TakenBefore(k, l)  BY <2>0 DEF TakenBefore
  <2>13. OrderedSets(replies)' /\ \A v \in User : OrderedList(list[v])'
    <3>1. OrderedSets(replies)'  BY <2>9, <2>12 DEF OrderedSets
    <3>2. \A v \in User : OrderedList(list'[v])  BY <2>10, <2>11 DEF OrderInv
    <3>3. \A v \in User : OrderedList(list[v])'  BY <2>12, <3>2 DEF OrderedList
    <3> QED  BY <3>1, <3>3
  <2>14. \A v \in User : SeqSet(list'[v]) \subseteq SeqSet(accepted)
    BY <2>7, <2>10, <2>11 DEF OrderInv
  <2>15. \A x \in SeqSet(T) : DirectSet(x) => x.user \in User
    <3>1. \A x \in SeqSet(T) : x \in AnyReply  BY <2>1 DEF SeqSet
    <3>2. \A x \in QueueReply : x.user \in User  BY DEF QueueReply
    <3> QED  BY <3>1, <3>2, LoopKinds DEF AnyReply, DirectSet
  <2>16. \A x \in SeqSet(replies') : DirectSet(x) =>
            \A k \in SeqSet(list'[x.user]) : IsDirect(k) => TakenBefore(k, x.message)
    <3> TAKE x \in SeqSet(replies')
    <3> HAVE DirectSet(x)
    <3>1. x \in SeqSet(T) /\ x \in SeqSet(replies) /\ x.user \in User
      BY <1>h, <2>0, <2>3, <2>8, <2>15
    <3> TAKE k \in SeqSet(list'[x.user])
    <3> HAVE IsDirect(k)
    <3>2. CASE k \in SeqSet(list[x.user])  BY <3>1, <3>2 DEF OrderInv
    <3>3. CASE k \notin SeqSet(list[x.user])
      <4>1. k = m  BY <2>10, <2>11, <3>1, <3>3
      <4> QED  BY <2>5, <3>1, <4>1
    <3> QED  BY <3>2, <3>3
  <2>17. \A x \in SeqSet(replies') : x \in QueueReply /\ IsDirect(x.message) => x.rest = <<>>
    BY <1>h, <2>0, <2>2, <2>6, <2>8 DEF OrderInv
  <2> QED  BY <2>0, <2>12, <2>13, <2>14, <2>16, <2>17 DEF OrderInv
<1>6. ASSUME QueuePushed  PROVE OrderInv'
  <2> DEFINE m == r.message
  <2>0. replies # <<>> /\ r.kind = "pushed" /\ FanOut(m, r.rest, T) /\ UNCHANGED <<accepted, list>>
    BY <1>6 DEF QueuePushed, Answered
  <2>1. r \in QueueReply  BY <2>0, HeadType
  <2>2. m \in Message /\ r.rest \in Seq(Addressees(m))  BY <2>1 DEF QueueReply
  <2>3. r \in SeqSet(replies)  BY <1>h, <2>0
  <2>4. Distinct(r.rest) /\ (IsDirect(m) => r.rest = <<>>)  BY <2>1, <2>3 DEF MailInv, LoopInv, OrderInv
  <2> HIDE DEF r, T, m
  <2>5. PICK left : LoopLeaves(m, r.rest, T, left)  BY <1>h, <2>0, <2>2, <2>4, FanOutMoves
  <2>6. \/ replies' = T
        \/ \E x \in LoopOf(m) : replies' = Append(T, x) /\ ~IsDirect(m)
    BY <2>4, <2>5 DEF LoopLeaves
  <2>7. \A x \in LoopOf(m) : x \in AnyReply /\ x.message = m  BY DEF LoopOf, AnyReply
  <2>8. \/ replies' = T
        \/ \E x \in AnyReply : /\ replies' = Append(T, x) /\ ~DirectSet(x)
                               /\ x \in QueueReply /\ IsDirect(x.message) => x.rest = <<>>
    BY <2>6, <2>7 DEF DirectSet
  <2> QED  BY <1>h, <2>0, <2>8, OrderTurn
<1>7. ASSUME FlushKeys \/ FlushMissing \/ FlushDeleted \/ FlushFound  PROVE OrderInv'
  <2>0. replies # <<>> /\ UNCHANGED accepted /\ r.kind \in {"keys", "value", "deleted"}
    BY <1>7 DEF FlushKeys, FlushMissing, FlushDeleted, FlushFound, Answered, historyVars
  <2>l. list \in [User -> Seq(Message)]  BY DEF TypeOK
  <2>1. \A u \in User : list'[u] \in {list[u], <<>>}
    BY <1>7, <2>l DEF FlushKeys, FlushMissing, FlushDeleted, FlushFound, NextKey
  <2>2. \/ replies' = T
        \/ \E x : replies' = Append(T, x) /\ x.kind \in {"value", "deleted"}
    BY <1>7 DEF FlushKeys, FlushMissing, FlushDeleted, FlushFound, NextKey
  <2>3. TypeOK'  BY <1>7, ReplyStep DEF Reply
  <2>4. ASSUME NEW x, replies' = Append(T, x), x.kind \in {"value", "deleted"}
        PROVE  OrderInv'
    <3>1. x \in AnyReply
      <4>1. replies' \in Seq(AnyReply) /\ T \in Seq(AnyReply)  BY <1>h, <2>0, <2>3 DEF TypeOK, AnyReply
      <4> HIDE DEF T
      <4>2. Len(replies') = Len(T) + 1 /\ replies'[Len(T) + 1] = x /\ Len(T) + 1 \in 1..(Len(T) + 1)
        BY <2>4, <4>1
      <4> QED  BY <4>1, <4>2
    <3>2. x \notin QueueReply /\ ~DirectSet(x)  BY <2>4, LoopKinds DEF DirectSet
    <3> HIDE DEF T
    <3> QED  BY <1>h, <2>0, <2>1, <2>4, <3>1, <3>2, OrderTurn
  <2>5. CASE replies' = T  BY <1>h, <2>0, <2>1, <2>5, OrderTurn
  <2> QED  BY <2>2, <2>4, <2>5
<1>8. ASSUME Restart  PROVE OrderInv'
  <2>1. replies' = <<>> /\ UNCHANGED <<accepted, list>>  BY <1>8 DEF Restart, redisVars
  <2>2. OrderedSets(<<>>) /\ SeqSet(<<>>) = {} /\ <<>> \in Seq(AnyReply)  BY DEF OrderedSets, SeqSet
  <2> QED  BY <2>1, <2>2, OrderTurn
<1> QED  BY <1>1, <1>2, <1>3, <1>4, <1>5, <1>6, <1>7, <1>8 DEF Next, Reply

\* The order of a list is the order of arrival: it names the direct messages of a sender as
\* the server took them, however setex and rpush interleave.  (The order on a socket is not
\* kept: an emission during a flush overtakes what waits.)
THEOREM DirectOrderCorrect == Spec => []DirectKeepsOrder
<1>1. OrderInv => DirectKeepsOrder
  BY DEF OrderInv, OrderedList, DirectKeepsOrder, InOrder, IsDirect
<1>2. TypeOK /\ MailInv /\ OrderInv /\ [Next]_vars => OrderInv'  BY OrderStep
<1> QED  BY <1>1, <1>2, OrderInit, RelayTypeCorrect, MailInvCorrect, PTL DEF Spec

-----------------------------------------------------------------------------
(* Once per user.  A user of whom no two flushes ran at once has one flush in the air, and  *)
(* what was handed to one of their sockets is neither stored nor in the hand of that flush. *)
SoleFlush == \A u \in User \ overlapped : AtMostOne(replies, FlushesOf(u))

GoneInv ==
    \A d \in Delivery : d[1] \notin overlapped /\ d \in emitted =>
        ~InStore(d) /\ \A r \in SeqSet(replies) : ~HeldBy(r, d)

ReachInv ==
    /\ \A s \in Socket : \A i \in 1..Len(Reached(s)) : <<Owner[s], Reached(s)[i]>> \in emitted
    /\ \A s, t \in Socket : Owner[s] = Owner[t] /\ Owner[s] \notin overlapped =>
          \A i \in 1..Len(Reached(s)), j \in 1..Len(Reached(t)) :
             Reached(s)[i] = Reached(t)[j] => s = t /\ i = j

OnceInv == SoleFlush /\ GoneInv /\ ReachInv

LEMMA OnceInit == Init => OnceInv
<1> SUFFICES ASSUME Init  PROVE OnceInv  OBVIOUS
<1>1. Len(replies) = 0 /\ emitted = {}  BY DEF Init
<1>2. \A s \in Socket : Len(Reached(s)) = 0  BY DEF Init, Reached
<1> QED  BY <1>1, <1>2 DEF OnceInv, SoleFlush, GoneInv, ReachInv, AtMostOne

LEMMA ConcatAppend ==
    ASSUME NEW S, NEW q \in Seq(S), NEW p \in Seq(S), NEW x \in S
    PROVE  q \o Append(p, x) = Append(q \o p, x)
<1>1. q \o p \in Seq(S) /\ <<x>> \in Seq(S)  OBVIOUS
<1>2. Append(p, x) = p \o <<x>>  BY AppendIsConcat
<1>3. \A z \in Seq(S) : Append(z, x) = z \o <<x>>  BY AppendIsConcat
<1>4. (q \o p) \o <<x>> = q \o (p \o <<x>>)  BY <1>1, ConcatAssociative
<1> QED  BY <1>1, <1>2, <1>3, <1>4

LEMMA ConcatPrefix ==
    ASSUME NEW S, NEW p \in Seq(S), NEW q \in Seq(S)
    PROVE  /\ Len(p) \in Nat /\ Len(p \o q) \in Nat /\ Len(p) <= Len(p \o q)
           /\ \A i \in 1..Len(p) : (p \o q)[i] = p[i]
OBVIOUS

LEMMA ReachedType == TypeOK => \A s \in Socket : /\ Reached(s) \in Seq(MailOf(Owner[s]))
                                                 /\ Len(Reached(s)) = Len(got[s]) + Len(wire[s])
                                                 /\ Len(got[s]) \in Nat /\ Len(wire[s]) \in Nat
                                                 /\ got[s] \in Seq(Message) /\ wire[s] \in Seq(Message)
                                                 /\ Reached(s) \in Seq(Message)
<1> SUFFICES ASSUME TypeOK, NEW s \in Socket
             PROVE  /\ Reached(s) \in Seq(MailOf(Owner[s]))
                    /\ Len(Reached(s)) = Len(got[s]) + Len(wire[s])
                    /\ Len(got[s]) \in Nat /\ Len(wire[s]) \in Nat
                    /\ got[s] \in Seq(Message) /\ wire[s] \in Seq(Message)
                    /\ Reached(s) \in Seq(Message)
  OBVIOUS
<1>1. got[s] \in Seq(MailOf(Owner[s])) /\ wire[s] \in Seq(MailOf(Owner[s]))
      /\ got[s] \in Seq(Message) /\ wire[s] \in Seq(Message)
  BY DEF TypeOK
<1> QED  BY <1>1 DEF Reached

\* What the client loses with its connection is all that a turn may take from it.
LEMMA ReachShrinks ==
    ASSUME ReachInv, emitted \subseteq emitted', overlapped \subseteq overlapped',
           \A s \in Socket : /\ Len(Reached(s)') \in Nat /\ Len(Reached(s)) \in Nat
                             /\ Len(Reached(s)') <= Len(Reached(s))
                             /\ \A i \in 1..Len(Reached(s)') : Reached(s)'[i] = Reached(s)[i]
    PROVE  ReachInv'
<1>1. \A s \in Socket : \A i \in 1..Len(Reached(s)') : i \in 1..Len(Reached(s))  OBVIOUS
<1>2. \A s \in Socket : \A i \in 1..Len(Reached(s)') : <<Owner[s], Reached(s)'[i]>> \in emitted'
  BY <1>1 DEF ReachInv
<1>3. ASSUME NEW s \in Socket, NEW t \in Socket, Owner[s] = Owner[t], Owner[s] \notin overlapped',
             NEW i \in 1..Len(Reached(s)'), NEW j \in 1..Len(Reached(t)'),
             Reached(s)'[i] = Reached(t)'[j]
      PROVE  s = t /\ i = j
  <2>1. i \in 1..Len(Reached(s)) /\ j \in 1..Len(Reached(t)) /\ Owner[s] \notin overlapped
        /\ Reached(s)[i] = Reached(t)[j]
    BY <1>1, <1>3
  <2> QED  BY <1>3, <2>1 DEF ReachInv
<1> QED  BY <1>2, <1>3 DEF ReachInv

\* A message emitted to at most one socket of a user who had not been handed it.
LEMMA ReachGrows ==
    ASSUME TypeOK, ReachInv, NEW m \in Message, NEW sockets, Emit(sockets, m),
           UNCHANGED <<got, overlapped>>, emitted \subseteq emitted',
           \A s \in sockets \cap Socket :
              /\ <<Owner[s], m>> \in emitted'
              /\ Owner[s] \notin overlapped => <<Owner[s], m>> \notin emitted,
           \A s, t \in sockets \cap Socket : Owner[s] = Owner[t] => s = t
    PROVE  ReachInv'
<1> DEFINE Gets(s) == s \in sockets /\ phase[s] = "open"
<1>1. \A s \in Socket : Reached(s)' = IF Gets(s) THEN Append(Reached(s), m) ELSE Reached(s)
  <2> TAKE s \in Socket
  <2>1. got[s] \in Seq(Message) /\ wire[s] \in Seq(Message)  BY ReachedType
  <2>2. wire'[s] = IF Gets(s) THEN Append(wire[s], m) ELSE wire[s]  BY DEF Emit
  <2>3. got[s] \o Append(wire[s], m) = Append(got[s] \o wire[s], m)
    <3>1. \A p, q \in Seq(Message) : q \o Append(p, m) = Append(q \o p, m)  BY ConcatAppend
    <3> QED  BY <2>1, <3>1
  <2> QED  BY <2>2, <2>3 DEF Reached
<1>2. \A s \in Socket : /\ Len(Reached(s)) \in Nat
                        /\ Gets(s) => /\ Len(Reached(s)') = Len(Reached(s)) + 1
                                      /\ Reached(s)'[Len(Reached(s)) + 1] = m
                                      /\ \A i \in 1..Len(Reached(s)) : Reached(s)'[i] = Reached(s)[i]
  BY <1>1, ReachedType
<1> HIDE DEF Gets
<1>3. \A s \in Socket : \A i \in 1..Len(Reached(s)') :
         \/ i \in 1..Len(Reached(s)) /\ Reached(s)'[i] = Reached(s)[i]
         \/ Gets(s) /\ i = Len(Reached(s)) + 1 /\ Reached(s)'[i] = m
  <2> TAKE s \in Socket
  <2>1. CASE Gets(s)
    <3>1. \A i \in 1..(Len(Reached(s)) + 1) : i \in 1..Len(Reached(s)) \/ i = Len(Reached(s)) + 1
      BY <1>2
    <3>2. Len(Reached(s)') = Len(Reached(s)) + 1  BY <1>2, <2>1
    <3> TAKE i \in 1..Len(Reached(s)')
    <3>3. CASE i \in 1..Len(Reached(s))  BY <1>2, <2>1, <3>3
    <3>4. CASE i = Len(Reached(s)) + 1  BY <1>2, <2>1, <3>4
    <3> QED  BY <3>1, <3>2, <3>3, <3>4
  <2>2. CASE ~Gets(s)
    <3>1. Reached(s)' = Reached(s)  BY <1>1, <2>2
    <3> QED  BY <3>1
  <2> QED  BY <2>1, <2>2
<1>4. \A s \in Socket : Gets(s) => s \in sockets \cap Socket  BY DEF Gets
<1>5. \A s \in Socket : \A i \in 1..Len(Reached(s)') : <<Owner[s], Reached(s)'[i]>> \in emitted'
  BY <1>3, <1>4 DEF ReachInv
<1>6. ASSUME NEW s \in Socket, NEW t \in Socket, Owner[s] = Owner[t], Owner[s] \notin overlapped,
             NEW i \in 1..Len(Reached(s)'), NEW j \in 1..Len(Reached(t)'),
             Reached(s)'[i] = Reached(t)'[j]
      PROVE  s = t /\ i = j
  <2>1. CASE i \in 1..Len(Reached(s)) /\ Reached(s)'[i] = Reached(s)[i]
    <3>1. CASE j \in 1..Len(Reached(t)) /\ Reached(t)'[j] = Reached(t)[j]
      <4>1. Reached(s)[i] = Reached(t)[j]  BY <1>6, <2>1, <3>1
      <4> QED  BY <1>6, <2>1, <3>1, <4>1 DEF ReachInv
    <3>2. CASE Gets(t) /\ Reached(t)'[j] = m
      <4>1. <<Owner[s], m>> \in emitted  BY <1>6, <2>1, <3>2 DEF ReachInv
      <4> QED  BY <1>4, <1>6, <3>2, <4>1
    <3> QED  BY <1>3, <3>1, <3>2
  <2>2. CASE Gets(s) /\ i = Len(Reached(s)) + 1 /\ Reached(s)'[i] = m
    <3>1. CASE j \in 1..Len(Reached(t)) /\ Reached(t)'[j] = Reached(t)[j]
      <4>1. <<Owner[t], m>> \in emitted  BY <1>6, <2>2, <3>1 DEF ReachInv
      <4> QED  BY <1>4, <1>6, <2>2, <4>1
    <3>2. CASE Gets(t) /\ j = Len(Reached(t)) + 1  BY <1>4, <1>6, <2>2, <3>2
    <3> QED  BY <1>3, <3>1, <3>2
  <2> QED  BY <1>3, <2>1, <2>2
<1>7. \A s, t \in Socket : Owner[s] = Owner[t] /\ Owner[s] \notin overlapped' =>
          \A i \in 1..Len(Reached(s)'), j \in 1..Len(Reached(t)') :
             Reached(s)'[i] = Reached(t)'[j] => s = t /\ i = j
  BY <1>6
<1> QED  BY <1>5, <1>7 DEF ReachInv

LEMMA HeldByFlush ==
    TypeOK => \A r \in SeqSet(replies) : \A d : HeldBy(r, d) => r \in FlushesOf(d[1])
<1> SUFFICES ASSUME TypeOK, NEW r \in SeqSet(replies), NEW d, HeldBy(r, d)
             PROVE  r \in FlushesOf(d[1])
  OBVIOUS
<1>1. r \in AnyReply  BY DEF TypeOK, AnyReply, SeqSet
<1>2. r \in FlushReply  BY <1>1, LoopKinds DEF AnyReply, HeldBy, QueueReply
<1> QED  BY <1>2 DEF FlushesOf, HeldBy

\* A loop over recipients who have not been handed the message and have it nowhere.
LEMMA FanOutOnce ==
    ASSUME TypeOK, OnceInv, NEW m \in Message, NEW rest \in Seq(Addressees(m)), Distinct(rest),
           NEW waiting \in Seq(AnyReply), SeqSet(waiting) \subseteq SeqSet(replies),
           \A u \in User \ overlapped : AtMostOne(waiting, FlushesOf(u)),
           FanOut(m, rest, waiting), UNCHANGED <<got, overlapped>>,
           \A d \in Delivery : d[2] = m /\ d[1] \in SeqSet(rest) =>
              d \notin emitted /\ ~InStore(d) /\ \A r \in SeqSet(replies) : ~HeldBy(r, d)
    PROVE  OnceInv'
<1> DEFINE n       == Cardinality(LeadingPresent(rest))
           reached == {rest[i] : i \in 1..n}
           sockets == {active[u] : u \in reached}
<1>1. PICK left : LoopLeaves(m, rest, waiting, left)  BY FanOutMoves
<1>2. n \in 0..Len(rest) /\ Len(rest) \in Nat  BY LeadingType
<1>3. Emit(sockets, m) /\ emitted' = emitted \cup (reached \X {m})  BY DEF FanOut
<1> HIDE DEF n
<1>4. reached \subseteq SeqSet(rest) /\ SeqSet(rest) \subseteq Addressees(m)  BY <1>2 DEF SeqSet
<1>5. \A u \in reached : u \in User /\ <<u, m>> \in Delivery
  BY <1>4, AddresseesType DEF Delivery, MailOf
<1>6. \A u \in reached : active[u] \in Socket => Owner[active[u]] = u
  BY <1>5, RelayAssumption DEF TypeOK, SocketsOf
<1>7. ReachInv'
  <2>1. \A s \in sockets \cap Socket : Owner[s] \in reached /\ s = active[Owner[s]]  BY <1>6
  <2>2. \A s \in sockets \cap Socket : <<Owner[s], m>> \in emitted' /\ <<Owner[s], m>> \notin emitted
    BY <1>3, <1>4, <1>5, <2>1
  <2> HIDE DEF sockets, reached
  <2>3. \A s, t \in sockets \cap Socket : Owner[s] = Owner[t] => s = t  BY <2>1
  <2>4. emitted \subseteq emitted'  BY <1>3
  <2> QED  BY <1>3, <2>2, <2>3, <2>4, ReachGrows DEF OnceInv
<1>8. /\ SeqSet(replies') = SeqSet(waiting) \cup left
      /\ \A x \in left : x \in QueueReply /\ \A d : ~HeldBy(x, d)
      /\ \A u \in User \ overlapped : AtMostOne(replies', FlushesOf(u))
  <2>1. CASE left = {} /\ replies' = waiting  BY <2>1
  <2>2. ASSUME NEW x \in LoopOf(m), left = {x}, replies' = Append(waiting, x)
        PROVE  /\ SeqSet(replies') = SeqSet(waiting) \cup left
               /\ \A y \in left : y \in QueueReply /\ \A d : ~HeldBy(y, d)
               /\ \A u \in User \ overlapped : AtMostOne(replies', FlushesOf(u))
    <3>1. x \in AnyReply /\ x \in QueueReply /\ \A u : x \notin FlushesOf(u)
      BY LoopKinds DEF LoopOf, AnyReply, FlushesOf
    <3>2. \A d : ~HeldBy(x, d)  BY <3>1 DEF QueueReply, HeldBy
    <3> QED  BY <2>2, <3>1, <3>2, SetOfAppend, SoleOfAppend
  <2> QED  BY <1>1, <2>1, <2>2 DEF LoopLeaves
<1>9. GoneInv'
  <2>1. ASSUME NEW d \in Delivery, d[1] \notin overlapped, d \in emitted'
        PROVE  ~InStore(d)' /\ \A r \in SeqSet(replies') : ~HeldBy(r, d)
    <3>1. CASE d[2] = m /\ d[1] \in SeqSet(rest)
      <4>1. ~InStore(d)'  BY <1>1, <2>1, <3>1 DEF LoopLeaves
      <4> QED  BY <1>8, <3>1, <4>1
    <3>2. CASE ~(d[2] = m /\ d[1] \in SeqSet(rest))
      <4>1. d \in emitted /\ (InStore(d)' <=> InStore(d))  BY <1>1, <2>1, <3>2 DEF LoopLeaves
      <4> QED  BY <1>8, <2>1, <4>1 DEF OnceInv, GoneInv
    <3> QED  BY <3>1, <3>2
  <2> QED  BY <2>1 DEF GoneInv
<1> QED  BY <1>7, <1>8, <1>9 DEF OnceInv, SoleFlush

\* A turn of the flush of user u that hands nothing over; so is the first of a connection.
LEMMA FlushOnce ==
    ASSUME TypeOK, OnceInv, UNCHANGED <<emitted, store, got, wire>>, overlapped \subseteq overlapped',
           NEW u \in User, NEW waiting \in Seq(AnyReply), SeqSet(waiting) \subseteq SeqSet(replies),
           \A v \in User \ overlapped' : AtMostOne(waiting, FlushesOf(v)),
           u \notin overlapped' => SeqSet(waiting) \cap FlushesOf(u) = {},
           \/ replies' = waiting
           \/ \E x \in FlushesOf(u) : /\ replies' = Append(waiting, x)
                                      /\ \A d \in Delivery : HeldBy(x, d) => InStore(d)
    PROVE  OnceInv'
<1>1. CASE replies' = waiting
  <2>1. SoleFlush'  BY <1>1 DEF SoleFlush
  <2>2. GoneInv'  BY <1>1 DEF OnceInv, GoneInv, InStore
  <2>3. \A s : Reached(s)' = Reached(s)  BY DEF Reached
  <2>4. ReachInv'  BY <2>3 DEF OnceInv, ReachInv
  <2> QED  BY <2>1, <2>2, <2>4 DEF OnceInv
<1>2. ASSUME NEW x \in FlushesOf(u), replies' = Append(waiting, x),
             \A d \in Delivery : HeldBy(x, d) => InStore(d)
      PROVE  OnceInv'
  <2>1. x \in AnyReply /\ \A v : v # u => x \notin FlushesOf(v)  BY DEF FlushesOf, AnyReply
  <2>2. SeqSet(replies') = SeqSet(waiting) \cup {x}  BY <1>2, <2>1, SetOfAppend
  <2>3. SoleFlush'
    <3>1. ASSUME NEW v \in User \ overlapped'  PROVE AtMostOne(replies', FlushesOf(v))
      <4>1. x \in FlushesOf(v) => SeqSet(waiting) \cap FlushesOf(v) = {}  BY <2>1
      <4> QED  BY <1>2, <2>1, <4>1, SoleOfAppend
    <3> QED  BY <3>1 DEF SoleFlush
  <2>4. GoneInv'  BY <1>2, <2>2 DEF OnceInv, GoneInv, InStore
  <2>5. \A s : Reached(s)' = Reached(s)  BY DEF Reached
  <2>6. ReachInv'  BY <2>5 DEF OnceInv, ReachInv
  <2> QED  BY <2>3, <2>4, <2>6 DEF OnceInv
<1> QED  BY <1>1, <1>2

LEMMA ReceiveOnce ==
    ASSUME TypeOK, OnceInv, NEW s \in Socket, Receive(s)
    PROVE  OnceInv'
<1>1. ASSUME NEW t \in Socket  PROVE Reached(t)' = Reached(t)
  <2>1. got[t] \in Seq(Message) /\ wire[t] \in Seq(Message)  BY ReachedType
  <2>2. CASE t # s  BY <2>2 DEF Receive, Reached, TypeOK
  <2>3. CASE t = s
    <3>1. wire[t] # <<>> /\ got'[t] = Append(got[t], Head(wire[t])) /\ wire'[t] = Tail(wire[t])
      BY <2>3 DEF Receive, TypeOK
    <3>2. \A p, q \in Seq(Message) : q # <<>> => Append(p, Head(q)) \o Tail(q) = p \o q
      <4> TAKE p, q \in Seq(Message)
      <4> HAVE q # <<>>
      <4> DEFINE left == Append(p, Head(q)) \o Tail(q)
      <4>1. Head(q) \in Message /\ Tail(q) \in Seq(Message) /\ Append(p, Head(q)) \in Seq(Message)
            /\ Len(Append(p, Head(q))) = Len(p) + 1 /\ Len(Tail(q)) = Len(q) - 1
            /\ Len(p) \in Nat /\ Len(q) \in Nat /\ Len(q) > 0
        BY HeadTailProperties, AppendProperties
      <4>2. left \in Seq(Message) /\ Len(left) = Len(p) + Len(q)
        BY <4>1, ConcatProperties
      <4>3. p \o q \in Seq(Message) /\ Len(p \o q) = Len(p) + Len(q)  BY ConcatProperties
      <4>4. \A i \in 1..Len(p) + Len(q) : left[i] = (p \o q)[i]
        <5> TAKE i \in 1..Len(p) + Len(q)
        <5>1. left[i] = IF i <= Len(p) + 1 THEN Append(p, Head(q))[i] ELSE Tail(q)[i - (Len(p) + 1)]
          BY <4>1, ConcatProperties
        <5>2. (p \o q)[i] = IF i <= Len(p) THEN p[i] ELSE q[i - Len(p)]  BY ConcatProperties
        <5>3. CASE i <= Len(p)  BY <4>1, <5>1, <5>2, <5>3
        <5>4. CASE i = Len(p) + 1  BY <4>1, <5>1, <5>2, <5>4
        <5>5. CASE i > Len(p) + 1
          <6>1. i - (Len(p) + 1) \in 1..Len(Tail(q)) /\ (i - (Len(p) + 1)) + 1 = i - Len(p)
            BY <4>1, <5>5
          <6>2. Tail(q)[i - (Len(p) + 1)] = q[i - Len(p)]  BY <6>1
          <6> QED  BY <4>1, <5>1, <5>2, <5>5, <6>2
        <5> QED  BY <4>1, <5>3, <5>4, <5>5
      <4> HIDE DEF left
      <4>5. left = p \o q  BY <4>2, <4>3, <4>4, SeqEqual
      <4> QED  BY <4>5 DEF left
    <3> QED  BY <2>1, <3>1, <3>2 DEF Reached
  <2> QED  BY <2>2, <2>3
<1>2. UNCHANGED <<emitted, store, replies, overlapped>>  BY DEF Receive, redisVars, historyVars
<1>3. SoleFlush' /\ GoneInv'  BY <1>2 DEF OnceInv, SoleFlush, GoneInv, InStore
<1>4. ReachInv'  BY <1>1, <1>2 DEF OnceInv, ReachInv
<1> QED  BY <1>3, <1>4 DEF OnceInv

LEMMA FlushFoundOnce ==
    ASSUME TypeOK, MailInv, OnceInv, FlushFound
    PROVE  OnceInv'
<1> DEFINE r == Head(replies)
           T == Tail(replies)
           u == Owner[r.socket]
           m == Head(r.keys)
           q == [kind |-> "deleted", socket |-> r.socket, keys |-> Tail(r.keys), found |-> FALSE]
           sockets == {r.socket}
<1>0. /\ replies \in Seq(AnyReply) /\ replies # <<>> /\ r.kind = "value" /\ r.found
      /\ Emit(sockets, m) /\ emitted' = emitted \cup {<<u, m>>}
      /\ store' = [store EXCEPT ![u] = @ \ {m}]
      /\ replies' = Append(T, q) /\ UNCHANGED <<got, overlapped>>
  BY DEF TypeOK, AnyReply, FlushFound, Answered
<1>1. r \in FlushReply /\ T \in Seq(AnyReply)  BY <1>0, HeadType
<1>2. r.socket \in Socket /\ r.keys \in Seq(MailOf(u)) /\ r.keys # <<>>
  BY <1>0, <1>1 DEF FlushReply
<1>3. u \in User /\ m \in MailOf(u) /\ m \in Message /\ <<u, m>> \in Delivery
  <2>1. u \in User /\ m \in MailOf(u)  BY <1>2, RelayAssumption
  <2> QED  BY <2>1 DEF MailOf, Delivery
<1>4. SeqSet(replies) = {r} \cup SeqSet(T)  BY <1>0, SetOfTail
<1>5. \A K : AtMostOne(replies, K) => AtMostOne(T, K) /\ (r \in K => SeqSet(T) \cap K = {})
  BY <1>0, SoleOfTail
<1>6. r \in FlushesOf(u) /\ HeldBy(r, <<u, m>>)  BY <1>0, <1>1 DEF FlushesOf, HeldBy
<1>7. q.kind = "deleted" /\ \A d : ~HeldBy(q, d)  BY DEF HeldBy
<1>8. TypeOK'  BY ReplyStep DEF Reply
<1>s. \A d \in Delivery : InStore(d)' <=> InStore(d) /\ d # <<u, m>>
  <2>1. store \in [User -> SUBSET Message]  BY DEF TypeOK
  <2>2. \A d \in Delivery : d = <<d[1], d[2]>> /\ d[1] \in User  BY DEF Delivery
  <2> HIDE DEF r, u, m
  <2> QED  BY <1>0, <1>3, <2>1, <2>2 DEF InStore
<1> HIDE DEF T, q, m
<1>9. q \in AnyReply
  <2>1. replies' \in Seq(AnyReply)  BY <1>8 DEF TypeOK, AnyReply
  <2>2. Len(replies') = Len(T) + 1 /\ replies'[Len(T) + 1] = q /\ Len(T) + 1 \in 1..(Len(T) + 1)
    BY <1>0, <1>1
  <2> QED  BY <2>1, <2>2
<1>10. SeqSet(replies') = SeqSet(T) \cup {q}  BY <1>0, <1>1, <1>9, SetOfAppend
<1>11. \A v : q \in FlushesOf(v) => v = u  BY DEF FlushesOf, q
<1>12. u \notin overlapped => SeqSet(T) \cap FlushesOf(u) = {}
  BY <1>3, <1>5, <1>6 DEF OnceInv, SoleFlush
<1>13. SoleFlush'
  <2>1. ASSUME NEW v \in User \ overlapped  PROVE AtMostOne(replies', FlushesOf(v))
    <3>1. AtMostOne(T, FlushesOf(v))  BY <1>5 DEF OnceInv, SoleFlush
    <3>2. q \in FlushesOf(v) => SeqSet(T) \cap FlushesOf(v) = {}  BY <1>11, <1>12, <2>1
    <3> HIDE DEF u
    <3> QED  BY <1>0, <1>1, <1>9, <3>1, <3>2, SoleOfAppend
  <2> QED  BY <1>0, <2>1 DEF SoleFlush
<1>14. GoneInv'
  <2>1. ASSUME NEW d \in Delivery, d[1] \notin overlapped, d \in emitted'
        PROVE  ~InStore(d)' /\ \A x \in SeqSet(replies') : ~HeldBy(x, d)
    <3>1. CASE d = <<u, m>>
      <4>1. \A x \in SeqSet(T) : ~HeldBy(x, d)
        <5>1. u \notin overlapped /\ d[1] = u  BY <2>1, <3>1
        <5> QED  BY <1>4, <1>12, <5>1, HeldByFlush
      <4> QED  BY <1>7, <1>10, <1>s, <3>1, <4>1
    <3>2. CASE d # <<u, m>>
      <4>1. d \in emitted  BY <1>0, <2>1, <3>2
      <4> QED  BY <1>4, <1>7, <1>10, <1>s, <2>1, <4>1 DEF OnceInv, GoneInv
    <3> QED  BY <3>1, <3>2
  <2> QED  BY <1>0, <2>1 DEF GoneInv
<1>15. ReachInv'
  <2>1. u \notin overlapped => <<u, m>> \notin emitted
    BY <1>3, <1>4, <1>6 DEF OnceInv, GoneInv
  <2>2. \A s \in sockets \cap Socket : s = r.socket  OBVIOUS
  <2>3. \A s \in sockets \cap Socket : <<Owner[s], m>> \in emitted' /\ (Owner[s] \notin overlapped => <<Owner[s], m>> \notin emitted)
    BY <1>0, <2>1, <2>2
  <2>4. \A s, t \in sockets \cap Socket : Owner[s] = Owner[t] => s = t  BY <2>2
  <2>5. emitted \subseteq emitted'  BY <1>0
  <2> HIDE DEF sockets, u, r
  <2> QED  BY <1>0, <1>3, <2>3, <2>4, <2>5, ReachGrows DEF OnceInv
<1> QED  BY <1>13, <1>14, <1>15 DEF OnceInv

LEMMA OnceStep ==
    ASSUME TypeOK, MailInv, OnceInv, [Next]_vars
    PROVE  OnceInv'
<1> DEFINE r == Head(replies)
           T == Tail(replies)
<1>0. replies \in Seq(AnyReply) /\ \A u \in User \ overlapped : AtMostOne(replies, FlushesOf(u))
  BY DEF TypeOK, AnyReply, OnceInv, SoleFlush
<1>h. replies # <<>> =>
        /\ T \in Seq(AnyReply) /\ SeqSet(replies) = {r} \cup SeqSet(T)
        /\ \A K : AtMostOne(replies, K) => AtMostOne(T, K) /\ (r \in K => SeqSet(T) \cap K = {})
  BY <1>0, SetOfTail, SoleOfTail
<1>1. ASSUME \/ \E u \in User : Login(u)
             \/ \E g \in Group : CreateGroup(g)
             \/ \E s \in Socket : Disconnect(s)
             \/ UNCHANGED vars
      PROVE  OnceInv'
  <2>1. UNCHANGED <<emitted, store, replies, overlapped, got, wire>>
    BY <1>1 DEF Login, CreateGroup, Disconnect, vars, redisVars, clientVars, historyVars
  <2>2. \A s : Reached(s)' = Reached(s)  BY <2>1 DEF Reached
  <2> QED  BY <2>1, <2>2 DEF OnceInv, SoleFlush, GoneInv, ReachInv, InStore
<1>2. ASSUME (\E s \in Socket : Break(s)) \/ Restart  PROVE OnceInv'
  <2>1. /\ UNCHANGED <<emitted, store, overlapped, got>> /\ replies' \in {replies, <<>>}
        /\ \A s \in Socket : wire'[s] \in {wire[s], <<>>}
    BY <1>2 DEF Break, Restart, redisVars, historyVars, TypeOK
  <2>2. SeqSet(<<>>) = {} /\ Len(<<>>) = 0  BY DEF SeqSet
  <2>3. SoleFlush'
    <3>1. \A K : AtMostOne(<<>>, K)  BY <2>2 DEF AtMostOne
    <3> QED  BY <1>0, <2>1, <3>1 DEF SoleFlush
  <2>4. GoneInv'  BY <2>1, <2>2 DEF OnceInv, GoneInv, InStore
  <2>5. ASSUME NEW s \in Socket
        PROVE  /\ Len(Reached(s)') \in Nat /\ Len(Reached(s)) \in Nat
               /\ Len(Reached(s)') <= Len(Reached(s))
               /\ \A i \in 1..Len(Reached(s)') : Reached(s)'[i] = Reached(s)[i]
    <3>1. got[s] \in Seq(Message) /\ wire[s] \in Seq(Message)  BY ReachedType
    <3>2. CASE wire'[s] = wire[s]
      <4>1. Reached(s)' = Reached(s)  BY <2>1, <3>2 DEF Reached
      <4>2. Len(Reached(s)) \in Nat  BY ReachedType
      <4> QED  BY <4>1, <4>2
    <3>3. CASE wire'[s] = <<>>
      <4>1. Reached(s)' = got[s]  BY <2>1, <3>1, <3>3, ConcatEmptySeq DEF Reached
      <4>2. /\ Len(got[s]) \in Nat /\ Len(Reached(s)) \in Nat /\ Len(got[s]) <= Len(Reached(s))
            /\ \A i \in 1..Len(got[s]) : Reached(s)[i] = got[s][i]
        <5>1. \A p, q \in Seq(Message) : /\ Len(p) \in Nat /\ Len(p \o q) \in Nat /\ Len(p) <= Len(p \o q)
                                         /\ \A i \in 1..Len(p) : (p \o q)[i] = p[i]
          BY ConcatPrefix
        <5> QED  BY <3>1, <5>1 DEF Reached
      <4> QED  BY <4>1, <4>2
    <3> QED  BY <2>1, <3>2, <3>3
  <2>6. ReachInv'  BY <2>1, <2>5, ReachShrinks DEF OnceInv
  <2> QED  BY <2>3, <2>4, <2>6 DEF OnceInv
<1>3. ASSUME NEW u \in User, NEW m \in Message, Expire(u, m)  PROVE OnceInv'
  <2>1. UNCHANGED <<emitted, replies, overlapped, got, wire>> /\ store' = [store EXCEPT ![u] = @ \ {m}]
    BY <1>3 DEF Expire, clientVars
  <2>2. \A d \in Delivery : InStore(d)' => InStore(d)  BY <2>1 DEF InStore, TypeOK, Delivery
  <2>3. \A s : Reached(s)' = Reached(s)  BY <2>1 DEF Reached
  <2> QED  BY <2>1, <2>2, <2>3 DEF OnceInv, SoleFlush, GoneInv, ReachInv
<1>4. ASSUME NEW s \in Socket, Receive(s)  PROVE OnceInv'  BY <1>4, ReceiveOnce
<1>5. ASSUME NEW s \in Socket, Connect(s)  PROVE OnceInv'
  <2> DEFINE u == Owner[s]
             x == [kind |-> "keys", socket |-> s, keys |-> list[u], found |-> FALSE]
  <2>1. /\ UNCHANGED <<emitted, store, got, wire>> /\ replies' = Append(replies, x)
        /\ overlapped' = IF FlushOf(u) = {} THEN overlapped ELSE overlapped \cup {u}
    BY <1>5 DEF Connect, redisVars, clientVars
  <2>2. u \in User /\ x \in FlushesOf(u)  BY RelayAssumption DEF FlushReply, FlushesOf, TypeOK
  <2>3. \A d : ~HeldBy(x, d)  BY DEF HeldBy
  <2>4. u \notin overlapped' => SeqSet(replies) \cap FlushesOf(u) = {}
    <3>1. \A r0 \in SeqSet(replies) : r0 \in FlushesOf(u) => r0 \in FlushOf(u)
      BY DEF FlushesOf, FlushOf, FlushReply
    <3> QED  BY <2>1, <3>1
  <2>5. overlapped \subseteq overlapped'  BY <2>1
  <2> HIDE DEF x, u
  <2> QED  BY <1>0, <2>1, <2>2, <2>3, <2>4, <2>5, FlushOnce
<1>6. ASSUME NEW m \in Message, Send(m)  PROVE OnceInv'
  <2>1. CASE GroupOf[m] \in groups \cup {NoGroup}
    <3>1. FanOut(m, To[m], replies) /\ m \notin SeqSet(accepted) /\ UNCHANGED <<got, overlapped>>
      BY <1>6, <2>1 DEF Send
    <3>2. To[m] \in Seq(Addressees(m)) /\ Distinct(To[m])
      BY AddresseesType, RelayAssumption DEF Distinct
    <3>3. \A d \in Delivery : d[2] = m =>
             /\ d \notin emitted \cup expired /\ ~InStore(d) /\ \A x \in SeqSet(replies) : ~HeldBy(x, d)
      BY <3>1 DEF MailInv, KnownInv, PlaceInv
    <3> QED  BY <1>0, <3>1, <3>2, <3>3, FanOutOnce
  <2>2. CASE GroupOf[m] \notin groups \cup {NoGroup}
    <3>1. UNCHANGED <<emitted, store, replies, overlapped, got, wire>>  BY <1>6, <2>2 DEF Send
    <3>2. \A s : Reached(s)' = Reached(s)  BY <3>1 DEF Reached
    <3> QED  BY <3>1, <3>2 DEF OnceInv, SoleFlush, GoneInv, ReachInv, InStore
  <2> QED  BY <2>1, <2>2
<1>7. ASSUME QueueSet  PROVE OnceInv'
  <2> DEFINE q == [r EXCEPT !.kind = "pushed"]
  <2>1. /\ replies # <<>> /\ r.kind = "set" /\ replies' = Append(T, q)
        /\ UNCHANGED <<emitted, store, overlapped, got, wire>>
    BY <1>7 DEF QueueSet, Answered, clientVars, historyVars
  <2>2. r \in QueueReply  BY <2>1, HeadType
  <2>3. q \in QueueReply /\ q.kind = "pushed"  BY <2>1, <2>2 DEF QueueReply
  <2> HIDE DEF q, T, r
  <2>4. q \in AnyReply /\ (\A u : q \notin FlushesOf(u)) /\ \A d : ~HeldBy(q, d)
    BY <2>3, LoopKinds DEF AnyReply, FlushesOf, HeldBy
  <2>5. SeqSet(replies') = SeqSet(T) \cup {q}  BY <1>h, <2>1, <2>4, SetOfAppend
  <2>6. SoleFlush'
    <3>1. \A u \in User \ overlapped : AtMostOne(replies', FlushesOf(u))
      BY <1>0, <1>h, <2>1, <2>4, SoleOfAppend
    <3> QED  BY <2>1, <3>1 DEF SoleFlush
  <2>7. GoneInv'  BY <1>h, <2>1, <2>4, <2>5 DEF OnceInv, GoneInv, InStore
  <2>8. \A s : Reached(s)' = Reached(s)  BY <2>1 DEF Reached
  <2>9. ReachInv'  BY <2>1, <2>8 DEF OnceInv, ReachInv
  <2> QED  BY <2>6, <2>7, <2>9 DEF OnceInv
<1>8. ASSUME QueuePushed  PROVE OnceInv'
  <2>1. replies # <<>> /\ r.kind = "pushed" /\ FanOut(r.message, r.rest, T) /\ UNCHANGED <<got, overlapped>>
    BY <1>8 DEF QueuePushed, Answered
  <2>2. r \in QueueReply  BY <2>1, HeadType
  <2>3. r.message \in Message /\ r.rest \in Seq(Addressees(r.message))  BY <2>2 DEF QueueReply
  <2>4. r \in SeqSet(replies)  BY <1>h, <2>1
  <2>5. Distinct(r.rest)  BY <2>2, <2>4 DEF MailInv, LoopInv
  <2>6. \A d : d[2] = r.message /\ d[1] \in SeqSet(r.rest) => WaitsIn(r, d)  BY <2>1 DEF WaitsIn
  <2>7. \A d \in Delivery : d[2] = r.message /\ d[1] \in SeqSet(r.rest) =>
           d \notin emitted /\ ~InStore(d) /\ \A x \in SeqSet(replies) : ~HeldBy(x, d)
    BY <2>4, <2>6 DEF MailInv, PlaceInv
  <2>8. \A u \in User \ overlapped : AtMostOne(T, FlushesOf(u))  BY <1>0, <1>h, <2>1
  <2> HIDE DEF r, T
  <2> QED  BY <1>h, <2>1, <2>3, <2>5, <2>7, <2>8, FanOutOnce
<1>9. ASSUME FlushKeys \/ FlushMissing \/ FlushDeleted  PROVE OnceInv'
  <2> DEFINE u == Owner[r.socket]
  <2>1. /\ replies # <<>> /\ r.kind \in {"keys", "value", "deleted"}
        /\ UNCHANGED <<emitted, store, got, wire, overlapped>>
    BY <1>9 DEF FlushKeys, FlushMissing, FlushDeleted, Answered, clientVars, historyVars
  <2>2. r \in FlushReply  BY <2>1, HeadType
  <2>3. r.socket \in Socket /\ u \in User /\ r \in FlushesOf(u)
    BY <2>2, RelayAssumption DEF FlushReply, FlushesOf
  <2>4. u \notin overlapped => SeqSet(T) \cap FlushesOf(u) = {}  BY <1>0, <1>h, <2>1, <2>3
  <2>5. \A v \in User \ overlapped : AtMostOne(T, FlushesOf(v))  BY <1>0, <1>h, <2>1
  <2>6. \/ replies' = T
        \/ \E x : /\ replies' = Append(T, x) /\ x.kind = "value" /\ x.socket = r.socket
                  /\ \A d \in Delivery : HeldBy(x, d) => InStore(d)
    <3>1. ASSUME NEW keys, NextKey(r.socket, keys, T)
          PROVE  \/ replies' = T
                 \/ \E x : /\ replies' = Append(T, x) /\ x.kind = "value" /\ x.socket = r.socket
                           /\ \A d \in Delivery : HeldBy(x, d) => InStore(d)
      <4> DEFINE x == [kind |-> "value", socket |-> r.socket, keys |-> keys, found |-> Head(keys) \in store[u]]
      <4>1. replies' = T \/ replies' = Append(T, x)  BY <3>1 DEF NextKey
      <4>2. x.kind = "value" /\ x.socket = r.socket /\ \A d \in Delivery : HeldBy(x, d) => InStore(d)
        BY DEF HeldBy, InStore
      <4> HIDE DEF x
      <4> QED  BY <4>1, <4>2
    <3>2. replies' = T \/ \E keys : NextKey(r.socket, keys, T)
      BY <1>9 DEF FlushKeys, FlushMissing, FlushDeleted
    <3> QED  BY <3>1, <3>2
  <2>7. TypeOK'  BY <1>9, ReplyStep DEF Reply
  <2>8. CASE replies' = T  BY <1>h, <2>1, <2>3, <2>4, <2>5, <2>8, FlushOnce
  <2>9. ASSUME NEW x, replies' = Append(T, x), x.kind = "value", x.socket = r.socket,
               \A d \in Delivery : HeldBy(x, d) => InStore(d)
        PROVE  OnceInv'
    <3>1. x \in AnyReply
      <4>1. replies' \in Seq(AnyReply) /\ T \in Seq(AnyReply)  BY <1>h, <2>1, <2>7 DEF TypeOK, AnyReply
      <4> HIDE DEF T
      <4>2. Len(replies') = Len(T) + 1 /\ replies'[Len(T) + 1] = x /\ Len(T) + 1 \in 1..(Len(T) + 1)
        BY <2>9, <4>1
      <4> QED  BY <4>1, <4>2
    <3>2. x \in FlushesOf(u)  BY <2>9, <3>1, LoopKinds DEF AnyReply, FlushesOf
    <3> HIDE DEF T, u, r
    <3> QED  BY <1>h, <2>1, <2>3, <2>4, <2>5, <2>9, <3>2, FlushOnce
  <2> QED  BY <2>6, <2>8, <2>9
<1>10. ASSUME FlushFound  PROVE OnceInv'  BY <1>10, FlushFoundOnce
<1> QED  BY <1>1, <1>2, <1>3, <1>4, <1>5, <1>6, <1>7, <1>8, <1>9, <1>10 DEF Next, Reply

\* No user is handed a message twice, on one socket or on two, whatever crashes between the
\* emit and the del, as long as no two flushes of theirs were in the air at once.
THEOREM OncePerUserCorrect == Spec => []OncePerUser
<1>1. OnceInv => OncePerUser
  <2> SUFFICES ASSUME OnceInv, NEW u \in User \ overlapped, NEW m \in Message
               PROVE  Cardinality(Places(u, m)) <= 1
    BY DEF OncePerUser
  <2>1. \A p \in Places(u, m) : \E s \in Socket : \E i \in 1..Len(Reached(s)) :
           p = <<s, i>> /\ Owner[s] = u /\ Reached(s)[i] = m
    BY DEF Places, SocketsOf
  <2>2. \A p, q \in Places(u, m) : p = q  BY <2>1 DEF OnceInv, ReachInv
  <2>3. CASE Places(u, m) = {}  BY <2>3, FS_EmptySet
  <2>4. CASE Places(u, m) # {}
    <3>1. PICK p : p \in Places(u, m)  BY <2>4
    <3>2. Places(u, m) = {p}  BY <2>2, <3>1
    <3> QED  BY <3>2, FS_Singleton
  <2> QED  BY <2>3, <2>4
<1>2. TypeOK /\ MailInv /\ OnceInv /\ [Next]_vars => OnceInv'  BY OnceStep
<1> QED  BY <1>1, <1>2, OnceInit, RelayTypeCorrect, MailInvCorrect, PTL DEF Spec
=============================================================================
