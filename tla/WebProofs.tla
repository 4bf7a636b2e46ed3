----------------------------- MODULE WebProofs -----------------------------
(***************************************************************************)
(* Proofs about the web client and the accounts it gets, for any number of *)
(* browsers, users, calls and prekeys, and for every budget of events: the *)
(* types of WebAccounts, the owner of an account (OwnerCorrect), the prekeys*)
(* of a connected user (PrekeysCorrect), the module's variables against the*)
(* sockets (TabCorrect), and then WebSessions: its types (TypeCorrect),    *)
(* that no message key is used twice (FreshCorrect) and that messages are  *)
(* read (ReadCorrect).  Of the messages the account theorems need one step *)
(* only: a send may take a prekey (Aside).                                 *)
(***************************************************************************)
EXTENDS WebSessions, FiniteSetTheorems, TLAPS

-----------------------------------------------------------------------------
(* Types *)

CallRecord == [pc : Waiting \cup {"unused", "done", "failed"}, by : Browser \cup {None},
               user : User \cup {None}, key : Key \cup {None}]
SocketState == {"none", "connecting", "open", "out", "refused", "closed"}

\* A call that has begun belongs to a browser and a user.
CallsInv ==
    /\ call \in [Call -> CallRecord]
    /\ \A c \in Call : ~At(c, "unused") => By(c) \in Browser /\ Of(c) \in User

ServerInv ==
    /\ users \in [User -> Key \cup {None}] /\ challenges \in [User -> Call \cup {None}]
    /\ bundle \in [User -> [by : Browser, left : Nat] \cup {None}]
    /\ sessions \subseteq Call /\ \A c \in sessions : ~At(c, "unused")

BrowserInv ==
    /\ idb \in [Browser -> Key \cup {None}] /\ made \in [Browser -> Nat]
    /\ ident \subseteq Names /\ lacking \subseteq Names
    /\ socket \in [Browser -> Call \cup {None}]
    /\ localUsername \in [Browser -> User \cup {None}]
    /\ localIdentity \in [Browser -> User \cup {None}]
    /\ disturbed \subseteq Call /\ twofold \subseteq Browser /\ doubled \subseteq Browser

SocketsInv ==
    /\ sock \in [Call -> SocketState]
    /\ \A c \in Call : sock[c] # "none" => call[c].pc \in {"connecting", "done", "failed"}
    /\ \A b \in Browser : socket[b] # None => By(socket[b]) = b /\ sock[socket[b]] # "none"

AccountsInv == CallsInv /\ ServerInv /\ BrowserInv /\ SocketsInv

\* What a step of the messages does to the accounts: at most, it takes a prekey.
TakePrekey(p) ==
    bundle[p] # None /\ bundle[p].left > 0 /\ bundle' = [bundle EXCEPT ![p].left = @ - 1]

Aside ==
    /\ UNCHANGED <<users, challenges, sessions, storeVars, tabVars, call, sock, disturbed, twofold, doubled>>
    /\ UNCHANGED bundle \/ \E p : TakePrekey(p)
    /\ lacking \subseteq lacking' /\ lacking' \subseteq lacking \cup ident

PageReloads(b) == \E torn \in SUBSET ident : Reload(b, torn)

AccountStep ==
    \/ \E c \in Call, b \in Browser, u \in User : Connect(c, b, u)
    \/ \E c \in Call : ConnectStep(c) \/ ConnectError(c) \/ Drop(c)
    \/ \E b \in Browser : Disconnect(b) \/ PageReloads(b)
    \/ ServerRestart
    \/ Aside

LEMMA FetchIsAside ==
    ASSUME NEW o, FetchPrekey(o), UNCHANGED accountsButServer  PROVE Aside
<1> DEFINE p == To(o)
<1>1. UNCHANGED bundle \/ TakePrekey(p)
  BY DEF FetchPrekey, TakePrekey, Available
<1>2. lacking \subseteq lacking' /\ lacking' \subseteq lacking \cup ident
  BY DEF FetchPrekey
<1> QED  BY <1>1, <1>2 DEF Aside, accountsButServer

LEMMA StepIsAccountStep == [Next]_vars => AccountStep
<1> SUFFICES ASSUME [Next]_vars PROVE AccountStep  OBVIOUS
<1>1. CASE Account
  <2>1. ASSUME NEW b \in Browser, NEW torn, torn \subseteq ident, Reload(b, torn)  PROVE AccountStep
    BY <2>1 DEF AccountStep, PageReloads
  <2>2. CASE \E b \in Browser : Reload(b, {n \in ident : \E o \in TornBy(b) : OpAt(o, "init") /\ n.user = To(o)})
    BY <2>1, <2>2
  <2> QED  BY <1>1, <2>2 DEF Account, AccountStep
<1>2. CASE UserSends /\ UNCHANGED accountsButBudget
  BY <1>2 DEF accountsButBudget, serverVars, historyVars, Aside, AccountStep
<1>3. CASE (\E o \in Op : FetchPrekey(o)) /\ UNCHANGED accountsButServer
  BY <1>3, FetchIsAside DEF AccountStep
<1>4. CASE UNCHANGED accountVars
  BY <1>4 DEF accountVars, serverVars, historyVars, Aside, AccountStep
<1> QED  BY <1>1, <1>2, <1>3, <1>4 DEF Next, Message, vars

LEMMA AccountsStart == Init => AccountsInv
BY WebAssumption DEF Init, AccountsInit, AccountsInv, CallsInv, ServerInv, BrowserInv, SocketsInv, CallRecord,
   SocketState, Names, At, By, Of, Waiting

LEMMA CallsStep ==
    ASSUME AccountsInv, AccountStep  PROVE CallsInv'
<1> USE DEF AccountsInv, CallsInv, At, By, Of, CallRecord, Waiting
<1>1. ASSUME NEW c \in Call, NEW b \in Browser, NEW u \in User, Connect(c, b, u)  PROVE CallsInv'
  BY <1>1 DEF Connect, Begin
<1>2. ASSUME NEW c \in Call, ReadIdentity(c)  PROVE CallsInv'
  <2>1. CASE Existing(c) # None  BY <1>2, <2>1 DEF ReadIdentity, Existing, BrowserInv
  <2>2. CASE Existing(c) = None
    <3>1. PICK new : new = [by |-> By(c), n |-> made[By(c)] + 1]  OBVIOUS
    <3>2. new \in Key  BY <1>2, <3>1 DEF ReadIdentity, BrowserInv, Key
    <3>3. call' = [call EXCEPT ![c].pc = "store", ![c].key = new]
      BY <1>2, <2>2, <3>1 DEF ReadIdentity
    <3> QED  BY <1>2, <3>2, <3>3 DEF ReadIdentity
  <2> QED  BY <2>1, <2>2
<1>3. ASSUME NEW c \in Call, SignChallenge(c)  PROVE CallsInv'
  <2>1. PICK key : key = idb[By(c)]  OBVIOUS
  <2>2. key \in Key \cup {None}  BY <1>3, <2>1 DEF SignChallenge, BrowserInv
  <2>3. call' = [call EXCEPT ![c].pc = "verify", ![c].key = key]  BY <1>3, <2>1 DEF SignChallenge
  <2>4. At(c, "sign")  BY <1>3 DEF SignChallenge
  <2> QED  BY <2>2, <2>3, <2>4
<1>4. ASSUME NEW c \in Call, NEW pc \in Waiting \cup {"unused", "done", "failed"}, ~At(c, "unused"),
             Goto(c, pc) \/ UNCHANGED call
      PROVE CallsInv'
  BY <1>4 DEF Goto
<1>5. ASSUME NEW c \in Call, ConnectStep(c) \/ ConnectError(c) \/ Drop(c), ~ReadIdentity(c), ~SignChallenge(c)
      PROVE CallsInv'
  <2>1. CASE StoreIdentity(c)  BY <2>1, <1>4 DEF StoreIdentity
  <2>2. CASE Proteus(c)  BY <2>2, <1>4 DEF Proteus, Generated
  <2>3. CASE Upload(c)  BY <2>3, <1>4 DEF Upload
  <2>4. CASE Register(c)  BY <2>4, <1>4 DEF Register
  <2>5. CASE Challenge(c)  BY <2>5, <1>4 DEF Challenge
  <2>6. CASE Verify(c)  BY <2>6, <1>4 DEF Verify
  <2>7. CASE OpenSocket(c)  BY <2>7, <1>4 DEF OpenSocket
  <2>8. CASE SocketConnects(c)
    <3>1. ~At(c, "unused")  BY <2>8 DEF SocketConnects, SocketsInv
    <3> QED  BY <2>8, <3>1, <1>4 DEF SocketConnects, Settle
  <2>9. CASE ConnectError(c)  BY <2>9, <1>4 DEF ConnectError
  <2>10. CASE Drop(c)  BY <2>10 DEF Drop
  <2> QED  BY <1>5, <2>1, <2>2, <2>3, <2>4, <2>5, <2>6, <2>7, <2>8, <2>9, <2>10 DEF ConnectStep
<1>6. ASSUME NEW b \in Browser, PageReloads(b)  PROVE CallsInv'
  BY <1>6 DEF Reload, PageReloads, Unfinished
<1>7. CASE UNCHANGED call  BY <1>7
<1> QED
  BY <1>1, <1>2, <1>3, <1>5, <1>6, <1>7
  DEF AccountStep, Disconnect, ServerRestart, Aside

\* A call that has begun keeps its browser and its user.
LEMMA CallKeepsName ==
    ASSUME AccountsInv, AccountStep, NEW c \in Call, ~At(c, "unused")
    PROVE  /\ ~At(c, "unused")' /\ By(c)' = By(c) /\ Of(c)' = Of(c)
           /\ NameOf(c)' = NameOf(c)
<1> USE DEF AccountsInv, CallsInv, At, By, Of, CallRecord, Waiting
<1> SUFFICES ~At(c, "unused")' /\ By(c)' = By(c) /\ Of(c)' = Of(c)  BY DEF NameOf
<1>1. ASSUME NEW d \in Call, NEW b \in Browser, NEW u \in User, Connect(d, b, u)
      PROVE ~At(c, "unused")' /\ By(c)' = By(c) /\ Of(c)' = Of(c)
  BY <1>1 DEF Connect, Begin, Fresh
<1>2. ASSUME NEW d \in Call, NEW pc \in Waiting \cup {"done", "failed"},
             Goto(d, pc) \/ UNCHANGED call
      PROVE ~At(c, "unused")' /\ By(c)' = By(c) /\ Of(c)' = Of(c)
  BY <1>2 DEF Goto
<1>3. ASSUME NEW d \in Call, NEW pc \in Waiting, NEW key,
             call' = [call EXCEPT ![d].pc = pc, ![d].key = key]
      PROVE ~At(c, "unused")' /\ By(c)' = By(c) /\ Of(c)' = Of(c)
  BY <1>3
<1>4. ASSUME NEW d \in Call, ConnectStep(d) \/ ConnectError(d) \/ Drop(d)
      PROVE ~At(c, "unused")' /\ By(c)' = By(c) /\ Of(c)' = Of(c)
  <2>1. CASE StoreIdentity(d)  BY <2>1, <1>2 DEF StoreIdentity
  <2>2. CASE Proteus(d)  BY <2>2, <1>2 DEF Proteus, Generated
  <2>3. CASE Upload(d)  BY <2>3, <1>2 DEF Upload
  <2>4. CASE Register(d)  BY <2>4, <1>2 DEF Register
  <2>5. CASE Challenge(d)  BY <2>5, <1>2 DEF Challenge
  <2>6. CASE Verify(d)  BY <2>6, <1>2 DEF Verify
  <2>7. CASE OpenSocket(d)  BY <2>7, <1>2 DEF OpenSocket
  <2>8. CASE SocketConnects(d)  BY <2>8, <1>2 DEF SocketConnects, Settle
  <2>9. CASE ConnectError(d)  BY <2>9, <1>2 DEF ConnectError
  <2>10. CASE Drop(d)  BY <2>10 DEF Drop
  <2>11. CASE ReadIdentity(d)
    <3>1. "proteus" \in Waiting /\ "store" \in Waiting  OBVIOUS
    <3> QED  BY <2>11, <3>1, <1>3 DEF ReadIdentity
  <2>12. CASE SignChallenge(d)
    <3>1. "verify" \in Waiting  OBVIOUS
    <3> QED  BY <2>12, <3>1, <1>3 DEF SignChallenge
  <2> QED  BY <1>4, <2>1, <2>2, <2>3, <2>4, <2>5, <2>6, <2>7, <2>8, <2>9, <2>10, <2>11, <2>12 DEF ConnectStep
<1>5. ASSUME NEW b \in Browser, PageReloads(b)
      PROVE ~At(c, "unused")' /\ By(c)' = By(c) /\ Of(c)' = Of(c)
  BY <1>5 DEF Reload, PageReloads, Unfinished
<1>6. ASSUME UNCHANGED call
      PROVE ~At(c, "unused")' /\ By(c)' = By(c) /\ Of(c)' = Of(c)
  BY <1>6
<1> QED  BY <1>1, <1>4, <1>5, <1>6 DEF AccountStep, Disconnect, ServerRestart, Aside

LEMMA ServerStep ==
    ASSUME AccountsInv, AccountStep, CallsInv'  PROVE ServerInv'
<1> USE DEF ServerInv
<1>0. \A c \in Call : ~At(c, "unused") => ~At(c, "unused")'  BY CallKeepsName
<1>1. CASE UNCHANGED <<users, challenges, sessions, bundle>>
  BY <1>0, <1>1 DEF AccountsInv
<1>2. ASSUME NEW c \in Call, Upload(c)  PROVE ServerInv'
  <2>1. UNCHANGED <<users, challenges, sessions>>  BY <1>2 DEF Upload
  <2>2. By(c) \in Browser /\ Of(c) \in User  BY <1>2 DEF AccountsInv, CallsInv, Upload, At
  <2>3. PICK new : new = [by |-> By(c), left |-> MaxPrekeys]  OBVIOUS
  <2>4. new \in [by : Browser, left : Nat]  BY <2>2, <2>3, WebAssumption
  <2>5. bundle' = bundle \/ bundle' = [bundle EXCEPT ![Of(c)] = new]  BY <1>2, <2>3 DEF Upload
  <2> QED  BY <1>0, <2>1, <2>4, <2>5 DEF AccountsInv
<1>3. ASSUME NEW c \in Call, Register(c)  PROVE ServerInv'
  <2>1. UNCHANGED <<challenges, sessions, bundle>>  BY <1>3 DEF Register
  <2>2. PICK key : key = call[c].key  OBVIOUS
  <2>3. key \in Key \cup {None}  BY <2>2 DEF AccountsInv, CallsInv, CallRecord
  <2>4. users' = users \/ users' = [users EXCEPT ![Of(c)] = IF @ = None THEN key ELSE @]
    BY <1>3, <2>2 DEF Register
  <2> QED  BY <1>0, <2>1, <2>3, <2>4 DEF AccountsInv
<1>4. ASSUME NEW c \in Call, Challenge(c)  PROVE ServerInv'
  <2>1. UNCHANGED <<users, sessions, bundle>>  BY <1>4 DEF Challenge
  <2>2. challenges' = challenges \/ challenges' = [challenges EXCEPT ![Of(c)] = c]
    BY <1>4 DEF Challenge
  <2> QED  BY <1>0, <2>1, <2>2 DEF AccountsInv
<1>5. ASSUME NEW c \in Call, Verify(c)  PROVE ServerInv'
  <2>1. UNCHANGED <<users, bundle>>  BY <1>5 DEF Verify
  <2>2. /\ challenges' = challenges \/ challenges' = [challenges EXCEPT ![Of(c)] = None]
        /\ sessions' = sessions \/ sessions' = sessions \cup {c}
    BY <1>5 DEF Verify
  <2>3. ~At(c, "unused")  BY <1>5 DEF Verify, At
  <2> QED  BY <1>0, <2>1, <2>2, <2>3 DEF AccountsInv
<1>6. CASE ServerRestart  BY <1>6 DEF ServerRestart
<1>7. CASE Aside
  <2>1. UNCHANGED <<users, challenges, sessions>>  BY <1>7 DEF Aside
  <2>2. ASSUME NEW p, TakePrekey(p)  PROVE bundle' \in [User -> [by : Browser, left : Nat] \cup {None}]
    <3>1. CASE p \in User
      <4>1. PICK entry : entry = bundle[p]  OBVIOUS
      <4>2. entry \in [by : Browser, left : Nat]  BY <2>2, <3>1, <4>1 DEF TakePrekey, AccountsInv
      <4>3. PICK new : new = [entry EXCEPT !.left = @ - 1]  OBVIOUS
      <4>4. new \in [by : Browser, left : Nat]  BY <2>2, <4>1, <4>2, <4>3 DEF TakePrekey
      <4>5. bundle' = [bundle EXCEPT ![p] = new]  BY <2>2, <4>1, <4>3 DEF TakePrekey
      <4> QED  BY <4>4, <4>5 DEF AccountsInv
    <3>2. CASE p \notin User  BY <2>2, <3>2 DEF TakePrekey, AccountsInv
    <3> QED  BY <3>1, <3>2
  <2> QED  BY <1>0, <1>7, <2>1, <2>2 DEF Aside, AccountsInv
<1> QED
  BY <1>1, <1>2, <1>3, <1>4, <1>5, <1>6, <1>7
  DEF AccountStep, ConnectStep, Connect, ConnectError, Drop, Disconnect, Reload, PageReloads, serverVars,
      ReadIdentity, StoreIdentity, Proteus, SignChallenge, OpenSocket, SocketConnects

LEMMA SocketsStep ==
    ASSUME AccountsInv, AccountStep  PROVE SocketsInv'
<1> USE DEF AccountsInv, CallsInv, BrowserInv, SocketsInv, At, By, Of, CallRecord, Waiting, SocketState
<1> DEFINE Started == \A c \in Call : sock[c] # "none" => call[c].pc \in {"connecting", "done", "failed"}
           Shape == sock \in [Call -> SocketState]
           Owned == \A b \in Browser : socket[b] # None => By(socket[b]) = b /\ sock[socket[b]] # "none"
<1>0. \A c \in Call : ~At(c, "unused") => ~At(c, "unused")' /\ By(c)' = By(c)  BY CallKeepsName
<1>a. ASSUME \A c \in Call : sock[c] # "none" => sock'[c] # "none", UNCHANGED socket
      PROVE Owned'
  <2> SUFFICES ASSUME NEW b \in Browser, socket[b] # None
                 PROVE By(socket[b])' = b /\ sock'[socket[b]] # "none"
    BY <1>a
  <2>2. socket[b] \in Call /\ By(socket[b]) = b /\ sock[socket[b]] # "none"  OBVIOUS
  <2>3. ~At(socket[b], "unused")  BY <2>2
  <2> QED  BY <1>a, <1>0, <2>2, <2>3
<1>b. ASSUME Shape', Started', Owned'  PROVE SocketsInv'  BY <1>b
<1> HIDE DEF Shape, Started, Owned
<1>1. ASSUME NEW c \in Call, NEW b \in Browser, NEW u \in User, Connect(c, b, u)  PROVE SocketsInv'
  <2>1. UNCHANGED <<sock, socket>>  BY <1>1 DEF Connect
  <2>2. Shape' /\ Started'  BY <1>1 DEF Connect, Begin, Fresh, Shape, Started
  <2> QED  BY <2>1, <2>2, <1>a, <1>b
<1>2. ASSUME NEW d \in Call, UNCHANGED <<sock, socket>>,
             NEW pc, Goto(d, pc) \/ UNCHANGED call,
             sock[d] # "none" => pc \in {"connecting", "done", "failed"}
      PROVE SocketsInv'
  <2>1. Shape' /\ Started'  BY <1>2 DEF Goto, Shape, Started
  <2> QED  BY <1>2, <2>1, <1>a, <1>b
<1>3. ASSUME NEW d \in Call, NEW pc \in Waiting, NEW key, UNCHANGED <<sock, socket>>,
             call' = [call EXCEPT ![d].pc = pc, ![d].key = key],
             call[d].pc \notin {"connecting", "done", "failed"}
      PROVE SocketsInv'
  <2>1. Shape' /\ Started'  BY <1>3 DEF Shape, Started
  <2> QED  BY <1>3, <2>1, <1>a, <1>b
<1>4. ASSUME NEW d \in Call, ConnectStep(d) \/ ConnectError(d) \/ Drop(d)
      PROVE SocketsInv'
  <2> USE DEF tabVars
  <2>1. CASE StoreIdentity(d)  BY <2>1, <1>2 DEF StoreIdentity
  <2>2. CASE Proteus(d)  BY <2>2, <1>2 DEF Proteus, Generated
  <2>3. CASE Upload(d)  BY <2>3, <1>2 DEF Upload
  <2>4. CASE Register(d)  BY <2>4, <1>2 DEF Register
  <2>5. CASE Challenge(d)  BY <2>5, <1>2 DEF Challenge
  <2>6. CASE Verify(d)  BY <2>6, <1>2 DEF Verify
  <2>7. CASE OpenSocket(d)
    <3>1. Shape' /\ Started'  BY <2>7 DEF OpenSocket, Goto, Shape, Started
    <3>2. Owned'
      <4> SUFFICES ASSUME NEW b \in Browser, socket'[b] # None
                   PROVE By(socket[b])' = b /\ sock'[socket'[b]] # "none"
        BY DEF Owned
      <4>1. CASE b = By(d)
        <5>1. socket'[b] = d /\ sock'[d] # "none" /\ ~At(d, "unused")  BY <2>7, <4>1 DEF OpenSocket
        <5> QED  BY <4>1, <5>1, <1>0
      <4>2. CASE b # By(d)
        <5>1. socket'[b] = socket[b] /\ sock'[socket[b]] # "none"  BY <2>7, <4>2 DEF OpenSocket
        <5>2. socket[b] \in Call /\ ~At(socket[b], "unused") /\ By(socket[b]) = b
          BY <5>1
        <5> QED  BY <5>1, <5>2, <1>0
      <4> QED  BY <4>1, <4>2
    <3> QED  BY <3>1, <3>2, <1>b
  <2>8. CASE SocketConnects(d)
    <3>1. Shape'  BY <2>8 DEF SocketConnects, Shape
    <3>2. Started'  BY <2>8 DEF SocketConnects, Settle, Goto, Started
    <3>3. UNCHANGED socket /\ \A c \in Call : sock[c] # "none" => sock'[c] # "none"
      BY <2>8 DEF SocketConnects
    <3> QED  BY <3>1, <3>2, <3>3, <1>a, <1>b
  <2>9. CASE ConnectError(d)  BY <2>9, <1>2 DEF ConnectError
  <2>10. CASE Drop(d)
    <3>1. Shape' /\ Started'  BY <2>10 DEF Drop, Shape, Started
    <3>2. UNCHANGED socket /\ \A c \in Call : sock[c] # "none" => sock'[c] # "none"
      BY <2>10 DEF Drop
    <3> QED  BY <3>1, <3>2, <1>a, <1>b
  <2>11. CASE ReadIdentity(d)
    <3>1. "proteus" \in Waiting /\ "store" \in Waiting  OBVIOUS
    <3> QED  BY <2>11, <3>1, <1>3 DEF ReadIdentity
  <2>12. CASE SignChallenge(d)
    <3>1. "verify" \in Waiting  OBVIOUS
    <3> QED  BY <2>12, <3>1, <1>3 DEF SignChallenge
  <2> QED  BY <1>4, <2>1, <2>2, <2>3, <2>4, <2>5, <2>6, <2>7, <2>8, <2>9, <2>10, <2>11, <2>12 DEF ConnectStep
<1>5. ASSUME NEW b \in Browser, PageReloads(b)  PROVE SocketsInv'
  <2>1. Shape' /\ Started'  BY <1>5 DEF Reload, PageReloads, Unfinished, Live, Shape, Started
  <2>2. Owned'
    <3> SUFFICES ASSUME NEW x \in Browser, socket'[x] # None
                 PROVE By(socket[x])' = x /\ sock'[socket'[x]] # "none"
      BY DEF Owned
    <3>1. socket'[x] = socket[x] /\ socket[x] \in Call  BY <1>5 DEF Reload, PageReloads
    <3>2. By(socket[x]) = x /\ ~At(socket[x], "unused") /\ sock'[socket[x]] # "none"  BY <1>5, <3>1 DEF Reload, PageReloads
    <3> QED  BY <3>1, <3>2, <1>0
  <2> QED  BY <2>1, <2>2, <1>b
<1>6. ASSUME NEW b \in Browser, Disconnect(b)  PROVE SocketsInv'
  <2>1. Shape'  BY <1>6 DEF Disconnect, Shape
  <2>2. Started'
    <3>1. ASSUME NEW c \in Call, sock'[c] # "none"  PROVE sock[c] # "none"
      <4>1. CASE c = socket[b]  BY <4>1, WebAssumption
      <4>2. CASE c # socket[b]  BY <1>6, <3>1, <4>2 DEF Disconnect
      <4> QED  BY <4>1, <4>2
    <3>2. UNCHANGED call  BY <1>6 DEF Disconnect
    <3> QED  BY <3>1, <3>2 DEF Started
  <2>3. Owned'
    <3> SUFFICES ASSUME NEW x \in Browser, socket'[x] # None
                 PROVE By(socket[x])' = x /\ sock'[socket'[x]] # "none"
      BY DEF Owned
    <3>1. socket'[x] = socket[x] /\ socket[x] \in Call  BY <1>6 DEF Disconnect
    <3>2. By(socket[x]) = x /\ ~At(socket[x], "unused") /\ sock'[socket[x]] # "none"  BY <1>6, <3>1 DEF Disconnect
    <3> QED  BY <3>1, <3>2, <1>0
  <2> QED  BY <2>1, <2>2, <2>3, <1>b
<1>7. CASE ServerRestart
  <2>1. Shape' /\ Started'  BY <1>7 DEF ServerRestart, Shape, Started
  <2>2. UNCHANGED socket /\ \A c \in Call : sock[c] # "none" => sock'[c] # "none"
    BY <1>7 DEF ServerRestart, tabVars
  <2> QED  BY <2>1, <2>2, <1>a, <1>b
<1>8. CASE Aside
  <2>1. UNCHANGED <<call, sock, socket>>  BY <1>8 DEF Aside, tabVars
  <2>2. Shape' /\ Started'  BY <2>1 DEF Shape, Started
  <2> QED  BY <2>1, <2>2, <1>a, <1>b
<1> QED  BY <1>1, <1>4, <1>5, <1>6, <1>7, <1>8 DEF AccountStep

LEMMA BrowserStep ==
    ASSUME AccountsInv, AccountStep  PROVE BrowserInv'
<1> USE DEF AccountsInv, BrowserInv, Names, tabVars, storeVars, historyVars
<1>0. \A c \in Call : ~At(c, "unused") => By(c) \in Browser /\ Of(c) \in User
  BY DEF CallsInv
<1>1. ASSUME NEW c \in Call, NEW b \in Browser, NEW u \in User, Connect(c, b, u)  PROVE BrowserInv'
  <2>1. disturbed' \subseteq Call  BY <1>1 DEF Connect, Rivals
  <2>2. doubled' \subseteq Browser  BY <1>1 DEF Connect
  <2> QED  BY <1>1, <2>1, <2>2 DEF Connect
<1>2. ASSUME NEW d \in Call, ConnectStep(d) \/ ConnectError(d) \/ Drop(d)
      PROVE BrowserInv'
  <2>1. CASE StoreIdentity(d)
    <3>1. call[d].key \in Key \cup {None}  BY DEF CallsInv, CallRecord
    <3> QED  BY <2>1, <3>1 DEF StoreIdentity
  <2>2. CASE Proteus(d)
    <3>1. NameOf(d) \in Names /\ Of(d) \in User  BY <1>0, <2>2 DEF Proteus, NameOf, At
    <3> QED  BY <2>2, <3>1 DEF Proteus
  <2>3. CASE Upload(d)
    <3>1. NameOf(d) \in Names  BY <1>0, <2>3 DEF Upload, NameOf, At
    <3> QED  BY <2>3, <3>1 DEF Upload, Answered, Fails
  <2>4. CASE Register(d)  BY <2>4 DEF Register, Answered, Fails
  <2>5. CASE Challenge(d)  BY <2>5 DEF Challenge, Answered, Fails
  <2>6. CASE Verify(d)  BY <2>6 DEF Verify, Answered, Fails
  <2>7. CASE OpenSocket(d)  BY <2>7 DEF OpenSocket
  <2>8. CASE SocketConnects(d)  BY <2>8 DEF SocketConnects
  <2>9. CASE ConnectError(d)  BY <2>9 DEF ConnectError, Fails
  <2>10. CASE Drop(d)  BY <2>10 DEF Drop
  <2>11. CASE ReadIdentity(d)
    <3>1. made' = made \/ made' = [made EXCEPT ![By(d)] = @ + 1]  BY <2>11 DEF ReadIdentity
    <3>2. made' \in [Browser -> Nat]  BY <3>1
    <3>3. By(d) \in Browser  BY <1>0, <2>11 DEF ReadIdentity, At
    <3>4. twofold' \subseteq Browser  BY <2>11, <3>3 DEF ReadIdentity
    <3> QED  BY <2>11, <3>2, <3>4 DEF ReadIdentity
  <2>12. CASE SignChallenge(d)  BY <2>12 DEF SignChallenge
  <2> QED  BY <1>2, <2>1, <2>2, <2>3, <2>4, <2>5, <2>6, <2>7, <2>8, <2>9, <2>10, <2>11, <2>12 DEF ConnectStep
<1>3. ASSUME NEW b \in Browser, Disconnect(b)  PROVE BrowserInv'
  BY <1>3 DEF Disconnect, Unfinished
<1>4. ASSUME NEW b \in Browser, PageReloads(b)  PROVE BrowserInv'
  <2>1. \A c \in Unfinished(b) : NameOf(c) \in Names
    BY <1>0 DEF Unfinished, NameOf, At, Waiting
  <2>2. lacking' \subseteq Names  BY <1>4, <2>1 DEF Reload, PageReloads
  <2>3. disturbed' \subseteq Call  BY <1>4 DEF Reload, PageReloads, Unfinished
  <2> QED  BY <1>4, <2>2, <2>3 DEF Reload, PageReloads
<1>5. CASE ServerRestart  BY <1>5 DEF ServerRestart
<1>6. CASE Aside  BY <1>6 DEF Aside
<1> QED  BY <1>1, <1>2, <1>3, <1>4, <1>5, <1>6 DEF AccountStep

LEMMA AccountsStep == AccountsInv /\ AccountStep => AccountsInv'
BY CallsStep, ServerStep, SocketsStep, BrowserStep DEF AccountsInv

LEMMA AccountsHold == Spec => []AccountsInv
BY AccountsStart, AccountsStep, StepIsAccountStep, PTL DEF Spec

TakersType == takers \in [User -> SUBSET Browser]

LEMMA AccountsTyped == AccountsInv /\ TakersType => AccountsTypeOK
BY DEF TakersType, AccountsInv, CallsInv, ServerInv, BrowserInv, SocketsInv, AccountsTypeOK, CallRecord, SocketState

-----------------------------------------------------------------------------
(* Accounts *)

\* Calls that have their key: once a browser's identity is stored, every call uses it.
HasKey == {"proteus", "upload", "register", "challenge", "sign", "verify"}

KeysInv ==
    /\ \A b \in Browser : idb[b] # None => idb[b].by = b
    /\ \A c \in Call : call[c].key # None => call[c].key.by = By(c)

\* Of the calls of a browser at most one generates an identity, and only while none is stored,
\* unless two have read none before either stored one.
FirstInv ==
    \A c \in Call : By(c) \notin twofold =>
        /\ call[c].pc \in HasKey => call[c].key = idb[By(c)] /\ idb[By(c)] # None
        /\ At(c, "store") =>
             /\ idb[By(c)] = None /\ call[c].key # None
             /\ \A d \in Call : At(d, "store") /\ By(d) = By(c) => d = c

OwnerInv == AccountsInv /\ KeysInv /\ FirstInv /\ AccountStaysWithOwner

LEMMA KeysStep == ASSUME OwnerInv, AccountStep  PROVE KeysInv'
<1> USE DEF OwnerInv, AccountsInv, CallsInv, CallRecord, KeysInv, At, By, Of, Waiting
<1>1. ASSUME NEW c \in Call, NEW b \in Browser, NEW u \in User, Connect(c, b, u)  PROVE KeysInv'
  BY <1>1 DEF Connect, Begin, storeVars
<1>2. ASSUME UNCHANGED idb, NEW d \in Call, NEW pc, Goto(d, pc) \/ UNCHANGED call  PROVE KeysInv'
  BY <1>2 DEF Goto
<1>3. ASSUME UNCHANGED idb, NEW d \in Call, NEW pc \in Waiting, NEW key, key # None => key.by = By(d),
             call' = [call EXCEPT ![d].pc = pc, ![d].key = key]
      PROVE KeysInv'
  BY <1>3
<1>4. ASSUME NEW d \in Call, ConnectStep(d) \/ ConnectError(d) \/ Drop(d)
      PROVE KeysInv'
  <2> USE DEF storeVars
  <2>1. CASE StoreIdentity(d)
    <3>1. By(d) \in Browser  BY <2>1 DEF StoreIdentity
    <3>2. PICK key : key = call[d].key /\ (key # None => key.by = By(d))  OBVIOUS
    <3>3. idb' = [idb EXCEPT ![By(d)] = key]  BY <2>1, <3>2 DEF StoreIdentity
    <3>4. \A b \in Browser : idb'[b] # None => idb'[b].by = b  BY <3>1, <3>2, <3>3 DEF BrowserInv
    <3>5. \A c \in Call : call'[c].key # None => call'[c].key.by = call'[c].by
      BY <2>1 DEF StoreIdentity, Goto
    <3> QED  BY <3>4, <3>5
  <2>2. CASE Proteus(d)  BY <2>2, <1>2 DEF Proteus, Generated
  <2>3. CASE Upload(d)  BY <2>3, <1>2 DEF Upload
  <2>4. CASE Register(d)  BY <2>4, <1>2 DEF Register
  <2>5. CASE Challenge(d)  BY <2>5, <1>2 DEF Challenge
  <2>6. CASE Verify(d)  BY <2>6, <1>2 DEF Verify
  <2>7. CASE OpenSocket(d)  BY <2>7, <1>2 DEF OpenSocket
  <2>8. CASE SocketConnects(d)  BY <2>8, <1>2 DEF SocketConnects, Settle
  <2>9. CASE ConnectError(d)  BY <2>9, <1>2 DEF ConnectError
  <2>10. CASE Drop(d)  BY <2>10, <1>2 DEF Drop
  <2>11. CASE ReadIdentity(d)
    <3>1. "proteus" \in Waiting /\ "store" \in Waiting /\ By(d) \in Browser  BY <2>11 DEF ReadIdentity
    <3>2. CASE Existing(d) # None
      <4>1. PICK key : key = idb[By(d)]  OBVIOUS
      <4>2. key # None => key.by = By(d)  BY <3>1, <4>1
      <4>3. call' = [call EXCEPT ![d].pc = "proteus", ![d].key = key] /\ UNCHANGED idb
        BY <2>11, <3>2, <4>1 DEF ReadIdentity, Existing
      <4> QED  BY <3>1, <4>2, <4>3, <1>3
    <3>3. CASE Existing(d) = None
      <4>1. PICK key : key = [by |-> By(d), n |-> made[By(d)] + 1]  OBVIOUS
      <4>2. key.by = By(d)  BY <4>1
      <4>3. call' = [call EXCEPT ![d].pc = "store", ![d].key = key] /\ UNCHANGED idb
        BY <2>11, <3>3, <4>1 DEF ReadIdentity
      <4> QED  BY <3>1, <4>2, <4>3, <1>3
    <3> QED  BY <3>2, <3>3
  <2>12. CASE SignChallenge(d)
    <3>1. "verify" \in Waiting /\ By(d) \in Browser  BY <2>12 DEF SignChallenge
    <3> QED  BY <2>12, <3>1, <1>3 DEF SignChallenge
  <2> QED  BY <1>4, <2>1, <2>2, <2>3, <2>4, <2>5, <2>6, <2>7, <2>8, <2>9, <2>10, <2>11, <2>12 DEF ConnectStep
<1>5. ASSUME NEW b \in Browser, PageReloads(b)  PROVE KeysInv'
  BY <1>5 DEF Reload, PageReloads, Unfinished, storeVars
<1>6. CASE UNCHANGED <<call, idb>>  BY <1>6
<1> QED  BY <1>1, <1>4, <1>5, <1>6 DEF AccountStep, Disconnect, ServerRestart, Aside, storeVars

LEMMA FirstStep == ASSUME OwnerInv, AccountStep  PROVE FirstInv'
<1> USE DEF OwnerInv, AccountsInv, CallsInv, CallRecord, At, By, Of, Waiting, HasKey
<1>0. \A c \in Call : By(c) \notin twofold =>
        /\ call[c].pc \in HasKey => call[c].key = idb[By(c)] /\ idb[By(c)] # None
        /\ At(c, "store") => idb[By(c)] = None /\ call[c].key # None /\ \A d \in Call : At(d, "store") /\ By(d) = By(c) => d = c
  BY DEF FirstInv
<1>1. ASSUME NEW c \in Call, NEW b \in Browser, NEW u \in User, Connect(c, b, u)  PROVE FirstInv'
  <2>1. UNCHANGED <<idb, twofold>>  BY <1>1 DEF Connect, storeVars
  <2>2. PICK pc \in {"crypto", "done"} : call' = [call EXCEPT ![c] = [pc |-> pc, by |-> b, user |-> u, key |-> None]]
    BY <1>1 DEF Connect, Begin
  <2> QED  BY <1>0, <2>1, <2>2 DEF FirstInv
<1>2. ASSUME UNCHANGED <<idb, twofold>>, NEW d \in Call, NEW pc \in Waiting \cup {"done", "failed"}, pc # "store",
             pc \in HasKey => call[d].pc \in HasKey, Goto(d, pc) \/ UNCHANGED call
      PROVE FirstInv'
  BY <1>0, <1>2 DEF Goto, FirstInv
<1>3. ASSUME NEW d \in Call, ReadIdentity(d)  PROVE FirstInv'
  <2>0. By(d) \in Browser /\ UNCHANGED idb /\ twofold \subseteq twofold'  BY <1>3 DEF ReadIdentity
  <2>1. CASE idb[By(d)] # None
    <3>1. PICK key : key = idb[By(d)]  OBVIOUS
    <3>2. call' = [call EXCEPT ![d].pc = "proteus", ![d].key = key] /\ UNCHANGED twofold
      BY <1>3, <2>1, <3>1 DEF ReadIdentity, Existing
    <3> QED  BY <1>0, <2>0, <2>1, <3>1, <3>2 DEF FirstInv
  <2>2. CASE idb[By(d)] = None
    <3>1. PICK key : key = [by |-> By(d), n |-> made[By(d)] + 1]  OBVIOUS
    <3>2. call' = [call EXCEPT ![d].pc = "store", ![d].key = key]
      BY <1>3, <2>2, <3>1 DEF ReadIdentity, Existing
    <3>3. By(d) \notin twofold' => \A e \in Call : By(e) = By(d) => ~At(e, "store")
      BY <1>3, <2>2 DEF ReadIdentity, Existing
    <3>4. key # None  BY <1>3, <3>1, WebAssumption DEF ReadIdentity, BrowserInv
    <3> QED  BY <1>0, <2>0, <2>2, <3>2, <3>3, <3>4 DEF FirstInv
  <2> QED  BY <2>1, <2>2
<1>4. ASSUME NEW d \in Call, StoreIdentity(d)  PROVE FirstInv'
  <2>1. By(d) \in Browser /\ UNCHANGED twofold /\ At(d, "store")  BY <1>4 DEF StoreIdentity, historyVars
  <2>2. PICK key : key = call[d].key  OBVIOUS
  <2>3. idb' = [idb EXCEPT ![By(d)] = key]  BY <1>4, <2>2 DEF StoreIdentity
  <2>4. call' = [call EXCEPT ![d].pc = "proteus"]  BY <1>4 DEF StoreIdentity, Goto
  <2>5. By(d) \notin twofold => key # None  BY <1>0, <2>1, <2>2
  <2> QED  BY <1>0, <2>1, <2>2, <2>3, <2>4, <2>5 DEF FirstInv, BrowserInv
<1>5. ASSUME NEW d \in Call, SignChallenge(d)  PROVE FirstInv'
  <2>1. By(d) \in Browser /\ UNCHANGED <<idb, twofold>> /\ At(d, "sign")
    BY <1>5 DEF SignChallenge, historyVars, storeVars
  <2>2. PICK key : key = idb[By(d)]  OBVIOUS
  <2>3. call' = [call EXCEPT ![d].pc = "verify", ![d].key = key]  BY <1>5, <2>2 DEF SignChallenge
  <2> QED  BY <1>0, <2>1, <2>2, <2>3 DEF FirstInv
<1>6. ASSUME NEW d \in Call, ConnectStep(d) \/ ConnectError(d) \/ Drop(d)
      PROVE FirstInv'
  <2> USE DEF storeVars, historyVars
  <2>2. CASE Proteus(d)  BY <2>2, <1>2 DEF Proteus, Generated
  <2>3. CASE Upload(d)  BY <2>3, <1>2 DEF Upload
  <2>4. CASE Register(d)  BY <2>4, <1>2 DEF Register
  <2>5. CASE Challenge(d)  BY <2>5, <1>2 DEF Challenge
  <2>6. CASE Verify(d)  BY <2>6, <1>2 DEF Verify
  <2>7. CASE OpenSocket(d)  BY <2>7, <1>2 DEF OpenSocket
  <2>8. CASE SocketConnects(d)  BY <2>8, <1>2 DEF SocketConnects, Settle
  <2>9. CASE ConnectError(d)  BY <2>9, <1>2 DEF ConnectError
  <2>10. CASE Drop(d)  BY <2>10, <1>2 DEF Drop
  <2> QED  BY <1>6, <1>3, <1>4, <1>5, <2>2, <2>3, <2>4, <2>5, <2>6, <2>7, <2>8, <2>9, <2>10 DEF ConnectStep
<1>7. ASSUME NEW b \in Browser, PageReloads(b)  PROVE FirstInv'
  BY <1>0, <1>7 DEF Reload, PageReloads, Unfinished, storeVars, FirstInv
<1>8. CASE UNCHANGED <<call, idb, twofold>>  BY <1>0, <1>8 DEF FirstInv
<1> QED  BY <1>1, <1>6, <1>7, <1>8 DEF AccountStep, Disconnect, ServerRestart, Aside, storeVars, historyVars

LEMMA OwnerStep == ASSUME OwnerInv, AccountStep  PROVE AccountStaysWithOwner'
<1> USE DEF OwnerInv, AccountsInv, CallsInv, CallRecord, At, Waiting, ServerInv
<1> DEFINE Mine == \A c \in sessions : users[Of(c)] # None /\ users[Of(c)].by = By(c)
           Kept == \A u \in User : users[u] # None =>
                       (users[u].by \in twofold \/ idb[users[u].by] = users[u])
<1>0. Mine /\ Kept  BY DEF AccountStaysWithOwner
<1>a. ASSUME Mine', Kept'  PROVE AccountStaysWithOwner'  BY <1>a DEF AccountStaysWithOwner
<1>b. \A c \in sessions : ~At(c, "unused") /\ By(c)' = By(c) /\ Of(c)' = Of(c)
  BY CallKeepsName
<1>c. ASSUME UNCHANGED <<users, sessions>>  PROVE Mine'
  BY <1>0, <1>b, <1>c DEF By, Of
<1>d. ASSUME UNCHANGED <<users, idb>>, twofold \subseteq twofold'  PROVE Kept'
  BY <1>0, <1>d
<1>1. ASSUME NEW d \in Call, StoreIdentity(d)  PROVE AccountStaysWithOwner'
  <2>1. By(d) \in Browser /\ Of(d) \in User /\ At(d, "store")  BY <1>1 DEF StoreIdentity, By, Of
  <2>2. UNCHANGED <<users, sessions, twofold>>  BY <1>1 DEF StoreIdentity, serverVars, historyVars
  <2>3. PICK key : key = call[d].key  OBVIOUS
  <2>4. idb' = [idb EXCEPT ![By(d)] = key]  BY <1>1, <2>3 DEF StoreIdentity
  <2>5. By(d) \notin twofold => idb[By(d)] = None  BY <2>1 DEF FirstInv
  <2>6. Kept'
    <3> SUFFICES ASSUME NEW u \in User, users[u] # None, users[u].by \notin twofold
                 PROVE idb'[users[u].by] = users[u]
      BY <2>2
    <3>1. idb[users[u].by] = users[u]  BY <1>0
    <3>2. users[u].by # By(d)  BY <2>5, <3>1
    <3> QED  BY <2>4, <3>1, <3>2 DEF BrowserInv
  <2> QED  BY <1>a, <1>c, <2>2, <2>6
<1>2. ASSUME NEW d \in Call, Register(d)  PROVE AccountStaysWithOwner'
  <2>1. By(d) \in Browser /\ Of(d) \in User /\ At(d, "register")  BY <1>2 DEF Register, By, Of
  <2>2. UNCHANGED <<sessions, twofold, idb>>  BY <1>2 DEF Register, storeVars
  <2>3. PICK key : key = call[d].key  OBVIOUS
  <2>4. UNCHANGED users \/ users' = [users EXCEPT ![Of(d)] = IF @ = None THEN key ELSE @]
    BY <1>2, <2>3 DEF Register
  <2>5. \A u \in User : users[u] # None => users'[u] = users[u]  BY <2>4
  <2>6. \A u \in User : users[u] = None => users'[u] \in {None, key}  BY <2>4
  <2>7. key # None => key.by = By(d) /\ (By(d) \in twofold \/ idb[By(d)] = key)
    BY <2>1, <2>3 DEF KeysInv, FirstInv, HasKey
  <2>8. Mine'
    <3> SUFFICES ASSUME NEW c \in sessions  PROVE users'[Of(c)'] # None /\ users'[Of(c)'].by = By(c)'
      BY <2>2 DEF By, Of
    <3>1. users[Of(c)] # None /\ users[Of(c)].by = By(c) /\ By(c)' = By(c) /\ Of(c)' = Of(c)
      BY <1>0, <1>b
    <3>2. Of(c) \in User  BY <1>b DEF By, Of
    <3> QED  BY <2>5, <3>1, <3>2
  <2>9. Kept'
    <3> SUFFICES ASSUME NEW u \in User, users'[u] # None
                 PROVE users'[u].by \in twofold \/ idb[users'[u].by] = users'[u]
      BY <2>2
    <3>1. CASE users[u] # None  BY <1>0, <2>5, <3>1
    <3>2. CASE users[u] = None  BY <2>6, <2>7, <3>2
    <3> QED  BY <3>1, <3>2
  <2> QED  BY <1>a, <2>8, <2>9
<1>3. ASSUME NEW d \in Call, Verify(d)  PROVE AccountStaysWithOwner'
  <2>1. ~At(d, "unused") /\ At(d, "verify")  BY <1>3 DEF Verify
  <2>2. UNCHANGED <<users, idb, twofold>>  BY <1>3 DEF Verify, storeVars
  <2>3. UNCHANGED sessions \/ (Accepts(d) /\ sessions' = sessions \cup {d})  BY <1>3 DEF Verify
  <2>4. Accepts(d) => users[Of(d)] # None /\ users[Of(d)].by = By(d)  BY DEF Accepts, KeysInv
  <2>5. By(d)' = By(d) /\ Of(d)' = Of(d)  BY <2>1, CallKeepsName
  <2>6. Mine'
    <3> SUFFICES ASSUME NEW c \in sessions'  PROVE users[Of(c)'] # None /\ users[Of(c)'].by = By(c)'
      BY <2>2 DEF By, Of
    <3>1. CASE c \in sessions  BY <1>0, <1>b, <3>1
    <3>2. CASE c \notin sessions  BY <2>3, <2>4, <2>5, <3>2
    <3> QED  BY <3>1, <3>2
  <2> QED  BY <1>a, <1>d, <2>2, <2>6
<1>4. CASE ServerRestart  BY <1>4 DEF ServerRestart, AccountStaysWithOwner
<1>5. ASSUME NEW d \in Call, ReadIdentity(d)  PROVE AccountStaysWithOwner'
  <2>1. UNCHANGED <<users, sessions, idb>> /\ twofold \subseteq twofold'  BY <1>5 DEF ReadIdentity, serverVars
  <2> QED  BY <1>a, <1>c, <1>d, <2>1
<1>6. CASE UNCHANGED <<users, sessions, idb, twofold>>  BY <1>6, <1>a, <1>c, <1>d
<1> QED
  BY <1>1, <1>2, <1>3, <1>4, <1>5, <1>6
  DEF AccountStep, ConnectStep, Connect, Proteus, Upload, Challenge, SignChallenge, OpenSocket, SocketConnects,
      ConnectError, Drop, Disconnect, Reload, PageReloads, Aside, serverVars, storeVars, historyVars

LEMMA OwnerStart == Init => OwnerInv
BY AccountsStart, WebAssumption DEF Init, AccountsInit, OwnerInv, KeysInv, FirstInv, AccountStaysWithOwner, HasKey, At

LEMMA OwnerHolds == Spec => []OwnerInv
<1>1. OwnerInv /\ AccountStep => OwnerInv'
  BY AccountsStep, KeysStep, FirstStep, OwnerStep DEF OwnerInv
<1> QED  BY <1>1, OwnerStart, StepIsAccountStep, PTL DEF Spec

\* The account of a name belongs to one browser (register, verify): its sessions are that
\* browser's, and the key is the one the browser has stored unless two of its first calls
\* overlapped, for any number of browsers, names and calls.
THEOREM OwnerCorrect == Spec => []AccountStaysWithOwner
<1>1. OwnerInv => AccountStaysWithOwner  BY DEF OwnerInv
<1> QED  BY <1>1, OwnerHolds, PTL

-----------------------------------------------------------------------------
(* Prekeys *)

\* Calls that have their proteus identity.
Named == {"upload", "register", "challenge", "sign", "verify", "open", "connecting"}

NamedInv ==
    \A c \in Call : call[c].pc \in Named \/ sock[c] # "none" => NameOf(c) \in ident

\* No other browser has an identity of the name.
Alone(n) == \A m \in ident : m.user = n.user => m.by = n.by

Sent(n)    == bundle[n.user] # None /\ bundle[n.user].by = n.by
Sending(n) == \E d \in Call : NameOf(d) = n /\ At(d, "upload")

SentInv == \A n \in ident \ lacking : Alone(n) => Sent(n) \/ Sending(n)

PrekeyInv == AccountsInv /\ NamedInv /\ SentInv

LEMMA NamedStep == ASSUME PrekeyInv, AccountStep  PROVE NamedInv'
<1> USE DEF PrekeyInv, AccountsInv, CallsInv, CallRecord, SocketsInv, SocketState, At, Waiting, Named
<1>0. \A c \in Call : ~At(c, "unused") => NameOf(c)' = NameOf(c)
  BY CallKeepsName
<1>1. ident \subseteq ident'
  BY DEF AccountStep, ConnectStep, Connect, ReadIdentity, StoreIdentity, Proteus, Upload, Register, Challenge,
         SignChallenge, Verify, OpenSocket, SocketConnects, ConnectError, Drop, Disconnect, Reload, PageReloads, ServerRestart, Aside,
         storeVars
<1> SUFFICES ASSUME NEW c \in Call, call'[c].pc \in Named \/ sock'[c] # "none"
             PROVE NameOf(c)' \in ident'
  BY DEF NamedInv
<1>2. CASE call[c].pc \in Named \/ sock[c] # "none"
  BY <1>0, <1>1, <1>2 DEF NamedInv
<1>3. CASE Proteus(c)
  <2>1. NameOf(c)' = NameOf(c)  BY <1>3, <1>0 DEF Proteus
  <2> QED  BY <1>3, <2>1 DEF Proteus
<1>4. CASE call[c].pc \notin Named /\ sock[c] = "none" /\ ~Proteus(c)
  <2>1. ASSUME NEW d \in Call, NEW b \in Browser, NEW u \in User, Connect(d, b, u)  PROVE FALSE
    <3>1. UNCHANGED sock  BY <2>1 DEF Connect
    <3>2. PICK pc \in {"crypto", "done"} : call' = [call EXCEPT ![d] = [pc |-> pc, by |-> b, user |-> u, key |-> None]]
      BY <2>1 DEF Connect, Begin
    <3> QED  BY <1>4, <3>1, <3>2
  <2>2. ASSUME NEW d \in Call, ConnectStep(d) \/ ConnectError(d) \/ Drop(d)  PROVE FALSE
    <3>1. CASE c # d
      BY <1>4, <2>2, <3>1 DEF ConnectStep, ReadIdentity, StoreIdentity, Proteus, Upload, Register, Challenge,
         SignChallenge, Verify, OpenSocket, SocketConnects, ConnectError, Drop, Goto, Settle
    <3>2. CASE c = d /\ ReadIdentity(c)  BY <1>4, <3>2 DEF ReadIdentity
    <3>3. CASE c = d /\ StoreIdentity(c)  BY <1>4, <3>3 DEF StoreIdentity, Goto
    <3>4. CASE c = d /\ ~ReadIdentity(c) /\ ~StoreIdentity(c)
      BY <1>4, <2>2, <3>4 DEF ConnectStep, Upload, Register, Challenge,
         SignChallenge, Verify, OpenSocket, SocketConnects, ConnectError, Drop, Goto, Settle
    <3> QED  BY <3>1, <3>2, <3>3, <3>4
  <2>3. ASSUME NEW b \in Browser, Disconnect(b)  PROVE FALSE
    BY <1>4, <2>3, WebAssumption DEF Disconnect
  <2>4. ASSUME NEW b \in Browser, PageReloads(b)  PROVE FALSE
    BY <1>4, <2>4 DEF Reload, PageReloads, Unfinished, Live
  <2>5. CASE ServerRestart  BY <1>4, <2>5 DEF ServerRestart
  <2>6. CASE Aside  BY <1>4, <2>6 DEF Aside
  <2> QED  BY <2>1, <2>2, <2>3, <2>4, <2>5, <2>6 DEF AccountStep
<1> QED  BY <1>2, <1>3, <1>4

LEMMA SentStep == ASSUME PrekeyInv, AccountStep  PROVE SentInv'
<1> USE DEF PrekeyInv, AccountsInv, CallsInv, CallRecord, At, Waiting
<1>0. \A c \in Call : ~At(c, "unused") => NameOf(c)' = NameOf(c)
  BY CallKeepsName
<1>a. ASSUME NEW n \in ident, ident \subseteq ident', Alone(n)'  PROVE Alone(n)
  BY <1>a DEF Alone
<1>b. ASSUME NEW n \in ident, UNCHANGED bundle, Sent(n)  PROVE Sent(n)'
  BY <1>b DEF Sent
<1>c. ASSUME NEW n \in ident, Sending(n), \A d \in Call : At(d, "upload") => At(d, "upload")'
      PROVE Sending(n)'
  BY <1>0, <1>c DEF Sending
<1>d. ASSUME ident' = ident, lacking \subseteq lacking', UNCHANGED bundle,
             \A d \in Call : At(d, "upload") => At(d, "upload")' \/ NameOf(d) \in lacking'
      PROVE SentInv'
  <2> SUFFICES ASSUME NEW n \in ident' \ lacking', Alone(n)'  PROVE Sent(n)' \/ Sending(n)'
    BY DEF SentInv
  <2>1. Sent(n) \/ Sending(n)  BY <1>a, <1>d DEF SentInv
  <2>2. CASE Sent(n)  BY <1>b, <1>d, <2>2
  <2>3. CASE Sending(n)
    <3>1. PICK d \in Call : NameOf(d) = n /\ At(d, "upload")  BY <2>3 DEF Sending
    <3>2. At(d, "upload")' /\ NameOf(d)' = n  BY <1>0, <1>d, <3>1
    <3> QED  BY <3>2 DEF Sending
  <2> QED  BY <2>1, <2>2, <2>3
<1>1. ASSUME NEW c \in Call, NEW b \in Browser, NEW u \in User, Connect(c, b, u)  PROVE SentInv'
  BY <1>1, <1>d DEF Connect, Begin, Fresh, serverVars, storeVars
<1>2. ASSUME NEW c \in Call, Proteus(c)  PROVE SentInv'
  <2>1. ident' = ident \cup {NameOf(c)} /\ UNCHANGED <<bundle, lacking>> /\ At(c, "proteus") /\ NameOf(c)' = NameOf(c)
    BY <1>0, <1>2 DEF Proteus, serverVars, historyVars
  <2>2. \A d \in Call : At(d, "upload") => At(d, "upload")'  BY <1>2 DEF Proteus, Goto
  <2> SUFFICES ASSUME NEW n \in ident' \ lacking', Alone(n)'  PROVE Sent(n)' \/ Sending(n)'
    BY DEF SentInv
  <2>3. CASE n \in ident
    <3>1. Sent(n) \/ Sending(n)  BY <1>a, <2>1, <2>3 DEF SentInv
    <3> QED  BY <1>b, <1>c, <2>1, <2>2, <2>3, <3>1
  <2>4. CASE n \notin ident
    <3>1. n = NameOf(c) /\ At(c, "upload")'  BY <1>2, <2>1, <2>4 DEF Proteus, Goto, Generated
    <3> QED  BY <2>1, <3>1 DEF Sending
  <2> QED  BY <2>3, <2>4
<1>3. ASSUME NEW c \in Call, Upload(c)  PROVE SentInv'
  <2>1. ident' = ident /\ lacking \subseteq lacking' /\ At(c, "upload")  BY <1>3 DEF Upload, storeVars
  <2>2. By(c) \in Browser /\ Of(c) \in User /\ NameOf(c) \in ident  BY <2>1 DEF By, Of, NamedInv, Named
  <2>3. PICK new : new = [by |-> By(c), left |-> MaxPrekeys]  OBVIOUS
  <2>4. \/ bundle' = [bundle EXCEPT ![Of(c)] = new]
        \/ UNCHANGED bundle /\ NameOf(c) \in lacking'
    BY <1>3, <2>3 DEF Upload
  <2>5. new # None /\ new.by = By(c)  BY <2>2, <2>3, WebAssumption
  <2>6. \A d \in Call : At(d, "upload") /\ d # c => At(d, "upload")'  BY <1>3 DEF Upload, Goto
  <2> SUFFICES ASSUME NEW n \in ident' \ lacking', Alone(n)'  PROVE Sent(n)' \/ Sending(n)'
    BY DEF SentInv
  <2>7. n \in ident \ lacking /\ Alone(n)  BY <1>a, <2>1
  <2>8. Sent(n) \/ Sending(n)  BY <2>7 DEF SentInv
  <2>9. CASE n.user = Of(c) /\ bundle' = [bundle EXCEPT ![Of(c)] = new]
    <3>1. n.by = By(c)  BY <2>2, <2>7, <2>9 DEF Alone, NameOf
    <3>2. bundle'[n.user] = new  BY <2>2, <2>9 DEF ServerInv
    <3> QED  BY <2>5, <3>1, <3>2 DEF Sent
  <2>10. CASE ~(n.user = Of(c) /\ bundle' = [bundle EXCEPT ![Of(c)] = new])
    <3>1. NameOf(c) # n  BY <2>4, <2>10 DEF NameOf
    <3>2. CASE Sent(n)
      <4>1. n.user \in User  BY <2>7 DEF BrowserInv, Names
      <4>2. bundle'[n.user] = bundle[n.user]  BY <2>4, <2>10, <4>1 DEF ServerInv
      <4> QED  BY <3>2, <4>2 DEF Sent
    <3>3. CASE Sending(n)
      <4>1. PICK d \in Call : NameOf(d) = n /\ At(d, "upload")  BY <3>3 DEF Sending
      <4>2. At(d, "upload")' /\ NameOf(d)' = n  BY <1>0, <2>6, <3>1, <4>1
      <4> QED  BY <4>2 DEF Sending
    <3> QED  BY <2>8, <3>2, <3>3
  <2> QED  BY <2>9, <2>10
<1>4. ASSUME NEW c \in Call, (ConnectStep(c) /\ ~Proteus(c) /\ ~Upload(c)) \/ ConnectError(c) \/ Drop(c)  PROVE SentInv'
  <2>1. ident' = ident /\ lacking' = lacking /\ UNCHANGED bundle
    BY <1>4 DEF ConnectStep, ReadIdentity, StoreIdentity, Register, Challenge, SignChallenge, Verify, OpenSocket,
       SocketConnects, ConnectError, Drop, serverVars, storeVars, historyVars
  <2>2. \A d \in Call : At(d, "upload") => At(d, "upload")'
    BY <1>4 DEF ConnectStep, ReadIdentity, StoreIdentity, Register, Challenge, SignChallenge, Verify, OpenSocket,
       SocketConnects, ConnectError, Drop, Goto, Settle
  <2> QED  BY <1>d, <2>1, <2>2
<1>5. ASSUME NEW b \in Browser, PageReloads(b)  PROVE SentInv'
  <2>1. ident' = ident /\ lacking \subseteq lacking' /\ UNCHANGED bundle  BY <1>5 DEF Reload, PageReloads, storeVars, serverVars
  <2>2. \A d \in Call : At(d, "upload") => At(d, "upload")' \/ NameOf(d) \in lacking'
    BY <1>5 DEF Reload, PageReloads
  <2> QED  BY <1>d, <2>1, <2>2
<1>6. CASE ServerRestart  BY <1>6 DEF ServerRestart, storeVars, SentInv
<1>7. ASSUME NEW p, TakePrekey(p), Aside  PROVE SentInv'
  <2>1. UNCHANGED <<ident, call>> /\ lacking \subseteq lacking'  BY <1>7 DEF Aside, storeVars
  <2>2. \A u \in User : bundle[u] # None => bundle'[u] # None /\ bundle'[u].by = bundle[u].by
    <3> SUFFICES ASSUME NEW u \in User, bundle[u] # None  PROVE bundle'[u] # None /\ bundle'[u].by = bundle[u].by
      OBVIOUS
    <3>1. CASE u = p
      <4>1. PICK entry : entry = bundle[u]  OBVIOUS
      <4>2. entry \in [by : Browser, left : Nat] /\ entry.left > 0  BY <1>7, <3>1, <4>1 DEF ServerInv, TakePrekey
      <4>3. PICK new : new = [entry EXCEPT !.left = @ - 1]  OBVIOUS
      <4>4. new \in [by : Browser, left : Nat] /\ new.by = entry.by  BY <4>2, <4>3
      <4>5. bundle'[u] = new  BY <1>7, <3>1, <4>1, <4>3 DEF TakePrekey, ServerInv
      <4> QED  BY <4>1, <4>4, <4>5, WebAssumption
    <3>2. CASE u # p  BY <1>7, <3>2 DEF TakePrekey, ServerInv
    <3> QED  BY <3>1, <3>2
  <2> SUFFICES ASSUME NEW n \in ident' \ lacking', Alone(n)'  PROVE Sent(n)' \/ Sending(n)'
    BY DEF SentInv
  <2>3. n \in Names /\ (Sent(n) \/ Sending(n))  BY <1>a, <2>1 DEF SentInv, BrowserInv
  <2>4. CASE Sent(n)  BY <2>2, <2>3, <2>4 DEF Sent, Names
  <2>5. CASE Sending(n)  BY <1>c, <2>1, <2>5
  <2> QED  BY <2>3, <2>4, <2>5
<1>8. CASE UNCHANGED <<ident, bundle, call>> /\ lacking \subseteq lacking'  BY <1>8, <1>d
<1> QED
  BY <1>1, <1>2, <1>3, <1>4, <1>5, <1>6, <1>7, <1>8
  DEF AccountStep, Disconnect, Aside, storeVars, serverVars, historyVars

LEMMA PrekeyStart == Init => PrekeyInv
BY AccountsStart DEF Init, AccountsInit, PrekeyInv, NamedInv, SentInv, Named

-----------------------------------------------------------------------------
(* The browser's variables *)

Busy(b) == Live(b) \cup Unfinished(b)

\* Until a call begins beside another, a browser has one call under way or one socket that is
\* not closed, and the module's variables are about it.
OneInv ==
    \A c, d \in Call : (By(c) \notin doubled /\ c \in Busy(By(c)) /\ d \in Busy(By(c))) => c = d

HeldInv ==
    \A c \in Call : (By(c) \notin doubled /\ c \in Live(By(c))) => socket[By(c)] = c

SpokenInv ==
    \A c \in Call \ disturbed :
        (By(c) \notin doubled /\ c \in Busy(By(c))) =>
            /\ localUsername[By(c)] = Of(c)
            /\ call[c].pc \notin {"crypto", "store", "proteus"} => localIdentity[By(c)] = Of(c)

TabInv == AccountsInv /\ OneInv /\ HeldInv /\ SpokenInv

\* A step that begins no call, opens no socket and leaves the module's variables alone keeps
\* TabInv, whatever it ends.
LEMMA TabCalm ==
    ASSUME TabInv, AccountStep, UNCHANGED tabVars,
           disturbed \subseteq disturbed', doubled \subseteq doubled',
           \A c \in Call : c \in Busy(By(c))' => /\ c \in Busy(By(c)) /\ ~At(c, "unused")
                                                 /\ call'[c].pc \in {"crypto", "store", "proteus"}
                                                       \/ call[c].pc \notin {"crypto", "store", "proteus"},
           \A c \in Call : c \in Live(By(c))' => c \in Live(By(c))
    PROVE  OneInv' /\ HeldInv' /\ SpokenInv'
<1>1. \A c \in Call : c \in Busy(By(c))' =>
        /\ By(c)' = By(c) /\ Of(c)' = Of(c) /\ c \in Busy(By(c))
        /\ By(c) \in Browser
  BY CallKeepsName DEF TabInv, AccountsInv, CallsInv
<1>2. \A c, d \in Call : (c \in Busy(By(c)) /\ d \in Busy(By(c))) => By(d) = By(c)
  BY DEF Busy, Live, Unfinished
<1>3. \A c \in Call : c \in Live(By(c))' => c \in Busy(By(c))'
  BY DEF Busy
<1>4. OneInv'
  <2> SUFFICES ASSUME NEW c \in Call, NEW d \in Call, By(c)' \notin doubled', c \in Busy(By(c))', d \in Busy(By(c))'
               PROVE c = d
    BY DEF OneInv
  <2>1. By(d)' = By(c)'  BY DEF Busy, Live, Unfinished, By
  <2>2. d \in Busy(By(d))'  BY <2>1
  <2>3. By(c) \notin doubled /\ c \in Busy(By(c)) /\ d \in Busy(By(d)) /\ By(d) = By(c)  BY <1>1, <2>1, <2>2
  <2> QED  BY <2>3 DEF TabInv, OneInv
<1>5. HeldInv'
  <2> SUFFICES ASSUME NEW c \in Call, By(c)' \notin doubled', c \in Live(By(c))'
               PROVE socket[By(c)] = c /\ By(c)' = By(c)
    BY DEF HeldInv, tabVars, By
  <2>1. By(c)' = By(c)  BY <1>1, <1>3
  <2> QED  BY <2>1 DEF TabInv, HeldInv
<1>6. SpokenInv'
  <2> SUFFICES ASSUME NEW c \in Call \ disturbed', By(c)' \notin doubled', c \in Busy(By(c))'
               PROVE /\ By(c)' = By(c) /\ Of(c)' = Of(c)
                     /\ localUsername[By(c)] = Of(c)
                     /\ call'[c].pc \notin {"crypto", "store", "proteus"} => localIdentity[By(c)] = Of(c)
    BY DEF SpokenInv, tabVars, By, Of
  <2>1. By(c)' = By(c) /\ Of(c)' = Of(c) /\ c \in Busy(By(c)) /\ By(c) \notin doubled  BY <1>1
  <2> QED  BY <2>1 DEF TabInv, SpokenInv
<1> QED  BY <1>4, <1>5, <1>6

Early == {"crypto", "store", "proteus"}

LEMMA BusyIs ==
    \A c \in Call : /\ c \in Busy(By(c)) <=> sock[c] \in {"connecting", "open", "out"} \/ call[c].pc \in Waiting
                    /\ c \in Live(By(c)) <=> sock[c] \in {"connecting", "open", "out"}
BY DEF Busy, Live, Unfinished

LEMMA TabSteps ==
    ASSUME TabInv, AccountStep, NEW d \in Call,
           (ConnectStep(d) /\ ~Proteus(d) /\ ~OpenSocket(d)) \/ ConnectError(d) \/ Drop(d)
    PROVE  OneInv' /\ HeldInv' /\ SpokenInv'
<1> USE DEF AccountsInv, CallsInv, CallRecord, SocketsInv, At, Waiting
<1>1. UNCHANGED tabVars
  BY DEF ConnectStep, ReadIdentity, StoreIdentity, Upload, Register, Challenge, SignChallenge, Verify,
     SocketConnects, ConnectError, Drop
<1>2. disturbed \subseteq disturbed' /\ doubled \subseteq doubled'
  BY DEF ConnectStep, ReadIdentity, StoreIdentity, Upload, Register, Challenge, SignChallenge, Verify,
     SocketConnects, ConnectError, Drop, historyVars, Fails, Answered
<1>3. \A c \in Call : sock'[c] \in {"connecting", "open", "out"} => sock[c] \in {"connecting", "open", "out"}
  BY DEF TabInv, ConnectStep, ReadIdentity, StoreIdentity, Upload, Register, Challenge, SignChallenge, Verify,
     SocketConnects, ConnectError, Drop
<1>4. \A c \in Call : c # d => call'[c] = call[c]
  BY DEF TabInv, ConnectStep, ReadIdentity, StoreIdentity, Upload, Register, Challenge, SignChallenge, Verify,
     SocketConnects, ConnectError, Drop, Goto, Settle
<1>5. \A c \in Call : sock[c] \in {"connecting", "open", "out"} => call[c].pc \in {"connecting", "done", "failed"}
  BY DEF TabInv
<1>6. \/ call'[d].pc \in {"store", "proteus"} /\ call[d].pc \in Waiting
      \/ call[d].pc \in Waiting \ Early
      \/ call'[d].pc = call[d].pc
  <2> USE DEF Early
  <2>1. CASE ReadIdentity(d)  BY <2>1 DEF ReadIdentity, TabInv
  <2>2. CASE StoreIdentity(d)  BY <2>2 DEF StoreIdentity, Goto, TabInv
  <2>3. CASE Upload(d)  BY <2>3 DEF Upload
  <2>4. CASE Register(d)  BY <2>4 DEF Register
  <2>5. CASE Challenge(d)  BY <2>5 DEF Challenge
  <2>6. CASE Verify(d)  BY <2>6 DEF Verify
  <2>7. CASE SignChallenge(d)  BY <2>7 DEF SignChallenge
  <2>8. CASE SocketConnects(d)  BY <2>8 DEF SocketConnects, Settle
  <2>9. CASE ConnectError(d)  BY <2>9 DEF ConnectError
  <2>10. CASE Drop(d)  BY <2>10 DEF Drop
  <2> QED  BY <2>1, <2>2, <2>3, <2>4, <2>5, <2>6, <2>7, <2>8, <2>9, <2>10 DEF ConnectStep
<1>7. \A c \in Call : c \in Live(By(c))' => c \in Live(By(c))
  BY <1>3, BusyIs DEF Live
<1>8. \A c \in Call : c \in Busy(By(c))' => sock'[c] \in {"connecting", "open", "out"} \/ call'[c].pc \in Waiting
  BY DEF Busy, Live, Unfinished
<1>9. \A c \in Call : c \in Busy(By(c))' => /\ c \in Busy(By(c)) /\ ~At(c, "unused")
                                            /\ call'[c].pc \in Early \/ call[c].pc \notin Early
  <2> SUFFICES ASSUME NEW c \in Call, c \in Busy(By(c))'
               PROVE  /\ c \in Busy(By(c)) /\ ~At(c, "unused")
                      /\ call'[c].pc \in Early \/ call[c].pc \notin Early
    OBVIOUS
  <2>1. sock[c] \in {"connecting", "open", "out"} \/ call[c].pc \in Waiting
    BY <1>3, <1>4, <1>6, <1>8
  <2>2. call[c].pc \in {"connecting", "done", "failed"} \/ call[c].pc \in Waiting  BY <1>5, <2>1
  <2>3. call'[c].pc \in Early \/ call[c].pc \notin Early  BY <1>4, <1>6, <2>2 DEF Early
  <2> QED  BY <2>1, <2>2, <2>3, BusyIs
<1> QED  BY <1>1, <1>2, <1>7, <1>9, TabCalm DEF Early

LEMMA TabConnect ==
    ASSUME TabInv, AccountStep, NEW c \in Call, NEW b \in Browser, NEW u \in User, Connect(c, b, u)
    PROVE  OneInv' /\ HeldInv' /\ SpokenInv'
<1> USE DEF AccountsInv, CallsInv, CallRecord, SocketsInv, At, Waiting
<1>0. call[c].pc = "unused" /\ sock[c] = "none"  BY DEF Connect, Fresh, TabInv
<1>1. UNCHANGED <<sock, socket, localIdentity>> /\ disturbed \subseteq disturbed' /\ doubled \subseteq doubled'
  BY DEF Connect
<1>2. PICK pc \in {"crypto", "done"} : call' = [call EXCEPT ![c] = [pc |-> pc, by |-> b, user |-> u, key |-> None]]
  BY DEF Connect, Begin
<1>3. \A d \in Call : d # c => call'[d] = call[d]  BY <1>2 DEF TabInv
<1>3a. call'[c] = [pc |-> pc, by |-> b, user |-> u, key |-> None]  BY <1>2 DEF TabInv
<1>4. \A d \in Call : d # c => By(d)' = By(d) /\ Of(d)' = Of(d)  BY <1>3 DEF By, Of
<1>5. \A d \in Call : /\ d \in Busy(By(d))' => d = c \/ d \in Busy(By(d))
                      /\ d \in Live(By(d))' => d # c /\ d \in Live(By(d))
  BY <1>0, <1>1, <1>3, BusyIs DEF Busy, Live, Unfinished
<1>6. CASE pc = "done"
  <2>1. c \notin Busy(By(c))'  BY <1>0, <1>1, <1>3a, <1>6 DEF Busy, Live, Unfinished
  <2>2. UNCHANGED localUsername /\ disturbed' = disturbed  BY <1>2, <1>3a, <1>6 DEF Connect, Begin, TabInv
  <2>3. \A d \in Call : d \in Busy(By(d))' => call'[d] = call[d] /\ By(d)' = By(d) /\ Of(d)' = Of(d) /\ d \in Busy(By(d))
    BY <1>3, <1>4, <1>5, <2>1
  <2>4. OneInv'
    <3> SUFFICES ASSUME NEW e \in Call, NEW d \in Call, By(e)' \notin doubled', e \in Busy(By(e))', d \in Busy(By(e))'
                 PROVE e = d
      BY DEF OneInv
    <3>1. By(d)' = By(e)'  BY DEF Busy, Live, Unfinished, By
    <3>2. d \in Busy(By(d))'  BY <3>1
    <3>3. By(e) \notin doubled /\ e \in Busy(By(e)) /\ d \in Busy(By(d)) /\ By(d) = By(e)  BY <1>1, <2>3, <3>1, <3>2
    <3> QED  BY <3>3 DEF TabInv, OneInv
  <2>5. HeldInv'
    <3> SUFFICES ASSUME NEW d \in Call, By(d)' \notin doubled', d \in Live(By(d))'
                 PROVE socket[By(d)] = d /\ By(d)' = By(d)
      BY <1>1 DEF HeldInv, By
    <3>1. d \in Live(By(d)) /\ By(d)' = By(d)  BY <1>4, <1>5
    <3> QED  BY <1>1, <3>1 DEF TabInv, HeldInv
  <2>6. SpokenInv'
    <3> SUFFICES ASSUME NEW d \in Call \ disturbed', By(d)' \notin doubled', d \in Busy(By(d))'
                 PROVE /\ By(d)' = By(d) /\ Of(d)' = Of(d)
                       /\ localUsername[By(d)] = Of(d)
                       /\ call'[d].pc \notin Early => localIdentity[By(d)] = Of(d)
      BY <1>1, <2>2 DEF SpokenInv, By, Of, Early
    <3> QED  BY <1>1, <2>3 DEF TabInv, SpokenInv, Early
  <2> QED  BY <2>4, <2>5, <2>6
<1>7. CASE pc = "crypto"
  <2>1. localUsername' = [localUsername EXCEPT ![b] = u]  BY <1>2, <1>3a, <1>7 DEF Connect, Begin, TabInv
  <2>2. b \notin doubled' => Busy(b) = {}  BY <1>2, <1>3a, <1>7 DEF Connect, Begin, Busy, TabInv
  <2>3. \A d \in Call : d \in Busy(By(d))' /\ By(d)' \notin doubled' =>
            \/ d = c
            \/ /\ call'[d] = call[d] /\ By(d)' = By(d) /\ Of(d)' = Of(d) /\ d \in Busy(By(d)) /\ By(d) # b
    BY <1>3, <1>4, <1>5, <2>2
  <2>4. By(c)' = b /\ Of(c)' = u  BY <1>3a DEF By, Of
  <2>5. OneInv'
    <3> SUFFICES ASSUME NEW e \in Call, NEW d \in Call, By(e)' \notin doubled', e \in Busy(By(e))', d \in Busy(By(e))'
                 PROVE e = d
      BY DEF OneInv
    <3>1. By(d)' = By(e)'  BY DEF Busy, Live, Unfinished, By
    <3>2. d \in Busy(By(d))' /\ By(d)' \notin doubled'  BY <3>1
    <3>3. CASE e # c /\ d # c
      <4>1. By(e) \notin doubled /\ e \in Busy(By(e)) /\ d \in Busy(By(d)) /\ By(d) = By(e)
        BY <1>1, <2>3, <3>1, <3>2, <3>3
      <4> QED  BY <4>1 DEF TabInv, OneInv
    <3>4. CASE e = c \/ d = c  BY <2>3, <2>4, <3>1, <3>2, <3>4
    <3> QED  BY <3>3, <3>4
  <2>6. HeldInv'
    <3> SUFFICES ASSUME NEW d \in Call, By(d)' \notin doubled', d \in Live(By(d))'
                 PROVE socket[By(d)] = d /\ By(d)' = By(d)
      BY <1>1 DEF HeldInv, By
    <3>1. d \in Live(By(d)) /\ By(d)' = By(d)  BY <1>4, <1>5
    <3> QED  BY <1>1, <3>1 DEF TabInv, HeldInv
  <2>7. SpokenInv'
    <3> SUFFICES ASSUME NEW d \in Call \ disturbed', By(d)' \notin doubled', d \in Busy(By(d))'
                 PROVE /\ localUsername'[By(d)'] = Of(d)'
                       /\ call'[d].pc \notin Early => localIdentity[By(d)'] = Of(d)'
      BY <1>1 DEF SpokenInv, By, Of, Early
    <3>1. CASE d = c
      BY <1>3a, <1>7, <2>1, <2>4, <3>1 DEF BrowserInv, TabInv, Early
    <3>2. CASE d # c
      <4>1. call'[d] = call[d] /\ By(d)' = By(d) /\ Of(d)' = Of(d) /\ d \in Busy(By(d)) /\ By(d) # b
        BY <2>3, <3>2
      <4>2. By(d) \in Browser  BY <1>0, <4>1, BusyIs DEF TabInv
      <4>3. localUsername'[By(d)] = localUsername[By(d)]  BY <2>1, <4>1, <4>2 DEF BrowserInv, TabInv
      <4> QED  BY <1>1, <4>1, <4>3 DEF TabInv, SpokenInv, Early
    <3> QED  BY <3>1, <3>2
  <2> QED  BY <2>5, <2>6, <2>7
<1> QED  BY <1>6, <1>7

LEMMA OneShrinks ==
    ASSUME OneInv,
           \A c \in Call : (c \in Busy(By(c))' /\ By(c)' \notin doubled') =>
               c \in Busy(By(c)) /\ By(c) \notin doubled /\ By(c)' = By(c)
    PROVE  OneInv'
<1> SUFFICES ASSUME NEW e \in Call, NEW d \in Call, By(e)' \notin doubled', e \in Busy(By(e))', d \in Busy(By(e))'
             PROVE e = d
  BY DEF OneInv
<1>1. By(d)' = By(e)'  BY DEF Busy, Live, Unfinished, By
<1>2. d \in Busy(By(d))' /\ By(d)' \notin doubled'  BY <1>1
<1>3. By(e) \notin doubled /\ e \in Busy(By(e)) /\ d \in Busy(By(d)) /\ By(d) = By(e)  BY <1>1, <1>2
<1> QED  BY <1>3 DEF OneInv

LEMMA TabProteus ==
    ASSUME TabInv, AccountStep, NEW c \in Call, Proteus(c) \/ OpenSocket(c)
    PROVE  OneInv' /\ HeldInv' /\ SpokenInv'
<1> USE DEF AccountsInv, CallsInv, CallRecord, SocketsInv, At, Waiting
<1>0. call[c].pc \in {"proteus", "open"} /\ sock[c] = "none" /\ By(c) \in Browser
  BY DEF Proteus, OpenSocket, TabInv
<1>1. /\ UNCHANGED <<localUsername, disturbed, doubled>>
      /\ Proteus(c) => UNCHANGED <<sock, socket>> /\ localIdentity' = [localIdentity EXCEPT ![By(c)] = Of(c)]
      /\ OpenSocket(c) => /\ UNCHANGED localIdentity /\ call[c].pc = "open"
                          /\ socket' = [socket EXCEPT ![By(c)] = c] /\ sock' = [sock EXCEPT ![c] = "connecting"]
  BY DEF Proteus, OpenSocket, historyVars
<1>2. PICK pc : call' = [call EXCEPT ![c].pc = pc]  BY DEF Proteus, OpenSocket, Goto
<1>3. \A d \in Call : /\ By(d)' = By(d) /\ Of(d)' = Of(d)
                      /\ d # c => call'[d] = call[d]
  BY <1>2 DEF By, Of, TabInv
<1>4. c \in Busy(By(c))  BY <1>0, BusyIs
<1>5. \A d \in Call : d \in Busy(By(d))' => d \in Busy(By(d))
  <2> SUFFICES ASSUME NEW d \in Call, d # c, d \in Busy(By(d))'  PROVE d \in Busy(By(d))  BY <1>4
  <2>1. sock'[d] = sock[d]  BY <1>1 DEF TabInv
  <2> QED  BY <1>3, <2>1, BusyIs DEF Busy, Live, Unfinished
<1>6. OneInv'  BY <1>1, <1>3, <1>5, OneShrinks DEF TabInv
<1>7. \A d \in Call : (d \in Busy(By(d))' /\ By(d) \notin doubled /\ d # c) => By(d) # By(c)
  BY <1>4, <1>5 DEF TabInv, OneInv
<1>r. \A b \in Browser : b # By(c) => socket'[b] = socket[b] /\ localIdentity'[b] = localIdentity[b]
  BY <1>0, <1>1 DEF TabInv, BrowserInv
<1>s. \A d \in Call : d # c => sock'[d] = sock[d]  BY <1>1 DEF TabInv
<1>t. \A d \in Call : d \in Busy(By(d))' => By(d) \in Browser  BY <1>5, BusyIs DEF TabInv
<1>8. HeldInv'
  <2> SUFFICES ASSUME NEW d \in Call, By(d) \notin doubled, d \in Live(By(d))'
               PROVE socket'[By(d)] = d
    BY <1>1, <1>3 DEF HeldInv
  <2>0. d \in Busy(By(d))'  BY DEF Busy
  <2>1. CASE d = c /\ OpenSocket(c)  BY <1>0, <1>1, <2>1 DEF TabInv, BrowserInv
  <2>2. CASE d = c /\ Proteus(c)  BY <1>0, <1>1, <2>2 DEF Live
  <2>3. CASE d # c
    <3>1. By(d) # By(c)  BY <1>7, <2>0, <2>3
    <3>2. socket'[By(d)] = socket[By(d)] /\ sock'[d] = sock[d]  BY <1>r, <1>s, <1>t, <2>0, <2>3, <3>1
    <3>3. d \in Live(By(d))  BY <3>2 DEF Live
    <3> QED  BY <3>2, <3>3 DEF TabInv, HeldInv
  <2> QED  BY <2>1, <2>2, <2>3
<1>9. SpokenInv'
  <2> SUFFICES ASSUME NEW d \in Call \ disturbed, By(d) \notin doubled, d \in Busy(By(d))'
               PROVE /\ localUsername[By(d)] = Of(d)
                     /\ call'[d].pc \notin Early => localIdentity'[By(d)] = Of(d)
    BY <1>1, <1>3 DEF SpokenInv, Early
  <2>1. localUsername[By(d)] = Of(d) /\ (call[d].pc \notin Early => localIdentity[By(d)] = Of(d))
    BY <1>5 DEF TabInv, SpokenInv, Early
  <2>2. CASE d = c
    <3>1. OpenSocket(c) => localIdentity'[By(c)] = Of(c)  BY <1>1, <2>1, <2>2 DEF Early
    <3>2. Proteus(c) => localIdentity'[By(c)] = Of(c)  BY <1>0, <1>1 DEF TabInv, BrowserInv
    <3> QED  BY <2>1, <2>2, <3>1, <3>2
  <2>3. CASE d # c
    <3>1. By(d) # By(c)  BY <1>7, <2>3
    <3>2. localIdentity'[By(d)] = localIdentity[By(d)]  BY <1>r, <1>t, <3>1
    <3> QED  BY <1>3, <2>1, <2>3, <3>2
  <2> QED  BY <2>2, <2>3
<1> QED  BY <1>6, <1>8, <1>9

LEMMA TabLeaves ==
    ASSUME TabInv, AccountStep, NEW b \in Browser, Disconnect(b) \/ PageReloads(b)
    PROVE  OneInv' /\ HeldInv' /\ SpokenInv'
<1> USE DEF AccountsInv, CallsInv, CallRecord, SocketsInv, At, Waiting
<1>1. /\ socket' = [socket EXCEPT ![b] = None]
      /\ localUsername' = [localUsername EXCEPT ![b] = None] /\ localIdentity' = [localIdentity EXCEPT ![b] = None]
      /\ disturbed' = disturbed \cup Unfinished(b)
  BY DEF Disconnect, Reload, PageReloads
<1>2. \A d \in Call : By(d)' = By(d) /\ Of(d)' = Of(d) /\ call'[d].pc \in {call[d].pc, "failed"}
  BY DEF Disconnect, Reload, PageReloads, TabInv, By, Of
<1>3. \A d \in Call : By(d) # b => call'[d] = call[d] /\ sock'[d] = sock[d]
  <2> SUFFICES ASSUME NEW d \in Call, By(d) # b  PROVE call'[d] = call[d] /\ sock'[d] = sock[d]  OBVIOUS
  <2>1. CASE Disconnect(b)  BY <2>1, WebAssumption DEF Disconnect, TabInv, BrowserInv, By
  <2>2. CASE PageReloads(b)  BY <2>2 DEF Reload, PageReloads, Unfinished, Live, TabInv
  <2> QED  BY <2>1, <2>2
<1>4. \A d \in Call : /\ d \in Live(By(d))' => d \in Live(By(d))
                      /\ d \in Busy(By(d))' => d \in Busy(By(d))
  <2>1. \A d \in Call : /\ sock'[d] \in {"connecting", "open", "out"} => sock[d] \in {"connecting", "open", "out"}
                        /\ call'[d].pc \in Waiting => call[d].pc \in Waiting
    BY <1>2 DEF Disconnect, Reload, PageReloads, TabInv
  <2> QED  BY <2>1, BusyIs DEF Busy, Live, Unfinished
<1>5. ASSUME NEW d \in Call, By(d) = b, By(d)' \notin doubled', d \in Busy(By(d))'
      PROVE  b \notin doubled /\ d \in disturbed' /\ d \notin Live(By(d))'
  <2>1. CASE PageReloads(b)
    <3>1. d \notin Live(b)' /\ d \notin Unfinished(b)'  BY <1>5, <2>1 DEF Reload, PageReloads, Live, Unfinished
    <3> QED  BY <1>2, <1>5, <3>1 DEF Busy
  <2>2. CASE Disconnect(b)
    <3>1. b \notin doubled  BY <1>2, <1>5, <2>2 DEF Disconnect
    <3>2. ASSUME d \in Live(b)  PROVE sock'[d] = "closed"
      BY <1>5, <2>2, <3>1, <3>2 DEF Disconnect, TabInv, HeldInv
    <3>3. d \notin Live(By(d))'
      <4>1. CASE d \in Live(b)  BY <3>2, <4>1 DEF Live
      <4>2. CASE d \notin Live(b)  BY <1>4, <1>5, <4>2
      <4> QED  BY <4>1, <4>2
    <3>4. d \in Unfinished(b)  BY <1>2, <1>5, <2>2, <3>3 DEF Busy, Unfinished, Disconnect
    <3> QED  BY <1>1, <3>1, <3>3, <3>4
  <2> QED  BY <2>1, <2>2
<1>6. \A d \in Call : (d \in Busy(By(d))' /\ By(d)' \notin doubled') => By(d) \notin doubled
  <2> SUFFICES ASSUME NEW d \in Call, d \in Busy(By(d))', By(d)' \notin doubled'  PROVE By(d) \notin doubled
    OBVIOUS
  <2>1. CASE By(d) = b  BY <1>5, <2>1
  <2>2. CASE By(d) # b  BY <1>2, <2>2 DEF Disconnect, Reload, PageReloads
  <2> QED  BY <2>1, <2>2
<1>7. OneInv'  BY <1>2, <1>4, <1>6, OneShrinks DEF TabInv
<1>8. HeldInv'
  <2> SUFFICES ASSUME NEW d \in Call, By(d)' \notin doubled', d \in Live(By(d))'
               PROVE socket'[By(d)] = d
    BY <1>2 DEF HeldInv
  <2>1. d \in Busy(By(d))'  BY DEF Busy
  <2>2. By(d) # b /\ By(d) \notin doubled /\ d \in Live(By(d))  BY <1>4, <1>5, <1>6, <2>1
  <2>3. socket[By(d)] = d  BY <2>2 DEF TabInv, HeldInv
  <2> QED  BY <1>1, <2>2, <2>3, BusyIs DEF TabInv, BrowserInv
<1>9. SpokenInv'
  <2> SUFFICES ASSUME NEW d \in Call \ disturbed', By(d)' \notin doubled', d \in Busy(By(d))'
               PROVE /\ localUsername'[By(d)] = Of(d)
                     /\ call'[d].pc \notin Early => localIdentity'[By(d)] = Of(d)
    BY <1>2 DEF SpokenInv, Early
  <2>1. By(d) # b /\ By(d) \notin doubled /\ d \in Busy(By(d))  BY <1>4, <1>5, <1>6
  <2>2. By(d) \in Browser  BY <2>1, BusyIs DEF TabInv
  <2>3. localUsername[By(d)] = Of(d) /\ (call[d].pc \notin Early => localIdentity[By(d)] = Of(d))
    BY <1>1, <2>1 DEF TabInv, SpokenInv, Early
  <2>4. localUsername'[By(d)] = localUsername[By(d)] /\ localIdentity'[By(d)] = localIdentity[By(d)]
    BY <1>1, <2>1, <2>2 DEF TabInv, BrowserInv
  <2> QED  BY <1>3, <2>1, <2>3, <2>4
<1> QED  BY <1>7, <1>8, <1>9

LEMMA TabOthers ==
    ASSUME TabInv, AccountStep, ServerRestart \/ Aside
    PROVE  OneInv' /\ HeldInv' /\ SpokenInv'
<1>1. UNCHANGED <<tabVars, call, doubled>> /\ disturbed \subseteq disturbed'
  BY DEF ServerRestart, Aside, historyVars
<1>2. \A c \in Call : sock'[c] \in {"connecting", "open", "out"} => sock[c] \in {"connecting", "open", "out"}
  BY DEF ServerRestart, Aside, TabInv, AccountsInv, SocketsInv
<1>3. \A c \in Call : /\ c \in Live(By(c))' => c \in Live(By(c))
                      /\ c \in Busy(By(c))' => c \in Busy(By(c))
  BY <1>1, <1>2 DEF Busy, Live, Unfinished, By
<1>4. \A c \in Call : c \in Busy(By(c)) => ~At(c, "unused")
  BY BusyIs DEF TabInv, AccountsInv, SocketsInv, At, Waiting
<1> QED  BY <1>1, <1>3, <1>4, TabCalm

LEMMA TabStep == ASSUME TabInv, AccountStep  PROVE OneInv' /\ HeldInv' /\ SpokenInv'
<1>1. ASSUME NEW c \in Call, ConnectStep(c) \/ ConnectError(c) \/ Drop(c)
      PROVE OneInv' /\ HeldInv' /\ SpokenInv'
  <2>1. CASE Proteus(c) \/ OpenSocket(c)  BY <2>1, TabProteus
  <2>2. CASE ~(Proteus(c) \/ OpenSocket(c))  BY <1>1, <2>2, TabSteps
  <2> QED  BY <2>1, <2>2
<1>2. ASSUME NEW b \in Browser, Disconnect(b) \/ PageReloads(b)
      PROVE OneInv' /\ HeldInv' /\ SpokenInv'
  BY <1>2, TabLeaves
<1> QED  BY <1>1, <1>2, TabConnect, TabOthers DEF AccountStep

LEMMA TabStart == Init => TabInv
BY AccountsStart DEF Init, AccountsInit, TabInv, OneInv, HeldInv, SpokenInv, Busy, Live, Unfinished, Waiting

\* The module's variables describe the browser's socket, after every connect, disconnect and
\* reload, for any number of calls (connectTransport, disconnectTransport).
THEOREM TabCorrect == Spec => []TabMatchesSockets
<1>1. TabInv /\ AccountStep => TabInv'  BY AccountsStep, TabStep DEF TabInv
<1>2. TabInv => TabMatchesSockets
  <2> SUFFICES ASSUME TabInv, NEW b \in Browser \ doubled
               PROVE /\ socket[b] = None => Live(b) = {}
                     /\ (Connected(b) /\ socket[b] \notin disturbed) =>
                            localUsername[b] = Of(socket[b]) /\ localIdentity[b] = Of(socket[b])
    BY DEF TabMatchesSockets
  <2>1. ASSUME NEW c \in Live(b)  PROVE socket[b] # None
    BY WebAssumption DEF Live, TabInv, HeldInv
  <2>2. ASSUME Connected(b), socket[b] \notin disturbed
        PROVE localUsername[b] = Of(socket[b]) /\ localIdentity[b] = Of(socket[b])
    <3>1. PICK c : c = socket[b]  OBVIOUS
    <3>2. c \in Call \ disturbed /\ sock[c] = "open" /\ By(c) = b
      BY <2>2, <3>1 DEF Connected, TabInv, AccountsInv, BrowserInv, SocketsInv
    <3>3. c \in Busy(By(c)) /\ call[c].pc \in {"connecting", "done", "failed"}
      BY <3>2, BusyIs DEF TabInv, AccountsInv, SocketsInv
    <3> QED  BY <3>1, <3>2, <3>3 DEF TabInv, SpokenInv
  <2> QED  BY <2>1, <2>2
<1> QED  BY <1>1, <1>2, TabStart, StepIsAccountStep, PTL DEF Spec
-----------------------------------------------------------------------------
(* Messages: types *)

HandlePc == {"open", "keep"}
HoldPc   == {"init", "encrypt", "keep"}

IsSession(s) ==
    /\ DOMAIN s = {"tag", "send", "answers", "n", "pre", "owner", "recv"}
    /\ s.tag \in Chain /\ s.send \in Chain /\ s.answers \in Chain \cup {0} /\ s.n \in Nat
    /\ s.pre \in BOOLEAN /\ s.owner \in Browser /\ DOMAIN s.recv \subseteq Chain
    /\ s.pre => s.answers = 0 /\ s.recv = <<>> /\ s.send = s.tag

EnvelopeType ==
    [by : Browser, from : User \cup {None}, to : User, tag : Nat, pre : BOOLEAN, owner : Browser,
     chain : Nat, answers : Nat, n : Nat]
OnChain(m) == m.tag \in Chain /\ m.chain \in Chain /\ (m.pre => m.chain = m.tag)

IsOp(r) ==
    /\ r.pc \in SendPc \cup HandlePc \cup {"idle"}
    /\ r.pc \in SendPc =>
           /\ DOMAIN r = {"pc", "by", "user", "via", "todo", "out", "sess"} /\ r.by \in Browser
           /\ r.via \in {"direct", "group", "forgotten"}
           /\ r.todo \in Seq(User) /\ (r.pc \notin {"group", "emit"} => r.todo # <<>>)
           /\ r.out \in Seq(EnvelopeType) /\ \A k \in DOMAIN r.out : OnChain(r.out[k])
    /\ r.pc \in HandlePc =>
           DOMAIN r = {"pc", "by", "user", "msg", "sess"} /\ r.by \in Browser /\ r.msg \in DOMAIN sent
    /\ r.pc \in HoldPc => IsSession(r.sess)

StoreInv ==
    /\ DOMAIN store = Browser /\ \A b \in Browser : DOMAIN store[b] = User
    /\ \A b \in Browser, p \in User : store[b][p] = NoSession \/ IsSession(store[b][p])

OpsInv == DOMAIN op = Op /\ \A o \in Op : IsOp(op[o])

PostInv ==
    /\ sent \in Seq(EnvelopeType)
    /\ \A i \in DOMAIN sent : OnChain(sent[i]) /\ sent[i].from \in User

GroupInv == group \subseteq User /\ IsFiniteSet(group) /\ (group = {} \/ Cardinality(group) > 1)

\* A call asks for a group that is there, until the server forgets it.
KnownInv ==
    \A o \in Op : op[o].pc = "group" => op[o].via = "forgotten" \/ (op[o].via = "group" /\ group # {})

\* A message that waits is for this user, was not handled and has no handler.
MailInv ==
    /\ mail \in [User -> SUBSET DOMAIN sent]
    /\ read \cup unread \cup dropped \subseteq DOMAIN sent
    /\ \A u \in User : \A i \in mail[u] :
           /\ sent[i].to = u /\ i \notin read \cup unread \cup dropped
           /\ \A o \in Op : op[o].pc \in HandlePc => op[o].msg # i

SpoiledInv == chains \in Nat /\ spoiled \subseteq Browser \X User
SessionsInv == SpoiledInv /\ StoreInv /\ OpsInv /\ PostInv /\ GroupInv /\ KnownInv /\ MailInv
MessagesInv == AccountsInv /\ SessionsInv

LEMMA MessagesStart == Init => MessagesInv
<1> SUFFICES ASSUME Init PROVE MessagesInv  OBVIOUS
<1>1. StoreInv /\ OpsInv /\ PostInv /\ KnownInv /\ MailInv
  BY DEF Init, StoreInv, OpsInv, PostInv, KnownInv, MailInv, IsOp, Idle, SendPc, HandlePc, HoldPc
<1>2. GroupInv  BY FS_EmptySet DEF Init, GroupInv
<1> QED  BY <1>1, <1>2, AccountsStart DEF Init, MessagesInv, SessionsInv, SpoiledInv

LEMMA MessagesTyped == MessagesInv /\ TakersType => TypeOK
<1> SUFFICES ASSUME MessagesInv, TakersType PROVE TypeOK  OBVIOUS
<1>1. AccountsTypeOK  BY AccountsTyped DEF MessagesInv, SessionsInv, SpoiledInv
<1>2. \A b \in Browser, p \in User : LET s == store[b][p] IN
         s # NoSession => /\ {s.tag, s.send} \subseteq Chain /\ s.answers \in Chain \cup {0}
                          /\ s.pre => (s.answers = 0 /\ s.recv = <<>>)
                          /\ DOMAIN s.recv \subseteq Chain
  BY DEF MessagesInv, SessionsInv, SpoiledInv, StoreInv, IsSession
<1>3. \A o \in Op : op[o].pc \in SendPc \cup {"idle", "open", "keep"}
  BY DEF MessagesInv, SessionsInv, SpoiledInv, OpsInv, IsOp, SendPc, HandlePc
<1>4. /\ \A u \in User : mail[u] \subseteq DOMAIN sent \ (read \cup unread \cup dropped)
      /\ {read, unread, dropped} \subseteq SUBSET DOMAIN sent
  BY DEF MessagesInv, SessionsInv, SpoiledInv, MailInv
<1>5. \A i \in DOMAIN sent : sent[i].pre => sent[i].chain = sent[i].tag
  BY DEF MessagesInv, SessionsInv, SpoiledInv, PostInv, OnChain
<1> QED  BY <1>1, <1>2, <1>3, <1>4, <1>5 DEF TypeOK, MessagesInv, SessionsInv, SpoiledInv, GroupInv

\* Chains and messages are only added.
Grows == chains' \in Nat /\ chains <= chains' /\ Len(sent) <= Len(sent')
OneOp(o) == DOMAIN op' = Op /\ \A x \in Op \ {o} : op'[x] = op[x]

LEMMA SentGrows ==
    ASSUME MessagesInv, Grows, sent' \in Seq(EnvelopeType)  PROVE DOMAIN sent \subseteq DOMAIN sent' /\ Chain \subseteq Chain'
BY DEF MessagesInv, SessionsInv, SpoiledInv, PostInv, Grows, Chain

LEMMA OpStays ==
    ASSUME NEW r, IsOp(r), DOMAIN sent \subseteq DOMAIN sent' /\ Chain \subseteq Chain'
    PROVE  IsOp(r)'
BY DEF IsOp, IsSession, OnChain, HoldPc, SendPc, HandlePc

LEMMA OpChanges ==
    ASSUME MessagesInv, Grows, sent' \in Seq(EnvelopeType), NEW o, OneOp(o), o \in Op => IsOp(op[o])'
    PROVE  OpsInv'
<1>1. \A r : IsOp(r) => IsOp(r)'  BY SentGrows, OpStays
<1>2. ASSUME NEW x \in Op, x # o  PROVE IsOp(op[x])'
  <2>1. PICK r : r = op[x]  OBVIOUS
  <2>2. IsOp(r)'  BY <1>1, <2>1 DEF MessagesInv, SessionsInv, SpoiledInv, OpsInv
  <2>3. op'[x] = r  BY <1>2, <2>1 DEF OneOp
  <2> QED  BY <2>2, <2>3
<1> QED  BY <1>2 DEF OpsInv, OneOp

LEMMA IdleIsOp == IsOp(Idle)'
BY DEF IsOp, Idle, SendPc, HandlePc, HoldPc

LEMMA SeqOfSet ==
    ASSUME NEW S, IsFiniteSet(S), S # {}  PROVE SetToSeq(S) \in Seq(S) /\ SetToSeq(S) # <<>>
<1>1. PICK n \in Nat : ExistsBijection(1..n, S)  BY FS_NatBijection
<1>2. Cardinality(S) = n  BY <1>1, FS_CountingElements
<1>3. PICK f : f \in Bijection(1..n, S)  BY <1>1 DEF ExistsBijection
<1>4. f \in [1 .. Cardinality(S) -> S] /\ IsInjective(f)
  BY <1>2, <1>3 DEF Bijection, Injection, Surjection
<1>5. SetToSeq(S) \in [1 .. Cardinality(S) -> S]  BY <1>4 DEF SetToSeq
<1>6. n # 0  BY <1>2, FS_EmptySet
<1> QED  BY <1>2, <1>5, <1>6

\* Every operation has its fields after a step, and what is stored is a session.
OpsKept == OpsInv' /\ StoreInv'

LEMMA EndKept ==
    ASSUME MessagesInv, Grows, sent' \in Seq(EnvelopeType), NEW o \in Op, End(o)  PROVE OpsInv'
<1>1. OneOp(o) /\ op'[o] = Idle  BY DEF End, OneOp, MessagesInv, SessionsInv, SpoiledInv, OpsInv
<1> QED  BY <1>1, OpChanges, IdleIsOp

LEMMA CalmGrows ==
    ASSUME MessagesInv, UNCHANGED sent, UNCHANGED chains  PROVE Grows /\ sent' \in Seq(EnvelopeType)
BY DEF MessagesInv, SessionsInv, SpoiledInv, PostInv, Grows

LEMMA StoreStays ==
    ASSUME MessagesInv, Grows, UNCHANGED store  PROVE StoreInv'
BY DEF MessagesInv, SessionsInv, SpoiledInv, StoreInv, IsSession, Grows, Chain

LEMMA BeginKept ==
    ASSUME MessagesInv, NEW o \in Op, NEW b \in Browser,
           SendGroupMessage(o, b) \/ \E p \in User : SendMessage(o, b, p)
    PROVE  OpsKept
<1>1. ASSUME NEW pc \in {"load", "group"}, NEW todo \in Seq(User), pc = "load" => todo # <<>>, NEW r,
             NEW via \in {"direct", "group", "forgotten"},
             op' = [op EXCEPT ![o] = r], UNCHANGED <<store, sent, chains>>,
             r = [pc |-> pc, by |-> b, user |-> Of(socket[b]), via |-> via, todo |-> todo, out |-> <<>>,
                  sess |-> NoSession]
      PROVE  OpsKept
  <2>1. OneOp(o) /\ op'[o] = r  BY <1>1 DEF OneOp, MessagesInv, SessionsInv, SpoiledInv, OpsInv
  <2>2. IsOp(r)'  BY <1>1 DEF IsOp, SendPc, HandlePc, HoldPc
  <2> QED  BY <1>1, <2>1, <2>2, OpChanges, CalmGrows, StoreStays DEF OpsKept
<1>2. CASE SendGroupMessage(o, b)
  <2>0. PICK via : via = IF group = {} THEN "forgotten" ELSE "group"  OBVIOUS
  <2>1. PICK r : r = [pc |-> "group", by |-> b, user |-> Of(socket[b]), via |-> via, todo |-> <<>>, out |-> <<>>,
                      sess |-> NoSession]
    OBVIOUS
  <2>2. op' = [op EXCEPT ![o] = r] /\ UNCHANGED <<store, sent, chains>> /\ via \in {"group", "forgotten"}
    BY <1>2, <2>0, <2>1 DEF SendGroupMessage
  <2>3. <<>> \in Seq(User)  OBVIOUS
  <2> QED  BY <1>1, <2>1, <2>2, <2>3
<1>3. ASSUME NEW p \in User, SendMessage(o, b, p)  PROVE OpsKept
  <2>1. PICK r : r = [pc |-> "load", by |-> b, user |-> Of(socket[b]), via |-> "direct", todo |-> <<p>>,
                      out |-> <<>>, sess |-> NoSession]
    OBVIOUS
  <2>2. op' = [op EXCEPT ![o] = r] /\ UNCHANGED <<store, sent, chains>>  BY <1>3, <2>1 DEF SendMessage
  <2>3. <<p>> \in Seq(User) /\ <<p>> # <<>>  OBVIOUS
  <2> QED  BY <1>1, <2>1, <2>2, <2>3
<1> QED  BY <1>2, <1>3

LEMMA GetGroupKept ==
    ASSUME MessagesInv, NEW o \in Op, GetGroup(o)  PROVE OpsKept
<1>0. UNCHANGED <<store, sent, chains>>  BY DEF GetGroup
<1>1. CASE End(o)  BY <1>0, <1>1, EndKept, CalmGrows, StoreStays DEF OpsKept
<1>2. CASE ~End(o)
  <2>1. op[o].pc = "group" /\ IsOp(op[o])  BY DEF GetGroup, OpAt, MessagesInv, SessionsInv, SpoiledInv, OpsInv
  <2>2. group # {} /\ IsFiniteSet(group) /\ group \subseteq User
    BY <1>2, <2>1 DEF GetGroup, MessagesInv, SessionsInv, GroupInv, KnownInv
  <2>3. PICK todo : todo = SetToSeq(group)  OBVIOUS
  <2>4. todo \in Seq(User) /\ todo # <<>>  BY <2>2, <2>3, SeqOfSet
  <2>5. op' = [op EXCEPT ![o].pc = "load", ![o].todo = todo]  BY <1>2, <2>3 DEF GetGroup
  <2>6. OneOp(o)  BY <2>5 DEF OneOp, MessagesInv, SessionsInv, SpoiledInv, OpsInv
  <2>7. IsOp(op[o])'
    BY <1>0, <2>1, <2>4, <2>5 DEF IsOp, SendPc, HandlePc, HoldPc, OnChain, Chain, MessagesInv, SessionsInv, SpoiledInv, OpsInv
  <2> QED  BY <1>0, <2>6, <2>7, OpChanges, CalmGrows, StoreStays DEF OpsKept
<1> QED  BY <1>1, <1>2

\* One recipient less: the last one leaves the send at its emit.
LEMMA OnwardIs ==
    ASSUME NEW todo \in Seq(User), todo # <<>>
    PROVE  Tail(todo) \in Seq(User) /\ (Len(todo) # 1 => Tail(todo) # <<>>)
<1>1. PICK rest : rest = Tail(todo)  OBVIOUS
<1>2. rest \in Seq(User) /\ Len(rest) = Len(todo) - 1 /\ Len(todo) # 0  BY <1>1
<1>3. Len(todo) # 1 => rest # <<>>
  <2> SUFFICES ASSUME rest = <<>> PROVE Len(todo) = 1  OBVIOUS
  <2>1. Len(rest) = 0  OBVIOUS
  <2> QED  BY <1>2, <2>1
<1> QED  BY <1>1, <1>2, <1>3

LEMMA SkipKept ==
    ASSUME MessagesInv, NEW o \in Op, SkipMyself(o)
    PROVE  /\ OpsKept /\ OneOp(o) /\ op[o].pc = "load" /\ op'[o].pc \in {"emit", "load"}
           /\ op'[o].by = op[o].by /\ op'[o].user = op[o].user /\ op'[o].out = op[o].out
<1>0. UNCHANGED <<store, sent, chains>>  BY DEF SkipMyself
<1>1. op[o].pc = "load" /\ IsOp(op[o])  BY DEF SkipMyself, OpAt, MessagesInv, SessionsInv, SpoiledInv, OpsInv
<1>2. PICK todo : todo = op[o].todo  OBVIOUS
<1>3. todo \in Seq(User) /\ todo # <<>>  BY <1>1, <1>2 DEF IsOp, SendPc
<1>4. op' = [op EXCEPT ![o].pc = IF Len(todo) = 1 THEN "emit" ELSE "load", ![o].todo = Tail(@)]
  BY <1>2 DEF SkipMyself, Onward
<1>5. OneOp(o)  BY <1>4 DEF OneOp, MessagesInv, SessionsInv, SpoiledInv, OpsInv
<1>6. /\ op'[o].pc = IF Len(todo) = 1 THEN "emit" ELSE "load"
      /\ op'[o].by = op[o].by /\ op'[o].user = op[o].user /\ op'[o].via = op[o].via /\ op'[o].todo = Tail(todo)
      /\ op'[o].out = op[o].out /\ DOMAIN op'[o] = DOMAIN op[o]
  BY <1>1, <1>2, <1>4 DEF IsOp, SendPc, MessagesInv, SessionsInv, SpoiledInv, OpsInv
<1>7. Tail(todo) \in Seq(User) /\ (Len(todo) # 1 => Tail(todo) # <<>>)  BY <1>3, OnwardIs
<1>8. IsOp(op[o])'
  BY <1>0, <1>1, <1>6, <1>7 DEF IsOp, SendPc, HandlePc, HoldPc, OnChain, Chain
<1>9. OpsKept  BY <1>0, <1>5, <1>8, OpChanges, CalmGrows, StoreStays DEF OpsKept
<1> QED  BY <1>1, <1>5, <1>6, <1>9

LEMMA LoadKept ==
    ASSUME MessagesInv, NEW o \in Op, Load(o)  PROVE OpsKept
<1>0. UNCHANGED <<store, sent, chains>>  BY DEF Load
<1>1. op[o].pc = "load" /\ IsOp(op[o])  BY DEF Load, OpAt, MessagesInv, SessionsInv, SpoiledInv, OpsInv
<1>2. PICK p : p = To(o)  OBVIOUS
<1>3. p \in User /\ op[o].by \in Browser  BY <1>1, <1>2 DEF IsOp, To, SendPc
<1>4. PICK s : s = store[op[o].by][p]  OBVIOUS
<1>5. s = NoSession \/ IsSession(s)  BY <1>3, <1>4 DEF MessagesInv, SessionsInv, SpoiledInv, StoreInv
<1>6. CASE s = NoSession
  <2>1. op' = [op EXCEPT ![o].pc = "fetch"]  BY <1>2, <1>4, <1>6 DEF Load, Stored
  <2>2. OneOp(o)  BY <2>1 DEF OneOp, MessagesInv, SessionsInv, SpoiledInv, OpsInv
  <2>3. IsOp(op[o])'  BY <1>0, <1>1, <2>1 DEF IsOp, SendPc, HandlePc, HoldPc, OnChain, Chain, MessagesInv, SessionsInv, SpoiledInv, OpsInv
  <2> QED  BY <1>0, <2>2, <2>3, OpChanges, CalmGrows, StoreStays DEF OpsKept
<1>7. CASE s # NoSession /\ op' = [op EXCEPT ![o].pc = "encrypt", ![o].sess = s]
  <2>1. OneOp(o)  BY <1>7 DEF OneOp, MessagesInv, SessionsInv, SpoiledInv, OpsInv
  <2>2. /\ op'[o].pc = "encrypt" /\ op'[o].sess = s /\ op'[o].by = op[o].by /\ op'[o].todo = op[o].todo
        /\ op'[o].out = op[o].out /\ op'[o].via = op[o].via /\ DOMAIN op'[o] = DOMAIN op[o]
    BY <1>1, <1>7 DEF IsOp, SendPc, MessagesInv, SessionsInv, SpoiledInv, OpsInv
  <2>3. IsOp(op[o])'
    BY <1>0, <1>1, <1>5, <1>7, <2>2 DEF IsOp, IsSession, SendPc, HandlePc, HoldPc, OnChain, Chain
  <2> QED  BY <1>0, <2>1, <2>3, OpChanges, CalmGrows, StoreStays DEF OpsKept
<1>8. CASE End(o)  BY <1>0, <1>8, EndKept, CalmGrows, StoreStays DEF OpsKept
<1> QED  BY <1>2, <1>4, <1>6, <1>7, <1>8 DEF Load, Stored

LEMMA FetchKept ==
    ASSUME MessagesInv, NEW o \in Op, FetchPrekey(o)  PROVE OpsKept
<1>0. UNCHANGED <<store, sent>>  BY DEF FetchPrekey
<1>1. op[o].pc = "fetch" /\ IsOp(op[o])  BY DEF FetchPrekey, OpAt, MessagesInv, SessionsInv, SpoiledInv, OpsInv
<1>2. PICK p : p = To(o)  OBVIOUS
<1>3. p \in User  BY <1>1, <1>2 DEF IsOp, To, SendPc
<1>4. CASE UNCHANGED chains /\ End(o)  BY <1>0, <1>4, EndKept, CalmGrows, StoreStays DEF OpsKept
<1>5. CASE /\ Available(p) /\ chains' = chains + 1
           /\ op' = [op EXCEPT ![o].pc = "init", ![o].sess = NewSession(bundle[p].by)]
  <2>1. PICK s : s = NewSession(bundle[p].by)  OBVIOUS
  <2>2. bundle[p].by \in Browser
    BY <1>3, <1>5 DEF Available, MessagesInv, SessionsInv, SpoiledInv, AccountsInv, ServerInv
  <2>3. IsSession(s)'  BY <1>5, <2>1, <2>2 DEF IsSession, NewSession, MessagesInv, SessionsInv, SpoiledInv, Chain
  <2>4. Grows /\ sent' \in Seq(EnvelopeType)  BY <1>0, <1>5 DEF Grows, MessagesInv, SessionsInv, SpoiledInv, PostInv
  <2>5. OneOp(o)  BY <1>5 DEF OneOp, MessagesInv, SessionsInv, SpoiledInv, OpsInv
  <2>6. /\ op'[o].pc = "init" /\ op'[o].sess = s /\ op'[o].by = op[o].by /\ op'[o].todo = op[o].todo
        /\ op'[o].out = op[o].out /\ op'[o].via = op[o].via /\ DOMAIN op'[o] = DOMAIN op[o]
    BY <1>1, <1>5, <2>1 DEF IsOp, SendPc, MessagesInv, SessionsInv, SpoiledInv, OpsInv
  <2>7. Chain \subseteq Chain'  BY <2>4, SentGrows
  <2>8. IsOp(op[o])'
    BY <1>1, <2>3, <2>6, <2>7 DEF IsOp, SendPc, HandlePc, HoldPc, OnChain
  <2> QED  BY <1>0, <2>4, <2>5, <2>8, OpChanges, StoreStays DEF OpsKept
<1> QED  BY <1>2, <1>4, <1>5 DEF FetchPrekey

LEMMA StoreChanges ==
    ASSUME MessagesInv, Grows, NEW b \in Browser, NEW p \in User, NEW s, IsSession(s)',
           store' = [store EXCEPT ![b][p] = s]
    PROVE  StoreInv'
<1>1. \A t : IsSession(t) => IsSession(t)'  BY DEF IsSession, Chain, Grows, MessagesInv, SessionsInv, SpoiledInv
<1>2. DOMAIN store' = Browser /\ \A c \in Browser : DOMAIN store'[c] = User  BY DEF MessagesInv, SessionsInv, SpoiledInv, StoreInv
<1>3. ASSUME NEW c \in Browser, NEW q \in User  PROVE (store[c][q] = NoSession \/ IsSession(store[c][q]))'
  <2>1. PICK t : t = store[c][q]  OBVIOUS
  <2>2. t = NoSession \/ IsSession(t)'  BY <1>1, <2>1 DEF MessagesInv, SessionsInv, SpoiledInv, StoreInv
  <2>3. store'[c][q] = s \/ store'[c][q] = t  BY <2>1 DEF MessagesInv, SessionsInv, SpoiledInv, StoreInv
  <2> QED  BY <2>2, <2>3 DEF NoSession
<1> QED  BY <1>2, <1>3 DEF StoreInv

LEMMA SaveNewKept ==
    ASSUME MessagesInv, NEW o \in Op, SaveNewSession(o)  PROVE OpsKept
<1>0. UNCHANGED <<sent, chains>>  BY DEF SaveNewSession
<1>1. op[o].pc = "init" /\ IsOp(op[o])  BY DEF SaveNewSession, OpAt, MessagesInv, SessionsInv, SpoiledInv, OpsInv
<1>2. PICK b, p, s : b = op[o].by /\ p = To(o) /\ s = op[o].sess  OBVIOUS
<1>3. p \in User /\ b \in Browser  BY <1>1, <1>2 DEF IsOp, To, SendPc
<1>4. IsSession(s)'  BY <1>0, <1>1, <1>2 DEF IsOp, HoldPc, IsSession, Chain
<1>5. OneOp(o) /\ op' = [op EXCEPT ![o].pc = "encrypt"]  BY DEF SaveNewSession, OneOp, MessagesInv, SessionsInv, SpoiledInv, OpsInv
<1>6. /\ op'[o].pc = "encrypt" /\ op'[o].sess = s /\ op'[o].by = op[o].by /\ op'[o].todo = op[o].todo
      /\ op'[o].out = op[o].out /\ op'[o].via = op[o].via /\ DOMAIN op'[o] = DOMAIN op[o]
  BY <1>1, <1>2, <1>5 DEF IsOp, SendPc, MessagesInv, SessionsInv, SpoiledInv, OpsInv
<1>7. IsOp(op[o])'
  BY <1>0, <1>1, <1>4, <1>6 DEF IsOp, SendPc, HandlePc, HoldPc, OnChain, Chain
<1>8. store' = [store EXCEPT ![b][p] = s]  BY <1>2 DEF SaveNewSession
<1> QED  BY <1>0, <1>3, <1>4, <1>5, <1>7, <1>8, OpChanges, CalmGrows, StoreChanges DEF OpsKept

\* encryptMessage: the envelope has the counter of the session, the store has the next.
EncryptDoes(o, b, p, s) ==
    /\ b \in Browser /\ p \in User /\ IsSession(s) /\ op[o].pc = "encrypt" /\ op[o].by = b
    /\ p = To(o) /\ s = op[o].sess
    /\ store' = [store EXCEPT ![b][p] = Stepped(s)] /\ OneOp(o)
    /\ op'[o].pc \in {"emit", "load"} /\ op'[o].by = b
    /\ op'[o].out = Append(op[o].out, Envelope(s, b, p))

LEMMA EncryptKept ==
    ASSUME MessagesInv, NEW o \in Op, Encrypt(o)
    PROVE  OpsKept /\ \E b, p, s : EncryptDoes(o, b, p, s)
<1>0. UNCHANGED <<sent, chains>>  BY DEF Encrypt
<1>1. op[o].pc = "encrypt" /\ IsOp(op[o])  BY DEF Encrypt, OpAt, MessagesInv, SessionsInv, SpoiledInv, OpsInv
<1>2. PICK b, p, s, todo, out :
         b = op[o].by /\ p = To(o) /\ s = op[o].sess /\ todo = op[o].todo /\ out = op[o].out
  OBVIOUS
<1>3. p \in User /\ b \in Browser /\ todo \in Seq(User) /\ todo # <<>> /\ out \in Seq(EnvelopeType)
  BY <1>1, <1>2 DEF IsOp, To, SendPc
<1>4. IsSession(s)  BY <1>1, <1>2 DEF IsOp, HoldPc
<1>5. PICK e : e = Envelope(s, b, p)  OBVIOUS
<1>6. e \in EnvelopeType /\ OnChain(e)
  BY <1>3, <1>4, <1>5 DEF Envelope, EnvelopeType, OnChain, IsSession, Chain, MessagesInv, SessionsInv, SpoiledInv
<1>7. PICK next : next = Append(out, e)  OBVIOUS
<1>8. next \in Seq(EnvelopeType) /\ \A k \in DOMAIN next : OnChain(next[k])
  <2>1. \A k \in DOMAIN out : OnChain(out[k])  BY <1>1, <1>2 DEF IsOp, SendPc
  <2> QED  BY <1>3, <1>6, <1>7, <2>1
<1>9. /\ op' = [op EXCEPT ![o].pc = IF Len(todo) = 1 THEN "emit" ELSE "load",
                          ![o].todo = Tail(@), ![o].sess = NoSession, ![o].out = next]
      /\ store' = [store EXCEPT ![b][p] = Stepped(s)]
  BY <1>2, <1>5, <1>7 DEF Encrypt, Saved, Onward
<1>10. OneOp(o)  BY <1>9 DEF OneOp, MessagesInv, SessionsInv, SpoiledInv, OpsInv
<1>11. /\ op'[o].pc = IF Len(todo) = 1 THEN "emit" ELSE "load"
       /\ op'[o].by = b /\ op'[o].todo = Tail(todo)
       /\ op'[o].out = next /\ op'[o].via = op[o].via /\ DOMAIN op'[o] = DOMAIN op[o]
  BY <1>1, <1>2, <1>9 DEF IsOp, SendPc, MessagesInv, SessionsInv, SpoiledInv, OpsInv
<1>12. Tail(todo) \in Seq(User) /\ (Len(todo) # 1 => Tail(todo) # <<>>)  BY <1>3, OnwardIs
<1>13. IsOp(op[o])'
  BY <1>0, <1>1, <1>3, <1>8, <1>11, <1>12 DEF IsOp, SendPc, HandlePc, HoldPc, OnChain, Chain
<1>14. IsSession(Stepped(s))'
  BY <1>0, <1>4 DEF IsSession, Stepped, Chain
<1>15. OpsKept
  BY <1>0, <1>3, <1>9, <1>10, <1>13, <1>14, OpChanges, CalmGrows, StoreChanges DEF OpsKept
<1>16. EncryptDoes(o, b, p, s)
  BY <1>1, <1>2, <1>3, <1>4, <1>5, <1>7, <1>9, <1>10, <1>11 DEF EncryptDoes
<1> QED  BY <1>15, <1>16

\* The new messages of a send: those that were encrypted, in its sender's name.
EmitDoes(o, from) ==
    /\ from \in User /\ from = Of(socket[op[o].by]) /\ op[o].pc = "emit" /\ End(o) /\ OneOp(o)
    /\ sent' \in Seq(EnvelopeType) /\ Len(sent') = Len(sent) + Len(op[o].out)
    /\ \A i \in DOMAIN sent' :
           IF i <= Len(sent) THEN sent'[i] = sent[i]
           ELSE /\ i - Len(sent) \in DOMAIN op[o].out
                /\ sent'[i] = [op[o].out[i - Len(sent)] EXCEPT !.from = from]

LEMMA EmitKept ==
    ASSUME MessagesInv, NEW o \in Op, Emit(o)
    PROVE  OpsKept /\ Grows /\ PostInv' /\ \E from : EmitDoes(o, from)
<1>0. UNCHANGED <<store, chains>>  BY DEF Emit
<1>1. op[o].pc = "emit" /\ IsOp(op[o])  BY DEF Emit, OpAt, MessagesInv, SessionsInv, SpoiledInv, OpsInv
<1>2. PICK b, out, c : b = op[o].by /\ out = op[o].out /\ c = socket[b]  OBVIOUS
<1>3. b \in Browser /\ out \in Seq(EnvelopeType)  BY <1>1, <1>2 DEF IsOp, SendPc
<1>4. PICK from : from = Of(c)  OBVIOUS
<1>5. from \in User
  <2>1. c \in Call /\ sock[c] = "open"
    BY <1>2, <1>3 DEF Emit, Connected, MessagesInv, SessionsInv, SpoiledInv, AccountsInv, BrowserInv
  <2> QED  BY <1>4, <2>1 DEF MessagesInv, SessionsInv, SpoiledInv, AccountsInv, CallsInv, SocketsInv, At
<1>6. PICK new : new = [i \in DOMAIN out |-> [out[i] EXCEPT !.from = from]]  OBVIOUS
<1>7. \A i \in DOMAIN out : [out[i] EXCEPT !.from = from] \in EnvelopeType
  <2> SUFFICES ASSUME NEW m \in EnvelopeType  PROVE [m EXCEPT !.from = from] \in EnvelopeType  BY <1>3
  <2> QED  BY <1>5 DEF EnvelopeType
<1>8. new \in Seq(EnvelopeType) /\ Len(new) = Len(out)  BY <1>3, <1>6, <1>7
<1>9. sent' = sent \o new  BY <1>2, <1>4, <1>6 DEF Emit
<1>10. /\ sent' \in Seq(EnvelopeType) /\ Len(sent') = Len(sent) + Len(new)
       /\ \A i \in DOMAIN sent' : sent'[i] = IF i <= Len(sent) THEN sent[i] ELSE new[i - Len(sent)]
  BY <1>8, <1>9 DEF MessagesInv, SessionsInv, SpoiledInv, PostInv
<1>11. Grows  BY <1>0, <1>8, <1>10 DEF Grows, MessagesInv, SessionsInv, SpoiledInv, PostInv
<1>12. OpsKept  BY <1>0, <1>10, <1>11, EndKept, StoreStays DEF Emit, OpsKept
<1>13. \A i \in DOMAIN sent' :
           IF i <= Len(sent) THEN sent'[i] = sent[i]
           ELSE i - Len(sent) \in DOMAIN out /\ sent'[i] = [out[i - Len(sent)] EXCEPT !.from = from]
  <2> SUFFICES ASSUME NEW i \in DOMAIN sent', i > Len(sent)
               PROVE  i - Len(sent) \in DOMAIN out /\ sent'[i] = [out[i - Len(sent)] EXCEPT !.from = from]
    BY <1>10 DEF MessagesInv, SessionsInv, SpoiledInv, PostInv
  <2>1. i \in Nat /\ i <= Len(sent) + Len(new) /\ Len(sent) \in Nat
    BY <1>8, <1>10 DEF MessagesInv, SessionsInv, SpoiledInv, PostInv
  <2>2. PICK k : k = i - Len(sent)  OBVIOUS
  <2>3. k \in DOMAIN out /\ sent'[i] = new[k]  BY <1>3, <1>8, <1>10, <2>1, <2>2
  <2> QED  BY <1>6, <2>2, <2>3
<1>14. OneOp(o)  BY DEF Emit, End, OneOp, MessagesInv, SessionsInv, SpoiledInv, OpsInv
<1>15. EmitDoes(o, from)
  BY <1>1, <1>2, <1>4, <1>5, <1>8, <1>10, <1>13, <1>14 DEF EmitDoes, Emit
<1>16. \A i \in DOMAIN sent' : (OnChain(sent[i]) /\ sent[i].from \in User)'
  <2> SUFFICES ASSUME NEW i \in DOMAIN sent', NEW m, m = sent'[i]  PROVE OnChain(m)' /\ m.from \in User
    BY DEF OnChain
  <2>1. CASE i <= Len(sent)
    <3>1. m = sent[i] /\ i \in DOMAIN sent  BY <1>10, <2>1 DEF MessagesInv, SessionsInv, SpoiledInv, PostInv
    <3> QED  BY <1>0, <3>1 DEF OnChain, Chain, MessagesInv, SessionsInv, SpoiledInv, PostInv
  <2>2. CASE ~(i <= Len(sent))
    <3>1. PICK k : k = i - Len(sent)  OBVIOUS
    <3>2. k \in DOMAIN out /\ m = [out[k] EXCEPT !.from = from]  BY <1>13, <2>2, <3>1
    <3>3. PICK e : e = out[k]  OBVIOUS
    <3>4. e \in EnvelopeType /\ OnChain(e)  BY <1>1, <1>2, <1>3, <3>2, <3>3 DEF IsOp, SendPc
    <3>5. m.from = from /\ m.tag = e.tag /\ m.chain = e.chain /\ m.pre = e.pre
      BY <3>2, <3>3, <3>4 DEF EnvelopeType
    <3> QED  BY <1>0, <1>5, <3>4, <3>5 DEF OnChain, Chain
  <2> QED  BY <2>1, <2>2
<1>17. PostInv'  BY <1>10, <1>16 DEF PostInv
<1> QED  BY <1>11, <1>12, <1>15, <1>17

LEMMA DeliverKept ==
    ASSUME MessagesInv, NEW o \in Op, NEW c \in Call, Deliver(o, c)
    PROVE  /\ OpsKept
           /\ Of(c) \in User /\ By(c) \in Browser
           /\ \E i \in mail[Of(c)] : /\ mail' = [mail EXCEPT ![Of(c)] = @ \ {i}]
                                     /\ op'[o].pc = "open" /\ op'[o].msg = i /\ OneOp(o)
<1>0. UNCHANGED <<store, sent, chains>>  BY DEF Deliver
<1>1. Of(c) \in User /\ By(c) \in Browser
  BY DEF Deliver, MessagesInv, SessionsInv, SpoiledInv, AccountsInv, CallsInv, SocketsInv, At
<1>2. PICK i \in mail[Of(c)] : \E r :
          /\ mail' = [mail EXCEPT ![Of(c)] = @ \ {i}] /\ op' = [op EXCEPT ![o] = r]
          /\ r = [pc |-> "open", by |-> By(c), user |-> Of(c), msg |-> i, sess |-> NoSession]
  BY DEF Deliver
<1>2a. PICK r :
        /\ mail' = [mail EXCEPT ![Of(c)] = @ \ {i}] /\ op' = [op EXCEPT ![o] = r]
        /\ r = [pc |-> "open", by |-> By(c), user |-> Of(c), msg |-> i, sess |-> NoSession]
  BY <1>2
<1>3. OneOp(o) /\ op'[o] = r /\ r.pc = "open" /\ r.msg = i  BY <1>2a DEF OneOp, MessagesInv, SessionsInv, SpoiledInv, OpsInv
<1>4. i \in DOMAIN sent  BY <1>1, <1>2 DEF MessagesInv, SessionsInv, SpoiledInv, MailInv
<1>5. IsOp(r)'  BY <1>0, <1>1, <1>2a, <1>4 DEF IsOp, SendPc, HandlePc, HoldPc
<1>6. OpsKept  BY <1>0, <1>3, <1>5, OpChanges, CalmGrows, StoreStays DEF OpsKept
<1> QED  BY <1>1, <1>2a, <1>3, <1>6

\* Reading keeps the chain to send on and its counter, or begins a chain.
LEMMA ReadingIsSession ==
    ASSUME chains \in Nat, NEW s, IsSession(s), NEW m \in EnvelopeType, OnChain(m),
           chains' = IF m.chain \in DOMAIN s.recv THEN chains ELSE chains + 1,
           NEW t, t = Reading(s, m)
    PROVE  /\ IsSession(t)'
           /\ IF m.chain \in DOMAIN s.recv THEN t.send = s.send /\ t.n = s.n ELSE t.send = chains + 1
<1>1. CASE m.chain \in DOMAIN s.recv
  <2>1. PICK recv : recv = [s.recv EXCEPT ![m.chain] = @ \cup {m.n}]  OBVIOUS
  <2>2. t = [s EXCEPT !.recv = recv]  BY <1>1, <2>1 DEF Reading
  <2>4. DOMAIN recv = DOMAIN s.recv  BY <2>1
  <2>5. ~s.pre
    <3> SUFFICES ASSUME s.pre PROVE FALSE  OBVIOUS
    <3>1. s.recv = <<>>  BY DEF IsSession
    <3> QED  BY <1>1, <3>1
  <2>6. /\ DOMAIN t = DOMAIN s /\ t.tag = s.tag /\ t.send = s.send /\ t.answers = s.answers /\ t.n = s.n
        /\ t.pre = s.pre /\ t.owner = s.owner /\ t.recv = recv
    BY <2>2 DEF IsSession
  <2>7. IsSession(t)'  BY <1>1, <2>4, <2>5, <2>6 DEF IsSession, Chain
  <2> QED  BY <1>1, <2>6, <2>7
<1>2. CASE m.chain \notin DOMAIN s.recv
  <2>1. PICK recv : recv = [k \in DOMAIN s.recv \cup {m.chain} |-> IF k = m.chain THEN {m.n} ELSE s.recv[k]]
    OBVIOUS
  <2>2. t = [s EXCEPT !.send = chains + 1, !.answers = m.chain, !.n = 0, !.pre = FALSE, !.recv = recv]
    BY <1>2, <2>1 DEF Reading, IsSession
  <2>4. DOMAIN recv = DOMAIN s.recv \cup {m.chain}  BY <2>1
  <2>5. /\ DOMAIN t = DOMAIN s /\ t.tag = s.tag /\ t.send = chains + 1 /\ t.answers = m.chain /\ t.n = 0
        /\ t.pre = FALSE /\ t.owner = s.owner /\ t.recv = recv
    BY <2>2 DEF IsSession
  <2>6. Chain \subseteq Chain' /\ chains + 1 \in Chain' /\ m.chain \in Chain  BY <1>2 DEF Chain, OnChain
  <2>7. t.tag \in Chain' /\ t.send \in Chain' /\ t.answers \in Chain' /\ DOMAIN t.recv \subseteq Chain'
    BY <2>4, <2>5, <2>6 DEF IsSession
  <2>8. /\ DOMAIN t = {"tag", "send", "answers", "n", "pre", "owner", "recv"}
        /\ t.n \in Nat /\ t.pre \in BOOLEAN /\ ~t.pre /\ t.owner \in Browser
    <3>1. t.pre = FALSE  BY ONLY <2>5
    <3>2. t.pre \in BOOLEAN /\ ~t.pre  BY ONLY <3>1
    <3> QED  BY <2>5, <3>2 DEF IsSession
  <2>9. IsSession(t)'  BY ONLY <2>7, <2>8 DEF IsSession
  <2> QED  BY <1>2, <2>5, <2>9
<1> QED  BY <1>1, <1>2

LEMMA ReceivedIsSession ==
    ASSUME chains \in Nat, NEW m \in EnvelopeType, OnChain(m), chains' = chains + 1, NEW t, t = Received(m)
    PROVE  IsSession(t)' /\ t.send = chains + 1
<1>1. Chain \subseteq Chain' /\ chains + 1 \in Chain' /\ {m.tag, m.chain} \subseteq Chain  BY DEF Chain, OnChain
<1>2. m.owner \in Browser  BY DEF EnvelopeType
<1> QED  BY <1>1, <1>2 DEF Received, IsSession

\* message:receive has a session of its own chain, or the stored one's chain and counter.
OpenDoes(o, b, p) ==
    /\ b \in Browser /\ p \in User /\ op[o].pc = "open" /\ op[o].by = b /\ sent[op[o].msg].from = p
    /\ OneOp(o) /\ op'[o].pc \in {"keep", "idle"}
    /\ op'[o].pc = "keep" =>
           /\ op'[o].by = b /\ op'[o].msg = op[o].msg
           /\ \/ chains' = chains + 1 /\ op'[o].sess.send = chains + 1
              \/ /\ store[b][p] # NoSession
                 /\ op'[o].sess.send = store[b][p].send /\ op'[o].sess.n = store[b][p].n

LEMMA OpenKept ==
    ASSUME MessagesInv, NEW o \in Op, OpenMessage(o)
    PROVE  OpsKept /\ Grows /\ \E b, p : OpenDoes(o, b, p)
<1>0. UNCHANGED <<store, sent>>  BY DEF OpenMessage
<1>1. op[o].pc = "open" /\ IsOp(op[o])  BY DEF OpenMessage, OpAt, MessagesInv, SessionsInv, SpoiledInv, OpsInv
<1>2. PICK b, i, m, p : b = op[o].by /\ i = op[o].msg /\ m = sent[i] /\ p = m.from  OBVIOUS
<1>3. b \in Browser /\ i \in DOMAIN sent  BY <1>1, <1>2 DEF IsOp, HandlePc
<1>4. m \in EnvelopeType /\ OnChain(m) /\ p \in User  BY <1>2, <1>3 DEF MessagesInv, SessionsInv, SpoiledInv, PostInv
<1>5. PICK s : s = store[b][p]  OBVIOUS
<1>6. s = NoSession \/ IsSession(s)  BY <1>3, <1>4, <1>5 DEF MessagesInv, SessionsInv, SpoiledInv, StoreInv
<1>7. ASSUME NEW t, ToKeep(o, t), IsSession(t)',
             chains' = chains \/ chains' = chains + 1,
             \/ chains' = chains + 1 /\ t.send = chains + 1
             \/ s # NoSession /\ t.send = s.send /\ t.n = s.n
      PROVE  OpsKept /\ Grows /\ OpenDoes(o, b, p)
  <2>1. Grows  BY <1>0, <1>7 DEF Grows, MessagesInv, SessionsInv, SpoiledInv, PostInv
  <2>2. OneOp(o)  BY <1>7 DEF ToKeep, OneOp, MessagesInv, SessionsInv, SpoiledInv, OpsInv
  <2>3. /\ op'[o].pc = "keep" /\ op'[o].sess = t /\ op'[o].by = b /\ op'[o].msg = i /\ DOMAIN op'[o] = DOMAIN op[o]
    BY <1>1, <1>2, <1>7 DEF IsOp, HandlePc, ToKeep, MessagesInv, SessionsInv, SpoiledInv, OpsInv
  <2>4. IsOp(op[o])'  BY <1>0, <1>1, <1>3, <1>7, <2>3 DEF IsOp, SendPc, HandlePc, HoldPc
  <2>5. sent' \in Seq(EnvelopeType)  BY <1>0 DEF MessagesInv, SessionsInv, SpoiledInv, PostInv
  <2>6. OpsKept  BY <1>0, <2>1, <2>2, <2>4, <2>5, OpChanges, StoreStays DEF OpsKept
  <2>7. OpenDoes(o, b, p)  BY <1>1, <1>2, <1>3, <1>4, <1>5, <1>7, <2>2, <2>3 DEF OpenDoes
  <2> QED  BY <2>1, <2>6, <2>7
<1>8. CASE ToKeep(o, Received(m)) /\ chains' = chains + 1
  <2>1. PICK t : t = Received(m)  OBVIOUS
  <2>2. IsSession(t)' /\ t.send = chains + 1  BY <1>4, <1>8, <2>1, ReceivedIsSession DEF MessagesInv, SessionsInv, SpoiledInv
  <2> QED  BY <1>7, <1>8, <2>1, <2>2
<1>9. CASE /\ s # NoSession /\ ToKeep(o, Reading(s, m))
           /\ chains' = IF m.chain \in DOMAIN s.recv THEN chains ELSE chains + 1
  <2>1. PICK t : t = Reading(s, m)  OBVIOUS
  <2>2. /\ IsSession(t)'
        /\ IF m.chain \in DOMAIN s.recv THEN t.send = s.send /\ t.n = s.n ELSE t.send = chains + 1
    BY <1>4, <1>6, <1>9, <2>1, ReadingIsSession DEF MessagesInv, SessionsInv, SpoiledInv
  <2>3. ToKeep(o, t)  BY <1>9, <2>1
  <2> QED  BY <1>7, <1>9, <2>2, <2>3
<1>10. CASE End(o) /\ UNCHANGED chains
  <2>1. OneOp(o) /\ op'[o].pc = "idle"  BY <1>10 DEF End, OneOp, MessagesInv, SessionsInv, SpoiledInv, OpsInv, Idle
  <2>2. OpenDoes(o, b, p)  BY <1>1, <1>2, <1>3, <1>4, <2>1 DEF OpenDoes
  <2> QED  BY <1>0, <1>10, <2>2, EndKept, CalmGrows, StoreStays DEF OpsKept
<1> QED  BY <1>2, <1>5, <1>8, <1>9, <1>10 DEF OpenMessage

\* The session is saved under the sender's name.
KeepDoes(o, b, p) ==
    /\ b \in Browser /\ p \in User /\ op[o].pc = "keep" /\ op[o].by = b /\ sent[op[o].msg].from = p
    /\ End(o) /\ OneOp(o) /\ store' = [store EXCEPT ![b][p] = op[o].sess]

LEMMA KeepKept ==
    ASSUME MessagesInv, NEW o \in Op, KeepMessage(o)
    PROVE  OpsKept /\ \E b, p : KeepDoes(o, b, p)
<1>0. UNCHANGED <<sent, chains>>  BY DEF KeepMessage
<1>1. op[o].pc = "keep" /\ IsOp(op[o])  BY DEF KeepMessage, OpAt, MessagesInv, SessionsInv, SpoiledInv, OpsInv
<1>2. PICK b, p, s : b = op[o].by /\ p = sent[op[o].msg].from /\ s = op[o].sess  OBVIOUS
<1>3. b \in Browser /\ op[o].msg \in DOMAIN sent  BY <1>1, <1>2 DEF IsOp, HandlePc
<1>4. p \in User  BY <1>2, <1>3 DEF MessagesInv, SessionsInv, SpoiledInv, PostInv
<1>5. IsSession(s)'  BY <1>0, <1>1, <1>2 DEF IsOp, HoldPc, IsSession, Chain
<1>6. End(o) /\ OneOp(o) /\ store' = [store EXCEPT ![b][p] = s]
  BY <1>2 DEF KeepMessage, End, OneOp, MessagesInv, SessionsInv, SpoiledInv, OpsInv
<1>7. OpsKept  BY <1>0, <1>3, <1>4, <1>5, <1>6, EndKept, CalmGrows, StoreChanges DEF OpsKept
<1>8. KeepDoes(o, b, p)  BY <1>1, <1>2, <1>3, <1>4, <1>6 DEF KeepDoes
<1> QED  BY <1>7, <1>8

-----------------------------------------------------------------------------
(* Messages: the steps *)

Handled == read \cup unread \cup dropped

LEMMA PostStays ==
    ASSUME MessagesInv, UNCHANGED sent, Grows  PROVE PostInv'
BY DEF MessagesInv, SessionsInv, SpoiledInv, PostInv, OnChain, Chain, Grows

\* What is handled now was read by an operation.
Handles ==
    /\ \A i \in Handled' : i \in Handled \/ \E o \in Op : op[o].pc \in HandlePc /\ op[o].msg = i
    /\ \A o \in Op : op'[o].pc \in HandlePc => op[o].pc \in HandlePc /\ op'[o].msg = op[o].msg
    /\ \A o \in Op : op'[o].pc = "group" => op'[o].via = "forgotten" \/ (op'[o].via = "group" /\ group # {})

LEMMA MailStays ==
    ASSUME MessagesInv, UNCHANGED <<mail, sent>>, Handles  PROVE MailInv'
<1>1. Handled' \subseteq DOMAIN sent
  BY DEF Handles, Handled, MessagesInv, SessionsInv, MailInv, OpsInv, IsOp
<1>2. ASSUME NEW u \in User, NEW i \in mail[u]
      PROVE  i \notin Handled' /\ \A o \in Op : op'[o].pc \in HandlePc => op'[o].msg # i
  BY DEF Handles, Handled, MessagesInv, SessionsInv, MailInv
<1> QED  BY <1>1, <1>2 DEF Handled, MessagesInv, SessionsInv, MailInv

LEMMA OneHandles ==
    ASSUME MessagesInv, NEW o \in Op, OneOp(o),
           op'[o].pc = "group" => op'[o].via = "forgotten" \/ (op'[o].via = "group" /\ group # {}),
           UNCHANGED Handled \/ (op[o].pc \in HandlePc /\ Handled' = Handled \cup {op[o].msg}),
           op'[o].pc \in HandlePc => op[o].pc \in HandlePc /\ op'[o].msg = op[o].msg
    PROVE  Handles
BY DEF Handles, OneOp, MessagesInv, SessionsInv, KnownInv

\* Steps that leave the rest alone.
LEMMA StepKept ==
    ASSUME MessagesInv, OpsKept, Grows, UNCHANGED <<mail, sent, group>>, Handles,
           spoiled' \subseteq Browser \X User
    PROVE  SessionsInv'
BY PostStays, MailStays DEF SessionsInv, SpoiledInv, MessagesInv, OpsKept, Grows, GroupInv, KnownInv, Handles

LEMMA SpoilKept ==
    ASSUME MessagesInv, NEW yes, NEW b \in Browser, NEW p \in User, Spoil(yes, b, p)
    PROVE  spoiled' \subseteq Browser \X User /\ spoiled \subseteq spoiled'
BY DEF Spoil, MessagesInv, SessionsInv, SpoiledInv

LEMMA SenderIs ==
    ASSUME MessagesInv, NEW o \in Op, op[o].pc \in SendPc \ {"group", "emit"}
    PROVE  op[o].by \in Browser /\ To(o) \in User
BY DEF MessagesInv, SessionsInv, OpsInv, IsOp, To

LEMMA HandlerIs ==
    ASSUME MessagesInv, NEW o \in Op, op[o].pc \in HandlePc
    PROVE  op[o].by \in Browser /\ op[o].msg \in DOMAIN sent /\ sent[op[o].msg].from \in User
BY DEF MessagesInv, SessionsInv, OpsInv, IsOp, PostInv

LEMMA EndIsOne ==
    ASSUME MessagesInv, NEW o \in Op, End(o)  PROVE OneOp(o) /\ op'[o].pc = "idle"
BY DEF MessagesInv, SessionsInv, OpsInv, End, OneOp, Idle

LEMMA SendStep ==
    ASSUME MessagesInv, NEW o \in Op,
           \/ \E b \in Browser : SendGroupMessage(o, b) \/ \E p \in User : SendMessage(o, b, p)
           \/ GetGroup(o) \/ SkipMyself(o) \/ SaveNewSession(o) \/ Encrypt(o) \/ EmitLost(o)
    PROVE  SessionsInv'
<1>1. UNCHANGED <<mail, sent, group, chains, spoiled, read, unread, dropped>>
  BY DEF SendGroupMessage, SendMessage, GetGroup, SkipMyself, SaveNewSession, Encrypt, EmitLost
<1>2. OpsKept
  <2>1. CASE EmitLost(o)  BY <2>1, EndKept, CalmGrows, StoreStays DEF EmitLost, OpsKept
  <2> QED  BY <2>1, BeginKept, GetGroupKept, SkipKept, SaveNewKept, EncryptKept
<1>3. /\ OneOp(o) /\ op'[o].pc \notin HandlePc
      /\ op'[o].pc = "group" => op'[o].via = "forgotten" \/ (op'[o].via = "group" /\ group # {})
  <2>1. ASSUME NEW b \in Browser, SendGroupMessage(o, b)
        PROVE  /\ OneOp(o) /\ op'[o].pc \notin HandlePc
               /\ op'[o].via = "forgotten" \/ (op'[o].via = "group" /\ group # {})
    BY <2>1 DEF SendGroupMessage, OneOp, MessagesInv, SessionsInv, OpsInv, HandlePc
  <2>2. ASSUME NEW b \in Browser, NEW p \in User, SendMessage(o, b, p)
        PROVE  OneOp(o) /\ op'[o].pc = "load"
    BY <2>2 DEF SendMessage, OneOp, MessagesInv, SessionsInv, OpsInv
  <2>3. CASE GetGroup(o)
    <3>1. CASE End(o)  BY <3>1, EndIsOne DEF HandlePc
    <3>2. CASE ~End(o)
      <4>1. PICK todo : op' = [op EXCEPT ![o].pc = "load", ![o].todo = todo]  BY <2>3, <3>2 DEF GetGroup
      <4> QED  BY <2>3, <4>1 DEF GetGroup, OpAt, OneOp, MessagesInv, SessionsInv, OpsInv, IsOp, HandlePc, SendPc
    <3> QED  BY <3>1, <3>2
  <2>4. CASE SaveNewSession(o)
    BY <2>4 DEF SaveNewSession, OpAt, OneOp, MessagesInv, SessionsInv, OpsInv, IsOp, HandlePc, SendPc
  <2>5. CASE Encrypt(o)  BY <2>5, EncryptKept DEF EncryptDoes, HandlePc
  <2>6. CASE EmitLost(o)  BY <2>6, EndIsOne DEF EmitLost, HandlePc
  <2>7. CASE SkipMyself(o)  BY <2>7, SkipKept DEF HandlePc
  <2> QED  BY <2>1, <2>2, <2>3, <2>4, <2>5, <2>6, <2>7 DEF HandlePc
<1>4. Handles  BY <1>1, <1>3, OneHandles DEF Handled
<1> QED  BY <1>1, <1>2, <1>4, CalmGrows, StepKept DEF MessagesInv, SessionsInv, SpoiledInv

LEMMA LoadStep ==
    ASSUME MessagesInv, NEW o \in Op, Load(o)
    PROVE  SessionsInv' /\ spoiled \subseteq spoiled'
<1>1. UNCHANGED <<mail, sent, group, chains, read, unread, dropped>>  BY DEF Load
<1>2. op[o].pc = "load"  BY DEF Load, OpAt
<1>3. OneOp(o) /\ op'[o].pc \notin HandlePc \cup {"group"}
  <2>1. CASE End(o)  BY <2>1, EndIsOne DEF HandlePc
  <2>2. CASE op' = [op EXCEPT ![o].pc = "fetch"]
    BY <1>2, <2>2 DEF OneOp, MessagesInv, SessionsInv, OpsInv, IsOp, HandlePc, SendPc
  <2>3. ASSUME NEW s, op' = [op EXCEPT ![o].pc = "encrypt", ![o].sess = s]
        PROVE  OneOp(o) /\ op'[o].pc \notin HandlePc \cup {"group"}
    BY <1>2, <2>3 DEF OneOp, MessagesInv, SessionsInv, OpsInv, IsOp, HandlePc, SendPc
  <2> QED  BY <2>1, <2>2, <2>3 DEF Load
<1>4. spoiled' \subseteq Browser \X User /\ spoiled \subseteq spoiled'
  BY <1>2, SenderIs, SpoilKept DEF Load, SendPc
<1>5. Handles  BY <1>1, <1>3, OneHandles DEF Handled, HandlePc
<1> QED  BY <1>1, <1>4, <1>5, LoadKept, CalmGrows, StepKept

LEMMA FetchStep ==
    ASSUME MessagesInv, NEW o \in Op, FetchPrekey(o)
    PROVE  SessionsInv' /\ spoiled \subseteq spoiled' /\ Grows
<1>1. UNCHANGED <<mail, sent, group, read, unread, dropped>>  BY DEF FetchPrekey
<1>2. op[o].pc = "fetch"  BY DEF FetchPrekey, OpAt
<1>3. OneOp(o) /\ op'[o].pc \notin HandlePc \cup {"group"}
  <2>1. CASE End(o)  BY <2>1, EndIsOne DEF HandlePc
  <2>2. ASSUME NEW s, op' = [op EXCEPT ![o].pc = "init", ![o].sess = s]
        PROVE  OneOp(o) /\ op'[o].pc \notin HandlePc \cup {"group"}
    BY <1>2, <2>2 DEF OneOp, MessagesInv, SessionsInv, OpsInv, IsOp, HandlePc, SendPc
  <2> QED  BY <2>1, <2>2 DEF FetchPrekey
<1>4. spoiled' \subseteq Browser \X User /\ spoiled \subseteq spoiled'
  <2>1. CASE UNCHANGED spoiled  BY <2>1 DEF MessagesInv, SessionsInv, SpoiledInv
  <2>2. CASE Spoil(Crossing(op[o].user, To(o)), op[o].by, To(o))  BY <1>2, <2>2, SenderIs, SpoilKept DEF SendPc
  <2> QED  BY <2>1, <2>2 DEF FetchPrekey
<1>5. Grows
  <2>1. chains' = chains \/ chains' = chains + 1  BY DEF FetchPrekey
  <2> QED  BY <1>1, <2>1 DEF Grows, MessagesInv, SessionsInv, SpoiledInv, PostInv
<1>6. Handles  BY <1>1, <1>3, OneHandles DEF Handled, HandlePc
<1> QED  BY <1>1, <1>4, <1>5, <1>6, FetchKept, StepKept

LEMMA OpenStep ==
    ASSUME MessagesInv, NEW o \in Op, OpenMessage(o)
    PROVE  SessionsInv' /\ spoiled \subseteq spoiled'
<1>1. UNCHANGED <<mail, sent, group, read>>  BY DEF OpenMessage
<1>2. op[o].pc = "open"  BY DEF OpenMessage, OpAt
<1>3. PICK b, p : OpenDoes(o, b, p)  BY OpenKept
<1>4. op'[o].pc \in HandlePc => op[o].pc \in HandlePc /\ op'[o].msg = op[o].msg
  BY <1>3 DEF OpenDoes, HandlePc
<1>5. PICK i : i = op[o].msg  OBVIOUS
<1>6. UNCHANGED Handled \/ Handled' = Handled \cup {i}
  <2>1. \/ UNCHANGED <<unread, dropped>>
        \/ unread' = unread \cup {i} /\ UNCHANGED dropped
        \/ dropped' = dropped \cup {i} /\ UNCHANGED unread
    BY <1>5 DEF OpenMessage
  <2> QED  BY <1>1, <2>1 DEF Handled
<1>7. Handles  BY <1>2, <1>3, <1>4, <1>5, <1>6, OneHandles DEF OpenDoes, HandlePc
<1>8. spoiled' \subseteq Browser \X User /\ spoiled \subseteq spoiled'
  BY <1>2, HandlerIs, SpoilKept DEF OpenMessage, HandlePc
<1> QED  BY <1>1, <1>7, <1>8, OpenKept, StepKept

LEMMA KeepStep ==
    ASSUME MessagesInv, NEW o \in Op, KeepMessage(o)  PROVE SessionsInv'
<1>1. UNCHANGED <<mail, sent, group, unread, dropped, spoiled, chains>> /\ read' = read \cup {op[o].msg}
  BY DEF KeepMessage
<1>2. op[o].pc \in HandlePc  BY DEF KeepMessage, OpAt, HandlePc
<1>3. OneOp(o) /\ op'[o].pc = "idle"  BY EndIsOne DEF KeepMessage
<1>4. Handles  BY <1>1, <1>2, <1>3, OneHandles DEF Handled, HandlePc
<1> QED  BY <1>1, <1>4, KeepKept, CalmGrows, StepKept DEF MessagesInv, SessionsInv, SpoiledInv

LEMMA EmitStep ==
    ASSUME MessagesInv, NEW o \in Op, Emit(o)  PROVE SessionsInv'
<1>1. UNCHANGED <<group, read, unread, dropped, spoiled, chains>>  BY DEF Emit
<1>2. PICK from : EmitDoes(o, from)  BY EmitKept
<1>3. PICK f : mail' = [u \in User |-> mail[u] \cup {i \in DOMAIN sent' : /\ i > Len(sent) /\ sent'[i].to = u
                                                                          /\ Relayed(o, f, u)}]
  BY DEF Emit
<1>4. \A i \in DOMAIN sent : i \in DOMAIN sent' /\ sent'[i] = sent[i] /\ ~(i > Len(sent))
  BY <1>2 DEF EmitDoes, MessagesInv, SessionsInv, PostInv
<1>5. \A x \in Op : op'[x].pc \in HandlePc => op[x].pc \in HandlePc /\ op'[x].msg = op[x].msg
  <2>1. OneOp(o) /\ op'[o].pc = "idle"  BY <1>2, EndIsOne DEF EmitDoes
  <2> QED  BY <2>1 DEF OneOp, HandlePc
<1>6. \A x \in Op : op[x].pc \in HandlePc => op[x].msg \in DOMAIN sent  BY HandlerIs
<1>7. mail' \in [User -> SUBSET DOMAIN sent']
  BY <1>3, <1>4 DEF MessagesInv, SessionsInv, MailInv
<1>8. (read \cup unread \cup dropped)' \subseteq DOMAIN sent'
  BY <1>1, <1>4 DEF MessagesInv, SessionsInv, MailInv
<1>9. ASSUME NEW u \in User, NEW i \in mail'[u]
      PROVE  /\ sent'[i].to = u /\ i \notin (read \cup unread \cup dropped)'
             /\ \A x \in Op : op'[x].pc \in HandlePc => op'[x].msg # i
  <2>1. CASE i \in mail[u]
    <3>1. i \in DOMAIN sent /\ sent[i].to = u /\ i \notin read \cup unread \cup dropped
      BY <2>1 DEF MessagesInv, SessionsInv, MailInv
    <3>2. \A x \in Op : op[x].pc \in HandlePc => op[x].msg # i
      BY <2>1 DEF MessagesInv, SessionsInv, MailInv
    <3> QED  BY <1>1, <1>4, <1>5, <3>1, <3>2
  <2>2. CASE i \notin mail[u]
    <3>1. i \in DOMAIN sent' /\ i > Len(sent) /\ sent'[i].to = u  BY <1>3, <1>9, <2>2
    <3>2. i \notin DOMAIN sent  BY <1>4, <3>1
    <3>3. i \notin read \cup unread \cup dropped  BY <3>2 DEF MessagesInv, SessionsInv, MailInv
    <3> QED  BY <1>1, <1>5, <1>6, <3>1, <3>2, <3>3
  <2> QED  BY <2>1, <2>2
<1>10. MailInv'  BY <1>7, <1>8, <1>9 DEF MailInv
<1>11. GroupInv' /\ SpoiledInv'  BY <1>1 DEF MessagesInv, SessionsInv, GroupInv, SpoiledInv
<1>12. KnownInv'
  <2>1. OneOp(o) /\ op'[o].pc = "idle"  BY <1>2, EndIsOne DEF EmitDoes
  <2> QED  BY <1>1, <2>1 DEF OneOp, KnownInv, MessagesInv, SessionsInv
<1> QED  BY <1>10, <1>11, <1>12, EmitKept DEF SessionsInv, OpsKept

LEMMA DeliverStep ==
    ASSUME MessagesInv, NEW o \in Op, NEW c \in Call, Deliver(o, c)  PROVE SessionsInv'
<1>1. UNCHANGED <<store, group, sent, read, unread, dropped, spoiled, chains>>  BY DEF Deliver
<1>2. PICK w \in User : w = Of(c)  BY DeliverKept
<1>3. PICK i \in mail[w] : /\ mail' = [mail EXCEPT ![w] = @ \ {i}]
                           /\ op'[o].pc = "open" /\ op'[o].msg = i /\ OneOp(o)
  BY <1>2, DeliverKept
<1>4. sent[i].to = w  BY <1>3 DEF MessagesInv, SessionsInv, MailInv
<1>5. \A u \in User : i \notin mail'[u] /\ mail'[u] \subseteq mail[u]
  BY <1>3, <1>4 DEF MessagesInv, SessionsInv, MailInv
<1>6. mail' \in [User -> SUBSET DOMAIN sent']
  <2>1. mail \in [User -> SUBSET DOMAIN sent]  BY DEF MessagesInv, SessionsInv, MailInv
  <2> QED  BY <1>1, <1>3, <2>1
<1>7. ASSUME NEW u \in User, NEW j \in mail'[u]
      PROVE  /\ sent'[j].to = u /\ j \notin (read \cup unread \cup dropped)'
             /\ \A x \in Op : op'[x].pc \in HandlePc => op'[x].msg # j
  <2>1. j \in mail[u] /\ j # i  BY <1>5
  <2>2. \A x \in Op : op[x].pc \in HandlePc => op[x].msg # j  BY <2>1 DEF MessagesInv, SessionsInv, MailInv
  <2>3. \A x \in Op : op'[x].pc \in HandlePc => op'[x].msg # j
    BY <1>3, <2>1, <2>2 DEF OneOp
  <2> QED  BY <1>1, <2>1, <2>3 DEF MessagesInv, SessionsInv, MailInv
<1>8. MailInv'  BY <1>1, <1>6, <1>7 DEF MailInv, MessagesInv, SessionsInv
<1>9. GroupInv' /\ SpoiledInv'  BY <1>1 DEF MessagesInv, SessionsInv, GroupInv, SpoiledInv
<1>10. KnownInv'  BY <1>1, <1>3 DEF OneOp, KnownInv, MessagesInv, SessionsInv
<1> QED  BY <1>1, <1>8, <1>9, <1>10, DeliverKept, CalmGrows, PostStays DEF SessionsInv, OpsKept

\* A group that is made.
LEMMA OtherStep ==
    ASSUME MessagesInv, UNCHANGED sessionVars \/ \E b \in Browser : CreateGroup(b)  PROVE SessionsInv'
<1>1. UNCHANGED <<store, op, mail, sent, read, unread, dropped, spoiled, chains>>
  BY DEF sessionVars, CreateGroup
<1>2. GroupInv' /\ KnownInv'
  <2>1. CASE UNCHANGED group  BY <1>1, <2>1 DEF MessagesInv, SessionsInv, GroupInv, KnownInv
  <2>2. ASSUME NEW b \in Browser, CreateGroup(b)  PROVE GroupInv' /\ KnownInv'
    BY <1>1, <2>2 DEF CreateGroup, MessagesInv, SessionsInv, GroupInv, KnownInv
  <2> QED  BY <2>1, <2>2 DEF sessionVars
<1>3. StoreInv'  BY <1>1, CalmGrows, StoreStays
<1>4. OpsInv'  BY <1>1 DEF MessagesInv, SessionsInv, OpsInv, IsOp, IsSession, OnChain, Chain
<1>5. PostInv' /\ MailInv' /\ SpoiledInv'
  BY <1>1 DEF MessagesInv, SessionsInv, PostInv, MailInv, SpoiledInv, OnChain, Chain
<1> QED  BY <1>2, <1>3, <1>4, <1>5 DEF SessionsInv

\* The server that restarts forgets the group, and calls on their way to it find none.
Forgets ==
    /\ group' = {}
    /\ op' = [o \in Op |-> IF op[o].pc \in SendPc /\ op[o].via = "group"
                          THEN [op[o] EXCEPT !.via = "forgotten"] ELSE op[o]]
    /\ UNCHANGED <<store, mail, sent, read, unread, dropped, spoiled, chains>>

LEMMA ForgetIs ==
    ASSUME MessagesInv, Forgets, NEW o \in Op
    PROVE  /\ op[o].pc \notin SendPc => op'[o] = op[o]
           /\ op[o].pc \in SendPc =>
                  /\ DOMAIN op'[o] = DOMAIN op[o] /\ op'[o].via \in {"direct", "forgotten"}
                  /\ op'[o].via = "direct" => op[o].via = "direct"
                  /\ op'[o].pc = op[o].pc /\ op'[o].by = op[o].by /\ op'[o].user = op[o].user
                  /\ op'[o].todo = op[o].todo /\ op'[o].out = op[o].out /\ op'[o].sess = op[o].sess
BY DEF Forgets, MessagesInv, SessionsInv, OpsInv, IsOp

LEMMA ForgetStep ==
    ASSUME MessagesInv, Forgets  PROVE SessionsInv'
<1>1. UNCHANGED <<store, mail, sent, read, unread, dropped, spoiled, chains>> /\ group' = {}  BY DEF Forgets
<1>2. GroupInv'  BY <1>1, FS_EmptySet DEF GroupInv
<1>3. KnownInv'
  <2> SUFFICES ASSUME NEW o \in Op, op'[o].pc = "group"  PROVE op'[o].via = "forgotten"  BY DEF KnownInv
  <2>1. op[o].pc = "group" /\ op[o].via # "direct"  BY ForgetIs DEF SendPc, MessagesInv, SessionsInv, KnownInv
  <2> QED  BY <2>1, ForgetIs DEF SendPc
<1>4. OpsInv'
  <2>1. DOMAIN op' = Op  BY DEF Forgets
  <2>2. ASSUME NEW o \in Op  PROVE IsOp(op[o])'
    <3>1. IsOp(op[o])  BY DEF MessagesInv, SessionsInv, OpsInv
    <3>2. CASE op[o].pc \notin SendPc
      BY <1>1, <3>1, <3>2, ForgetIs DEF IsOp, IsSession, OnChain, Chain
    <3>3. CASE op[o].pc \in SendPc
      BY <1>1, <3>1, <3>3, ForgetIs DEF IsOp, IsSession, OnChain, Chain, HandlePc, SendPc
    <3> QED  BY <3>2, <3>3
  <2> QED  BY <2>1, <2>2 DEF OpsInv
<1>5. MailInv'
  <2>1. \A o \in Op : op'[o].pc \in HandlePc => op[o].pc \in HandlePc /\ op'[o].msg = op[o].msg
    BY ForgetIs DEF SendPc, HandlePc
  <2> QED  BY <1>1, <2>1 DEF MessagesInv, SessionsInv, MailInv
<1>6. PostInv' /\ SpoiledInv' /\ StoreInv'
  BY <1>1, CalmGrows, StoreStays DEF MessagesInv, SessionsInv, PostInv, SpoiledInv, OnChain, Chain
<1> QED  BY <1>2, <1>3, <1>4, <1>5, <1>6 DEF SessionsInv

ReloadsPage(b) ==
    /\ op' = [o \in Op |-> IF o \in TornBy(b) THEN Idle ELSE op[o]]
    /\ dropped' = dropped \cup {op[o].msg : o \in {x \in TornBy(b) : op[x].pc \in {"open", "keep"}}}
    /\ UNCHANGED <<store, group, mail, sent, read, unread, spoiled, chains>>

LEMMA ReloadStep ==
    ASSUME MessagesInv, NEW b \in Browser, ReloadsPage(b)  PROVE SessionsInv'
<1>1. UNCHANGED <<store, group, mail, sent, read, unread, spoiled, chains>>  BY DEF ReloadsPage
<1>2. DOMAIN op' = Op /\ \A o \in Op : op'[o] = op[o] \/ op'[o] = Idle  BY DEF ReloadsPage
<1>3. \A r : IsOp(r) => IsOp(r)'  BY <1>1 DEF IsOp, IsSession, OnChain, Chain
<1>4. OpsInv'
  <2> SUFFICES ASSUME NEW o \in Op PROVE IsOp(op[o])'  BY <1>2 DEF OpsInv
  <2>1. PICK r : r = op[o]  OBVIOUS
  <2>2. IsOp(r)'  BY <1>3, <2>1 DEF MessagesInv, SessionsInv, OpsInv
  <2>3. op'[o] = r \/ op'[o] = Idle  BY <1>2, <2>1
  <2> QED  BY <2>2, <2>3, IdleIsOp DEF Idle
<1>5. Handles
  <2>1. \A i \in dropped' : i \in dropped \/ \E o \in Op : op[o].pc \in HandlePc /\ op[o].msg = i
    BY DEF ReloadsPage, TornBy, HandlePc
  <2>2. \A o \in Op : op'[o].pc \in HandlePc \cup {"group"} => op'[o] = op[o]  BY <1>2 DEF Idle, HandlePc
  <2> QED  BY <1>1, <2>1, <2>2 DEF Handles, Handled, MessagesInv, SessionsInv, KnownInv
<1> QED  BY <1>1, <1>4, <1>5, CalmGrows, StoreStays, StepKept DEF OpsKept, MessagesInv, SessionsInv, SpoiledInv

\* The steps of the messages, named by what they touch.
SessionStep ==
    \/ \E o \in Op :
          \/ \E b \in Browser : SendGroupMessage(o, b) \/ \E p \in User : SendMessage(o, b, p)
          \/ GetGroup(o) \/ SkipMyself(o) \/ SaveNewSession(o) \/ Encrypt(o) \/ EmitLost(o)
          \/ Load(o) \/ FetchPrekey(o) \/ OpenMessage(o) \/ KeepMessage(o) \/ Emit(o)
          \/ \E c \in Call : Deliver(o, c)
    \/ UNCHANGED sessionVars \/ \E b \in Browser : CreateGroup(b)
    \/ Forgets
    \/ \E b \in Browser : ReloadsPage(b)

LEMMA StepIsSessionStep == [Next]_vars => SessionStep
<1> SUFFICES ASSUME [Next]_vars PROVE SessionStep  OBVIOUS
<1>1. CASE Account  BY <1>1 DEF Account, SessionStep, ReloadsPage, Forgets
<1>2. CASE UserSends /\ UNCHANGED accountsButBudget  BY <1>2 DEF UserSends, SessionStep
<1>3. CASE \/ \E o \in Op : FetchPrekey(o)
           \/ OpStep \/ (\E b \in Browser : CreateGroup(b)) \/ (\E o \in Op, c \in Call : Deliver(o, c))
  BY <1>3 DEF OpStep, SessionStep
<1>4. CASE UNCHANGED vars  BY <1>4 DEF vars, SessionStep
<1> QED  BY <1>1, <1>2, <1>3, <1>4 DEF Next, Message

LEMMA MessagesStep == MessagesInv /\ [Next]_vars => MessagesInv'
<1> SUFFICES ASSUME MessagesInv, [Next]_vars PROVE MessagesInv'  OBVIOUS
<1>1. AccountsInv'  BY AccountsStep, StepIsAccountStep DEF MessagesInv
<1>2. SessionsInv'
  BY StepIsSessionStep, SendStep, LoadStep, FetchStep, OpenStep, KeepStep, EmitStep, DeliverStep, OtherStep,
     ForgetStep, ReloadStep
  DEF SessionStep
<1> QED  BY <1>1, <1>2 DEF MessagesInv

\* The prekeys of a user change when they are uploaded, when one is taken, and in a restart.
Uploads(c) ==
    /\ At(c, "upload") /\ UNCHANGED ident
    /\ bundle' = [bundle EXCEPT ![Of(c)] = [by |-> By(c), left |-> MaxPrekeys]]
    /\ takers' = [takers EXCEPT ![Of(c)] = {}]
    /\ UNCHANGED sessionVars

TakenBy(o) ==
    /\ OpAt(o, "fetch") /\ Available(To(o)) /\ UNCHANGED ident
    /\ bundle' = [bundle EXCEPT ![To(o)].left = @ - 1]
    /\ takers' = [takers EXCEPT ![To(o)] = @ \cup {op[o].by}]
    /\ \/ OpAt(o, "init")'
       \/ {n \in ident : n.user = To(o)} \subseteq lacking'

LEMMA StockMoves ==
    ASSUME MessagesInv, [Next]_vars
    PROVE  \/ UNCHANGED <<bundle, takers>>
           \/ \E c \in Call : Uploads(c)
           \/ \E o \in Op : FetchPrekey(o) /\ TakenBy(o)
           \/ ServerRestart
<1>1. ASSUME NEW o \in Op, FetchPrekey(o), UNCHANGED accountsButServer
      PROVE  UNCHANGED <<bundle, takers>> \/ TakenBy(o)
  <2>1. UNCHANGED ident /\ OpAt(o, "fetch")  BY <1>1 DEF accountsButServer, storeVars, FetchPrekey
  <2>2. ASSUME NEW s, op' = [op EXCEPT ![o].pc = "init", ![o].sess = s]  PROVE OpAt(o, "init")'
    BY <2>2 DEF OpAt, MessagesInv, SessionsInv, OpsInv
  <2> QED  BY <1>1, <2>1, <2>2 DEF FetchPrekey, TakenBy
<1>2. ASSUME NEW c \in Call, Upload(c), UNCHANGED sessionVars  PROVE UNCHANGED <<bundle, takers>> \/ Uploads(c)
  BY <1>2 DEF Upload, Uploads, storeVars
<1>3. ASSUME NEW c \in Call,
             \/ \E b \in Browser, u \in User : Connect(c, b, u)
             \/ ReadIdentity(c) \/ StoreIdentity(c) \/ Proteus(c) \/ Register(c) \/ Challenge(c)
             \/ SignChallenge(c) \/ Verify(c) \/ OpenSocket(c) \/ SocketConnects(c) \/ ConnectError(c) \/ Drop(c)
      PROVE  UNCHANGED <<bundle, takers>>
  BY <1>3 DEF Connect, ReadIdentity, StoreIdentity, Proteus, Register, Challenge, SignChallenge, Verify, OpenSocket,
              SocketConnects, ConnectError, Drop, serverVars
<1>4. ASSUME NEW b \in Browser, NEW torn, Disconnect(b) \/ Reload(b, torn)  PROVE UNCHANGED <<bundle, takers>>
  BY <1>4 DEF Disconnect, Reload, serverVars
<1>5. CASE Account
  BY <1>2, <1>3, <1>4, <1>5 DEF Account, ConnectStep
<1>6. CASE Message
  BY <1>1, <1>6 DEF Message, accountsButBudget, accountVars, serverVars
<1> QED  BY <1>5, <1>6 DEF Next, vars, accountVars, serverVars

LEMMA TakersStep ==
    ASSUME MessagesInv, TakersType, [Next]_vars  PROVE TakersType'
<1>1. ASSUME NEW o \in Op, TakenBy(o)  PROVE TakersType'
  <2>1. op[o].by \in Browser  BY <1>1, SenderIs DEF TakenBy, OpAt, SendPc
  <2> QED  BY <1>1, <2>1 DEF TakenBy, TakersType
<1> QED  BY <1>1, StockMoves DEF TakersType, Uploads, ServerRestart

\* Sessions, ratchet chains, messages and the operations on them keep their types; a message
\* that waits for its reader has not been handled (sendMessage, message:receive).
THEOREM TypeCorrect == Spec => []TypeOK
<1>1. Init => TakersType  BY DEF Init, AccountsInit, TakersType
<1>2. MessagesInv /\ TakersType /\ [Next]_vars => TakersType'
  BY TakersStep
<1> QED  BY <1>1, <1>2, MessagesStart, MessagesStep, MessagesTyped, PTL DEF Spec

-----------------------------------------------------------------------------
(* Messages: the keys they are encrypted with *)

\* A copy of the session of b with p: stored, or held by an operation.  It sends on chain c
\* and its next counter is n.
StoreCopy(b, p, c, n) ==
    /\ b \in Browser /\ p \in User /\ store[b][p] # NoSession
    /\ c = store[b][p].send /\ n = store[b][p].n
OpCopy(o, b, p, c, n) ==
    op[o].pc \in HoldPc /\ Loaded(o, b, p) /\ c = op[o].sess.send /\ n = op[o].sess.n
Copy(b, p, c, n) == StoreCopy(b, p, c, n) \/ \E o \in Op : OpCopy(o, b, p, c, n)

\* The keys of the messages sent, and of those an operation is about to send.
Pending(o) == IF op[o].pc \in SendPc THEN op[o].out ELSE <<>>
KeyIs(m, b, p, c, n) == b = m.by /\ p = m.to /\ c = m.chain /\ n = m.n
Used(b, p, c, n) ==
    \/ \E i \in DOMAIN sent : KeyIs(sent[i], b, p, c, n)
    \/ \E o \in Op : \E k \in DOMAIN Pending(o) : KeyIs(Pending(o)[k], b, p, c, n)

\* Two operations hold one session only to read, or it is spoiled.
ExclusiveInv ==
    \A x, y \in Op : \A b, p :
        (x # y /\ Loaded(x, b, p) /\ Loaded(y, b, p) /\ ~(OpAt(x, "keep") /\ OpAt(y, "keep")))
            => <<b, p>> \in spoiled

\* A chain is sent on in one place.
Holds(b, p, c, n) == Copy(b, p, c, n) \/ Used(b, p, c, n)
HomeInv == \A b, p, n, d, q, k, c : Holds(b, p, c, n) /\ Holds(d, q, c, k) => b = d /\ p = q

\* Every copy is ahead of every key used on its chain.
BoundInv ==
    \A b, p, c, n, k : (Copy(b, p, c, n) /\ Used(b, p, c, k) /\ <<b, p>> \notin spoiled) => k < n

SameKey(m, e) == m.chain = e.chain /\ m.n = e.n
Burnt(m) == <<m.by, m.to>> \in spoiled
OnceInv ==
    /\ \A i, j \in DOMAIN sent : (i # j /\ SameKey(sent[i], sent[j])) => Burnt(sent[i])
    /\ \A o \in Op : \A k \in DOMAIN Pending(o), i \in DOMAIN sent :
           SameKey(Pending(o)[k], sent[i]) => Burnt(sent[i])
    /\ \A o, x \in Op : \A k \in DOMAIN Pending(o), l \in DOMAIN Pending(x) :
           ((o # x \/ k # l) /\ SameKey(Pending(o)[k], Pending(x)[l])) => Burnt(Pending(o)[k])

FreshInv == MessagesInv /\ ExclusiveInv /\ HomeInv /\ BoundInv /\ OnceInv

LEMMA PendingIs ==
    ASSUME MessagesInv, NEW o \in Op
    PROVE  Pending(o) \in Seq(EnvelopeType) /\ \A k \in DOMAIN Pending(o) : OnChain(Pending(o)[k])
<1>1. CASE op[o].pc \in SendPc  BY <1>1 DEF Pending, MessagesInv, SessionsInv, OpsInv, IsOp
<1>2. CASE op[o].pc \notin SendPc  BY <1>2 DEF Pending
<1> QED  BY <1>1, <1>2

LEMMA LoadedIs ==
    ASSUME MessagesInv, NEW o \in Op, NEW b, NEW p, Loaded(o, b, p)  PROVE b \in Browser /\ p \in User
<1>1. CASE OpAt(o, "keep")  BY <1>1, HandlerIs DEF Loaded, OpAt, HandlePc
<1>2. CASE ~OpAt(o, "keep")  BY <1>2, SenderIs DEF Loaded, OpAt, SendPc
<1> QED  BY <1>1, <1>2

LEMMA HoldsIs ==
    ASSUME MessagesInv, NEW b, NEW p, NEW c, NEW n, Holds(b, p, c, n)
    PROVE  c \in Chain /\ n \in Nat
<1>1. CASE StoreCopy(b, p, c, n)
  BY <1>1 DEF StoreCopy, MessagesInv, SessionsInv, StoreInv, IsSession
<1>2. ASSUME NEW o \in Op, OpCopy(o, b, p, c, n)  PROVE c \in Chain /\ n \in Nat
  BY <1>2 DEF OpCopy, MessagesInv, SessionsInv, OpsInv, IsOp, IsSession
<1>3. ASSUME NEW m \in EnvelopeType, OnChain(m), KeyIs(m, b, p, c, n)  PROVE c \in Chain /\ n \in Nat
  BY <1>3 DEF KeyIs, EnvelopeType, OnChain
<1>4. ASSUME NEW i \in DOMAIN sent, KeyIs(sent[i], b, p, c, n)  PROVE c \in Chain /\ n \in Nat
  BY <1>3, <1>4 DEF MessagesInv, SessionsInv, PostInv
<1>5. ASSUME NEW o \in Op, NEW k \in DOMAIN Pending(o), KeyIs(Pending(o)[k], b, p, c, n)
      PROVE  c \in Chain /\ n \in Nat
  BY <1>3, <1>5, PendingIs
<1> QED  BY <1>1, <1>2, <1>4, <1>5 DEF Holds, Copy, Used

\* A step that adds copies of a new chain only, all in one place, and no key.
LEMMA ChainsKept ==
    ASSUME FreshInv, spoiled \subseteq spoiled', NEW d, NEW q,
           \A b, p, c, n : Copy(b, p, c, n)' => Copy(b, p, c, n) \/ (c = chains + 1 /\ b = d /\ p = q),
           \A b, p, c, n : Used(b, p, c, n)' => Used(b, p, c, n)
    PROVE  HomeInv' /\ BoundInv'
<1>1. chains + 1 \notin Chain  BY DEF Chain, FreshInv, MessagesInv, SessionsInv, SpoiledInv
<1>2. \A b, p, c, n : Holds(b, p, c, n)' => Holds(b, p, c, n) \/ (c = chains + 1 /\ b = d /\ p = q)
  BY DEF Holds
<1>3. \A b, p, n : ~Holds(b, p, chains + 1, n)  BY <1>1, HoldsIs DEF FreshInv
<1>4. HomeInv'
  <2> SUFFICES ASSUME NEW b, NEW p, NEW n, NEW b2, NEW p2, NEW k, NEW c, Holds(b, p, c, n)', Holds(b2, p2, c, k)'
               PROVE  b = b2 /\ p = p2
    BY DEF HomeInv
  <2>1. CASE c = chains + 1  BY <1>2, <1>3, <2>1
  <2>2. CASE c # chains + 1
    <3>1. Holds(b, p, c, n) /\ Holds(b2, p2, c, k)  BY <1>2, <2>2
    <3> QED  BY <3>1 DEF FreshInv, HomeInv
  <2> QED  BY <2>1, <2>2
<1>5. BoundInv'
  <2> SUFFICES ASSUME NEW b, NEW p, NEW c, NEW n, NEW k,
                      Copy(b, p, c, n)', Used(b, p, c, k)', <<b, p>> \notin spoiled'
               PROVE  k < n
    BY DEF BoundInv
  <2>1. Used(b, p, c, k) /\ <<b, p>> \notin spoiled  OBVIOUS
  <2>2. c # chains + 1  BY <1>3, <2>1 DEF Holds
  <2>3. Copy(b, p, c, n)  BY <2>2
  <2> QED  BY <2>1, <2>3 DEF FreshInv, BoundInv
<1> QED  BY <1>4, <1>5

\* A step that sends nothing.
PendingCalm == UNCHANGED sent /\ \A x \in Op : Pending(x)' = Pending(x) \/ Pending(x)' = <<>>

LEMMA OnceStays ==
    ASSUME FreshInv, spoiled \subseteq spoiled', PendingCalm
    PROVE  OnceInv' /\ \A b, p, c, n : Used(b, p, c, n)' => Used(b, p, c, n)
<1>1. \A x \in Op : \A k \in DOMAIN Pending(x)' : k \in DOMAIN Pending(x) /\ Pending(x)'[k] = Pending(x)[k]
  BY DEF PendingCalm
<1>2. ASSUME NEW b, NEW p, NEW c, NEW n, Used(b, p, c, n)'  PROVE Used(b, p, c, n)
  <2>1. CASE (\E i \in DOMAIN sent : KeyIs(sent[i], b, p, c, n))'  BY <2>1 DEF PendingCalm, Used, KeyIs
  <2>2. CASE (\E o \in Op : \E k \in DOMAIN Pending(o) : KeyIs(Pending(o)[k], b, p, c, n))'
    <3>1. PICK o \in Op : \E k \in DOMAIN Pending(o)' : KeyIs(Pending(o)[k], b, p, c, n)'  BY <2>2
    <3>2. PICK k \in DOMAIN Pending(o)' : KeyIs(Pending(o)[k], b, p, c, n)'  BY <3>1
    <3> QED  BY <1>1, <3>2 DEF Used, KeyIs
  <2> QED  BY <1>2, <2>1, <2>2 DEF Used
<1>3. \A m : Burnt(m) => Burnt(m)'  BY DEF Burnt
<1>4. (\A i, j \in DOMAIN sent : (i # j /\ SameKey(sent[i], sent[j])) => Burnt(sent[i]))'
  BY DEF FreshInv, OnceInv, PendingCalm, SameKey, Burnt
<1>5. (\A o \in Op : \A k \in DOMAIN Pending(o), i \in DOMAIN sent :
           SameKey(Pending(o)[k], sent[i]) => Burnt(sent[i]))'
  BY <1>1 DEF FreshInv, OnceInv, PendingCalm, SameKey, Burnt
<1>6. (\A o, x \in Op : \A k \in DOMAIN Pending(o), l \in DOMAIN Pending(x) :
           ((o # x \/ k # l) /\ SameKey(Pending(o)[k], Pending(x)[l])) => Burnt(Pending(o)[k]))'
  BY <1>1 DEF FreshInv, OnceInv, SameKey, Burnt
<1> QED  BY <1>2, <1>4, <1>5, <1>6 DEF OnceInv

LoadPc == {"fetch", "init", "encrypt", "keep"}

\* A step of one operation leaves what the others hold.
LEMMA OthersHold ==
    ASSUME MessagesInv, NEW o, OneOp(o), \A i \in DOMAIN sent : sent'[i] = sent[i], NEW x \in Op \ {o}
    PROVE  /\ \A b, p : Loaded(x, b, p)' => Loaded(x, b, p)
           /\ OpAt(x, "keep") => OpAt(x, "keep")'
           /\ OpAt(x, "keep")' => OpAt(x, "keep")
           /\ \A b, p, c, n : OpCopy(x, b, p, c, n)' => OpCopy(x, b, p, c, n)
           /\ Pending(x)' = Pending(x)
<1>1. op'[x] = op[x]  BY DEF OneOp
<1>2. \A b, p : Loaded(x, b, p)' => Loaded(x, b, p)
  <2> SUFFICES ASSUME NEW b, NEW p, Loaded(x, b, p)'  PROVE Loaded(x, b, p)  OBVIOUS
  <2>1. CASE OpAt(x, "keep")
    <3>1. op[x].msg \in DOMAIN sent  BY <2>1, HandlerIs DEF OpAt, HandlePc
    <3> QED  BY <1>1, <2>1, <3>1 DEF Loaded, OpAt
  <2>2. CASE ~OpAt(x, "keep")  BY <1>1, <2>2 DEF Loaded, OpAt, To
  <2> QED  BY <2>1, <2>2
<1> QED  BY <1>1, <1>2 DEF OpAt, OpCopy, Pending

LEMMA NotLoaded ==
    ASSUME NEW o, op'[o].pc \notin LoadPc
    PROVE  /\ \A b, p : ~Loaded(o, b, p)'
           /\ \A b, p, c, n : ~OpCopy(o, b, p, c, n)'
BY DEF Loaded, OpCopy, LoadPc

\* A step of o that loads nothing keeps the others apart.
LEMMA ExclusiveStays ==
    ASSUME MessagesInv, ExclusiveInv, spoiled \subseteq spoiled', NEW o, OneOp(o),
           \A i \in DOMAIN sent : sent'[i] = sent[i],
           o \in Op => /\ \A b, p : Loaded(o, b, p)' => Loaded(o, b, p)
                       /\ \A b, p : Loaded(o, b, p)' => (OpAt(o, "keep") => OpAt(o, "keep")')
    PROVE  ExclusiveInv'
<1> SUFFICES ASSUME NEW x \in Op, NEW y \in Op, NEW b, NEW p, x # y, Loaded(x, b, p)', Loaded(y, b, p)',
                    ~(OpAt(x, "keep")' /\ OpAt(y, "keep")')
             PROVE  <<b, p>> \in spoiled
  BY DEF ExclusiveInv
<1>1. \A z \in Op : Loaded(z, b, p)' => Loaded(z, b, p) /\ (OpAt(z, "keep") => OpAt(z, "keep")')
  BY OthersHold
<1>2. Loaded(x, b, p) /\ Loaded(y, b, p) /\ ~(OpAt(x, "keep") /\ OpAt(y, "keep"))  BY <1>1
<1> QED  BY <1>2 DEF ExclusiveInv

\* A step of o that loads a session spoils it when another operation is in its way.
LEMMA ExclusiveLoads ==
    ASSUME MessagesInv, ExclusiveInv, NEW o \in Op, OneOp(o), UNCHANGED sent,
           NEW d, NEW q, NEW sending \in BOOLEAN, Spoil(Tangled(d, q, sending), d, q),
           \A b, p : Loaded(o, b, p)' => b = d /\ p = q,
           sending \/ op'[o].pc \notin LoadPc \/ OpAt(o, "keep")'
    PROVE  ExclusiveInv'
<1>1. spoiled \subseteq spoiled'  BY DEF Spoil
<1>2. ASSUME NEW y \in Op \ {o}, NEW b, NEW p, Loaded(o, b, p)', Loaded(y, b, p)',
             ~(OpAt(o, "keep")' /\ OpAt(y, "keep")')
      PROVE  <<b, p>> \in spoiled'
  <2>1. b = d /\ p = q /\ Loaded(y, d, q) /\ (OpAt(y, "keep") => OpAt(y, "keep")')  BY <1>2, OthersHold
  <2>2. op'[o].pc \in LoadPc  BY <1>2 DEF Loaded, LoadPc
  <2>3. Tangled(d, q, sending)  BY <1>2, <2>1, <2>2 DEF Tangled
  <2> QED  BY <2>1, <2>3 DEF Spoil
<1>3. ASSUME NEW x \in Op \ {o}, NEW y \in Op \ {o}, NEW b, NEW p, x # y, Loaded(x, b, p)', Loaded(y, b, p)',
             ~(OpAt(x, "keep")' /\ OpAt(y, "keep")')
      PROVE  <<b, p>> \in spoiled'
  <2>1. \A z \in Op \ {o} : Loaded(z, b, p)' => Loaded(z, b, p) /\ (OpAt(z, "keep") => OpAt(z, "keep")')
    BY OthersHold
  <2>2. Loaded(x, b, p) /\ Loaded(y, b, p) /\ ~(OpAt(x, "keep") /\ OpAt(y, "keep"))  BY <1>3, <2>1
  <2> QED  BY <1>1, <1>3, <2>2 DEF ExclusiveInv
<1> SUFFICES ASSUME NEW x \in Op, NEW y \in Op, NEW b, NEW p, x # y, Loaded(x, b, p)', Loaded(y, b, p)',
                    ~(OpAt(x, "keep")' /\ OpAt(y, "keep")')
             PROVE  <<b, p>> \in spoiled'
  BY DEF ExclusiveInv
<1>4. CASE x = o  BY <1>2, <1>4
<1>5. CASE y = o  BY <1>2, <1>5
<1>6. CASE x # o /\ y # o  BY <1>3, <1>6
<1> QED  BY <1>4, <1>5, <1>6

\* What a step of o has to show when the store is left alone.
LEMMA CopiesStay ==
    ASSUME MessagesInv, NEW o, OneOp(o), UNCHANGED <<store, sent>>,
           NEW b, NEW p, NEW c, NEW n, Copy(b, p, c, n)'
    PROVE  Copy(b, p, c, n) \/ (o \in Op /\ OpCopy(o, b, p, c, n)')
<1>1. CASE StoreCopy(b, p, c, n)'  BY <1>1 DEF StoreCopy, Copy, NoSession
<1>2. ASSUME NEW x \in Op \ {o}, OpCopy(x, b, p, c, n)'  PROVE Copy(b, p, c, n)
  BY <1>2, OthersHold DEF Copy
<1> QED  BY <1>1, <1>2 DEF Copy

FreshRest == ExclusiveInv /\ HomeInv /\ BoundInv /\ OnceInv

LEMMA CalmFresh ==
    ASSUME FreshInv, spoiled \subseteq spoiled', ExclusiveInv', PendingCalm,
           \A b, p, c, n : Copy(b, p, c, n)' => Copy(b, p, c, n)
    PROVE  FreshRest'
<1>1. OnceInv' /\ \A b, p, c, n : Used(b, p, c, n)' => Used(b, p, c, n)  BY OnceStays
<1>2. HomeInv' /\ BoundInv'  BY <1>1, ChainsKept
<1> QED  BY <1>1, <1>2 DEF FreshRest

LEMMA OthersPending ==
    ASSUME MessagesInv, NEW o, OneOp(o), UNCHANGED sent,
           o \in Op => Pending(o)' = Pending(o) \/ Pending(o)' = <<>>
    PROVE  PendingCalm
BY OthersHold DEF PendingCalm

\* A step after which o holds no session.
LEMMA OutFresh ==
    ASSUME FreshInv, NEW o \in Op, OneOp(o), UNCHANGED <<store, sent, spoiled>>, op'[o].pc \notin LoadPc,
           Pending(o)' = Pending(o) \/ Pending(o)' = <<>>
    PROVE  FreshRest'
<1> USE DEF FreshInv
<1>1. ExclusiveInv'  BY NotLoaded, ExclusiveStays
<1>2. \A b, p, c, n : Copy(b, p, c, n)' => Copy(b, p, c, n)
  <2>1. ASSUME NEW b, NEW p, NEW c, NEW n, StoreCopy(b, p, c, n)'  PROVE Copy(b, p, c, n)
    BY <2>1 DEF StoreCopy, Copy, NoSession
  <2>2. ASSUME NEW b, NEW p, NEW c, NEW n, NEW x \in Op, OpCopy(x, b, p, c, n)'  PROVE Copy(b, p, c, n)
    <3>1. x # o  BY <2>2, NotLoaded
    <3> QED  BY <2>2, <3>1, OthersHold DEF Copy
  <2> QED  BY <2>1, <2>2 DEF Copy
<1> QED  BY <1>1, <1>2, OthersPending, CalmFresh

LEMMA EndPending ==
    ASSUME MessagesInv, NEW o \in Op, op'[o].pc \notin SendPc  PROVE Pending(o)' = <<>>
BY DEF Pending

LEMMA OutIs ==
    ASSUME MessagesInv, NEW o \in Op,
           \/ \E b \in Browser : SendGroupMessage(o, b) \/ \E p \in User : SendMessage(o, b, p)
           \/ GetGroup(o) \/ SkipMyself(o) \/ EmitLost(o) \/ \E c \in Call : Deliver(o, c)
    PROVE  /\ OneOp(o) /\ UNCHANGED <<store, sent, spoiled>> /\ op'[o].pc \notin LoadPc
           /\ Pending(o)' = Pending(o) \/ Pending(o)' = <<>>
<1> DEFINE Out == OneOp(o) /\ op'[o].pc \notin LoadPc /\ (Pending(o)' = Pending(o) \/ Pending(o)' = <<>>)
<1>1. UNCHANGED <<store, sent, spoiled>>
  BY DEF SendGroupMessage, SendMessage, GetGroup, SkipMyself, EmitLost, Deliver
<1>2. ASSUME End(o)  PROVE Out
  BY <1>1, <1>2, EndIsOne, EndPending DEF LoadPc, SendPc
<1>3. CASE EmitLost(o)  BY <1>2, <1>3 DEF EmitLost
<1>4. ASSUME NEW c \in Call, Deliver(o, c)  PROVE Out
  <2>1. OneOp(o) /\ op'[o].pc = "open"  BY <1>4, DeliverKept
  <2> QED  BY <1>1, <2>1, EndPending DEF LoadPc, SendPc
<1>5. CASE GetGroup(o) /\ ~End(o)
  <2>1. PICK todo : op' = [op EXCEPT ![o].pc = "load", ![o].todo = todo]  BY <1>5 DEF GetGroup
  <2>2. /\ OneOp(o) /\ op'[o].pc = "load" /\ op'[o].out = op[o].out /\ op[o].pc = "group"
    BY <1>5, <2>1 DEF GetGroup, OpAt, OneOp, MessagesInv, SessionsInv, OpsInv, IsOp, SendPc
  <2>3. Pending(o)' = Pending(o)  BY <2>2 DEF Pending, SendPc
  <2> QED  BY <1>1, <2>2, <2>3 DEF LoadPc
<1>6. ASSUME NEW pc \in {"load", "group"}, NEW r, r.pc = pc, r.out = <<>>, op' = [op EXCEPT ![o] = r]
      PROVE  Out
  <2>1. OneOp(o) /\ op'[o] = r  BY <1>6 DEF OneOp, MessagesInv, SessionsInv, OpsInv
  <2>2. Pending(o)' = <<>>  BY <1>6, <2>1 DEF Pending
  <2> QED  BY <1>1, <1>6, <2>1, <2>2 DEF LoadPc
<1>7. ASSUME NEW b \in Browser, SendGroupMessage(o, b)  PROVE Out
  <2>1. PICK via : via = IF group = {} THEN "forgotten" ELSE "group"  OBVIOUS
  <2>2. PICK r : r = [pc |-> "group", by |-> b, user |-> Of(socket[b]), via |-> via, todo |-> <<>>, out |-> <<>>,
                      sess |-> NoSession]
    OBVIOUS
  <2> QED  BY <1>6, <1>7, <2>1, <2>2 DEF SendGroupMessage
<1>8. ASSUME NEW b \in Browser, NEW p \in User, SendMessage(o, b, p)  PROVE Out
  <2>1. PICK r : r = [pc |-> "load", by |-> b, user |-> Of(socket[b]), via |-> "direct", todo |-> <<p>>,
                      out |-> <<>>, sess |-> NoSession]
    OBVIOUS
  <2> QED  BY <1>6, <1>8, <2>1 DEF SendMessage
<1>9. CASE SkipMyself(o)
  <2>1. /\ OneOp(o) /\ op[o].pc = "load" /\ op'[o].pc \in {"emit", "load"} /\ op'[o].out = op[o].out
    BY <1>9, SkipKept
  <2>2. Pending(o)' = Pending(o)  BY <2>1 DEF Pending, SendPc
  <2> QED  BY <1>1, <2>1, <2>2 DEF LoadPc
<1> QED  BY <1>1, <1>2, <1>3, <1>4, <1>5, <1>7, <1>8, <1>9 DEF GetGroup

LEMMA OutSteps ==
    ASSUME FreshInv, NEW o \in Op,
           \/ \E b \in Browser : SendGroupMessage(o, b) \/ \E p \in User : SendMessage(o, b, p)
           \/ GetGroup(o) \/ SkipMyself(o) \/ EmitLost(o) \/ \E c \in Call : Deliver(o, c)
    PROVE  FreshRest'
<1>1. MessagesInv  BY DEF FreshInv
<1>2. /\ OneOp(o) /\ UNCHANGED <<store, sent, spoiled>> /\ op'[o].pc \notin LoadPc
      /\ Pending(o)' = Pending(o) \/ Pending(o)' = <<>>
  BY <1>1, OutIs
<1> QED  BY <1>2, OutFresh

\* A session that is saved replaces the copy of the store.
LEMMA SavedCopy ==
    ASSUME MessagesInv, NEW d \in Browser, NEW q \in User, NEW s, store' = [store EXCEPT ![d][q] = s],
           NEW b, NEW p, NEW c, NEW n, StoreCopy(b, p, c, n)'
    PROVE  (b = d /\ p = q /\ c = s.send /\ n = s.n) \/ (~(b = d /\ p = q) /\ StoreCopy(b, p, c, n))
<1>1. CASE b = d /\ p = q
  <2>1. store'[d][q] = s  BY DEF MessagesInv, SessionsInv, StoreInv
  <2> QED  BY <1>1, <2>1 DEF StoreCopy
<1>2. CASE ~(b = d /\ p = q)
  <2>1. store'[b][p] = store[b][p]  BY <1>2 DEF StoreCopy, MessagesInv, SessionsInv, StoreInv
  <2> QED  BY <1>2, <2>1 DEF StoreCopy, NoSession
<1> QED  BY <1>1, <1>2

\* A new session is saved, the stored one is loaded, a session begins.
SaveNewDoes(o, d, q, s) ==
    /\ UNCHANGED <<sent, spoiled>> /\ op[o].pc = "init" /\ d = op[o].by /\ q = To(o) /\ s = op[o].sess
    /\ d \in Browser /\ q \in User /\ store' = [store EXCEPT ![d][q] = s]
    /\ OneOp(o) /\ op'[o].pc = "encrypt" /\ op'[o].sess = s /\ op'[o].by = d /\ To(o)' = q
    /\ Pending(o)' = Pending(o)

LEMMA SaveNewIs ==
    ASSUME MessagesInv, NEW o \in Op, SaveNewSession(o)  PROVE \E d, q, s : SaveNewDoes(o, d, q, s)
<1>1. UNCHANGED <<sent, spoiled>> /\ op[o].pc = "init" /\ IsOp(op[o])
  BY DEF SaveNewSession, OpAt, MessagesInv, SessionsInv, OpsInv
<1>2. PICK d, q, s : d = op[o].by /\ q = To(o) /\ s = op[o].sess  OBVIOUS
<1>3. d \in Browser /\ q \in User  BY <1>1, <1>2, SenderIs DEF SendPc
<1>4. /\ OneOp(o) /\ op'[o].pc = "encrypt" /\ op'[o].sess = op[o].sess /\ op'[o].by = op[o].by
      /\ op'[o].todo = op[o].todo /\ op'[o].out = op[o].out
  BY <1>1 DEF SaveNewSession, OneOp, MessagesInv, SessionsInv, OpsInv, IsOp, SendPc
<1>5. To(o)' = To(o) /\ Pending(o)' = Pending(o)  BY <1>1, <1>4 DEF To, Pending, SendPc
<1>6. store' = [store EXCEPT ![d][q] = s]  BY <1>2 DEF SaveNewSession
<1> QED  BY <1>1, <1>2, <1>3, <1>4, <1>5, <1>6 DEF SaveNewDoes

LEMMA SaveNewFresh ==
    ASSUME FreshInv, NEW o \in Op, SaveNewSession(o)  PROVE FreshRest'
<1> USE DEF FreshInv
<1>2. PICK d, q, s : SaveNewDoes(o, d, q, s)  BY SaveNewIs
<1>1. UNCHANGED <<sent, spoiled>> /\ op[o].pc = "init" /\ d = op[o].by /\ q = To(o) /\ s = op[o].sess
  BY <1>2 DEF SaveNewDoes
<1>3. d \in Browser /\ q \in User  BY <1>2 DEF SaveNewDoes
<1>4. OneOp(o) /\ op'[o].pc = "encrypt" /\ op'[o].sess = s /\ op'[o].by = d /\ To(o)' = q
  BY <1>2 DEF SaveNewDoes
<1>5. /\ \A b, p : Loaded(o, b, p)' => Loaded(o, b, p)
      /\ \A b, p, c, n : OpCopy(o, b, p, c, n)' => OpCopy(o, b, p, c, n)
      /\ ~OpAt(o, "keep") /\ Pending(o)' = Pending(o)
  BY <1>1, <1>2, <1>4 DEF Loaded, OpAt, OpCopy, HoldPc, SaveNewDoes
<1>6. ExclusiveInv'  BY <1>1, <1>4, <1>5, ExclusiveStays
<1>7. OpCopy(o, d, q, s.send, s.n)  BY <1>1 DEF OpCopy, HoldPc, Loaded, OpAt
<1>8. store' = [store EXCEPT ![d][q] = s]  BY <1>2 DEF SaveNewDoes
<1>9. ASSUME NEW b, NEW p, NEW c, NEW n, Copy(b, p, c, n)'  PROVE Copy(b, p, c, n)
  <2>1. ASSUME NEW x \in Op, OpCopy(x, b, p, c, n)'  PROVE Copy(b, p, c, n)
    BY <1>1, <1>4, <1>5, <2>1, OthersHold DEF Copy
  <2>2. ASSUME StoreCopy(b, p, c, n)'  PROVE Copy(b, p, c, n)
    <3>1. (b = d /\ p = q /\ c = s.send /\ n = s.n) \/ StoreCopy(b, p, c, n)  BY <1>3, <1>8, <2>2, SavedCopy
    <3> QED  BY <1>7, <3>1 DEF Copy
  <2> QED  BY <1>9, <2>1, <2>2 DEF Copy
<1> QED  BY <1>1, <1>4, <1>5, <1>6, <1>9, OthersPending, CalmFresh

LoadDoes(o, d, q) ==
    /\ UNCHANGED <<store, sent>> /\ op[o].pc = "load" /\ d = op[o].by /\ q = To(o) /\ d \in Browser /\ q \in User
    /\ Spoil(Tangled(d, q, TRUE), d, q)
    /\ OneOp(o) /\ (Pending(o)' = Pending(o) \/ Pending(o)' = <<>>)
    /\ op'[o].pc \in LoadPc => op'[o].by = d /\ To(o)' = q /\ op'[o].pc \in {"fetch", "encrypt"}
    /\ op'[o].pc = "fetch" => store[d][q] = NoSession
    /\ op'[o].pc \in HoldPc => store[d][q] # NoSession /\ op'[o].sess = store[d][q]

LEMMA LoadIs ==
    ASSUME MessagesInv, NEW o \in Op, Load(o)  PROVE \E d, q : LoadDoes(o, d, q)
<1>1. UNCHANGED <<store, sent>> /\ op[o].pc = "load" /\ IsOp(op[o])
  BY DEF Load, OpAt, MessagesInv, SessionsInv, OpsInv
<1>2. PICK d, q : d = op[o].by /\ q = To(o)  OBVIOUS
<1>3. PICK s : s = store[d][q]  OBVIOUS
<1>4. d \in Browser /\ q \in User  BY <1>1, <1>2, SenderIs DEF SendPc
<1>5. Spoil(Tangled(d, q, TRUE), d, q)  BY <1>2 DEF Load
<1>6. /\ OneOp(o) /\ (Pending(o)' = Pending(o) \/ Pending(o)' = <<>>)
      /\ op'[o].pc \in LoadPc => op'[o].by = d /\ To(o)' = q /\ op'[o].pc \in {"fetch", "encrypt"}
      /\ op'[o].pc = "fetch" => s = NoSession
      /\ op'[o].pc \in HoldPc => s # NoSession /\ op'[o].sess = s
  <2>1. CASE End(o)  BY <2>1, EndIsOne, EndPending DEF LoadPc, HoldPc, SendPc
  <2>2. CASE s = NoSession /\ op' = [op EXCEPT ![o].pc = "fetch"]
    <3>1. OneOp(o) /\ op'[o].pc = "fetch" /\ op'[o].by = d /\ op'[o].todo = op[o].todo /\ op'[o].out = op[o].out
      BY <1>1, <1>2, <2>2 DEF OneOp, MessagesInv, SessionsInv, OpsInv, IsOp, SendPc
    <3> QED  BY <1>1, <1>2, <1>3, <2>2, <3>1 DEF Pending, To, HoldPc, SendPc
  <2>3. CASE s # NoSession /\ op' = [op EXCEPT ![o].pc = "encrypt", ![o].sess = s]
    <3>1. /\ OneOp(o) /\ op'[o].pc = "encrypt" /\ op'[o].by = d /\ op'[o].todo = op[o].todo
          /\ op'[o].out = op[o].out /\ op'[o].sess = s
      BY <1>1, <1>2, <2>3 DEF OneOp, MessagesInv, SessionsInv, OpsInv, IsOp, SendPc
    <3> QED  BY <1>1, <1>2, <2>3, <3>1 DEF Pending, To, SendPc
  <2> QED  BY <1>2, <1>3, <2>1, <2>2, <2>3 DEF Load, Stored
<1> QED  BY <1>1, <1>2, <1>3, <1>4, <1>5, <1>6 DEF LoadDoes

LEMMA LoadFresh ==
    ASSUME FreshInv, NEW o \in Op, Load(o)  PROVE FreshRest'
<1> USE DEF FreshInv
<1>2. PICK d, q : LoadDoes(o, d, q)  BY LoadIs
<1>3. PICK s : s = store[d][q]  OBVIOUS
<1>1. UNCHANGED <<store, sent>>  BY <1>2 DEF LoadDoes
<1>4. d \in Browser /\ q \in User  BY <1>2 DEF LoadDoes
<1>5. Spoil(Tangled(d, q, TRUE), d, q)  BY <1>2 DEF LoadDoes
<1>6. /\ OneOp(o) /\ (Pending(o)' = Pending(o) \/ Pending(o)' = <<>>)
      /\ op'[o].pc \in LoadPc => op'[o].by = d /\ To(o)' = q /\ op'[o].pc # "keep"
      /\ op'[o].pc \in HoldPc => s # NoSession /\ op'[o].sess = s
  BY <1>2, <1>3 DEF LoadDoes
<1>7. \A b, p : Loaded(o, b, p)' => b = d /\ p = q
  BY <1>6 DEF Loaded, LoadPc, OpAt
<1>8. ExclusiveInv'  BY <1>1, <1>5, <1>6, <1>7, ExclusiveLoads
<1>9. ASSUME NEW b, NEW p, NEW c, NEW n, Copy(b, p, c, n)'  PROVE Copy(b, p, c, n)
  <2>1. ASSUME OpCopy(o, b, p, c, n)'  PROVE StoreCopy(b, p, c, n)
    <3>1. b = d /\ p = q /\ op'[o].pc \in HoldPc /\ c = op'[o].sess.send /\ n = op'[o].sess.n
      BY <1>7, <2>1 DEF OpCopy
    <3> QED  BY <1>3, <1>4, <1>6, <3>1 DEF StoreCopy
  <2>2. ASSUME NEW x \in Op, OpCopy(x, b, p, c, n)'  PROVE Copy(b, p, c, n)
    BY <1>1, <1>6, <2>1, <2>2, OthersHold DEF Copy
  <2>3. ASSUME StoreCopy(b, p, c, n)'  PROVE Copy(b, p, c, n)
    BY <1>1, <2>3 DEF StoreCopy, Copy, NoSession
  <2> QED  BY <1>9, <2>2, <2>3 DEF Copy
<1> QED  BY <1>1, <1>6, <1>8, <1>9, LoadStep, OthersPending, CalmFresh

FetchDoes(o, d, q, s) ==
    /\ UNCHANGED <<store, sent>> /\ op[o].pc = "fetch" /\ d = op[o].by /\ q = To(o) /\ d \in Browser /\ q \in User
    /\ bundle[q] # None /\ s = NewSession(bundle[q].by) /\ Spoil(Crossing(op[o].user, q), d, q)
    /\ OneOp(o) /\ op'[o].pc = "init" /\ op'[o].by = d /\ To(o)' = q /\ op'[o].sess = s
    /\ Pending(o)' = Pending(o)

LEMMA FetchIs ==
    ASSUME MessagesInv, NEW o \in Op, FetchPrekey(o), ~(End(o) /\ UNCHANGED spoiled)
    PROVE  \E d, q, s : FetchDoes(o, d, q, s)
<1>1. UNCHANGED <<store, sent>> /\ op[o].pc = "fetch" /\ IsOp(op[o])
  BY DEF FetchPrekey, OpAt, MessagesInv, SessionsInv, OpsInv
<1>2. PICK d, q, s : d = op[o].by /\ q = To(o) /\ s = NewSession(bundle[To(o)].by)  OBVIOUS
<1>3. d \in Browser /\ q \in User  BY <1>1, <1>2, SenderIs DEF SendPc
<1>4. /\ op' = [op EXCEPT ![o].pc = "init", ![o].sess = s] /\ bundle[q] # None
      /\ Spoil(Crossing(op[o].user, q), d, q)
  BY <1>2 DEF FetchPrekey, Available
<1>5. /\ OneOp(o) /\ op'[o].pc = "init" /\ op'[o].by = d /\ op'[o].todo = op[o].todo
      /\ op'[o].out = op[o].out /\ op'[o].sess = s
  BY <1>1, <1>2, <1>4 DEF OneOp, MessagesInv, SessionsInv, OpsInv, IsOp, SendPc
<1>6. To(o)' = q /\ Pending(o)' = Pending(o)  BY <1>1, <1>2, <1>5 DEF To, Pending, SendPc
<1> QED  BY <1>1, <1>2, <1>3, <1>4, <1>5, <1>6 DEF FetchDoes

LEMMA FetchFresh ==
    ASSUME FreshInv, NEW o \in Op, FetchPrekey(o)  PROVE FreshRest'
<1> USE DEF FreshInv
<1>1. UNCHANGED <<store, sent>> /\ op[o].pc = "fetch" /\ IsOp(op[o])
  BY DEF FetchPrekey, OpAt, MessagesInv, SessionsInv, OpsInv
<1>2. CASE End(o) /\ UNCHANGED spoiled
  BY <1>1, <1>2, EndIsOne, EndPending, OutFresh DEF LoadPc, SendPc
<1>3. CASE ~(End(o) /\ UNCHANGED spoiled)
  <2>1. PICK d, q, s : FetchDoes(o, d, q, s)  BY <1>3, FetchIs
  <2>2. s.send = chains + 1  BY <2>1 DEF FetchDoes, NewSession
  <2>3. OneOp(o) /\ op'[o].pc = "init" /\ op'[o].by = d /\ op'[o].sess = s  BY <2>1 DEF FetchDoes
  <2>4. /\ \A b, p : Loaded(o, b, p)' => Loaded(o, b, p) /\ b = d /\ p = q
        /\ ~OpAt(o, "keep") /\ Pending(o)' = Pending(o)
    BY <1>1, <2>1, <2>3 DEF FetchDoes, Loaded, OpAt
  <2>5. spoiled \subseteq spoiled'  BY FetchStep
  <2>6. ExclusiveInv'  BY <1>1, <2>3, <2>4, <2>5, ExclusiveStays
  <2>7. ASSUME NEW b, NEW p, NEW c, NEW n, Copy(b, p, c, n)'
        PROVE  Copy(b, p, c, n) \/ (c = chains + 1 /\ b = d /\ p = q)
    <3>1. ASSUME NEW x \in Op \ {o}, OpCopy(x, b, p, c, n)'  PROVE Copy(b, p, c, n)
      BY <1>1, <2>3, <3>1, OthersHold DEF Copy
    <3>2. ASSUME OpCopy(o, b, p, c, n)'  PROVE c = chains + 1 /\ b = d /\ p = q
      BY <2>2, <2>3, <2>4, <3>2 DEF OpCopy
    <3>3. ASSUME StoreCopy(b, p, c, n)'  PROVE Copy(b, p, c, n)
      BY <1>1, <3>3 DEF StoreCopy, Copy, NoSession
    <3> QED  BY <2>7, <3>1, <3>2, <3>3 DEF Copy
  <2>8. OnceInv' /\ \A b, p, c, n : Used(b, p, c, n)' => Used(b, p, c, n)
    BY <1>1, <2>3, <2>4, <2>5, OthersPending, OnceStays
  <2>9. HomeInv' /\ BoundInv'  BY <2>5, <2>7, <2>8, ChainsKept
  <2> QED  BY <2>6, <2>8, <2>9 DEF FreshRest
<1> QED  BY <1>2, <1>3

LEMMA OpenFresh ==
    ASSUME FreshInv, NEW o \in Op, OpenMessage(o)  PROVE FreshRest'
<1> USE DEF FreshInv
<1>1. UNCHANGED <<store, sent>> /\ op[o].pc = "open"  BY DEF OpenMessage, OpAt
<1>2. PICK d, q : OpenDoes(o, d, q)  BY OpenKept
<1>3. Spoil(Tangled(d, q, FALSE), d, q)  BY <1>2 DEF OpenMessage, OpenDoes
<1>4. OneOp(o) /\ op'[o].pc \in {"keep", "idle"} /\ Pending(o)' = <<>>
  BY <1>2, EndPending DEF OpenDoes, SendPc
<1>5. \A b, p : Loaded(o, b, p)' => b = d /\ p = q /\ op'[o].pc = "keep"
  <2> SUFFICES ASSUME NEW b, NEW p, Loaded(o, b, p)'  PROVE b = d /\ p = q /\ op'[o].pc = "keep"
    OBVIOUS
  <2>1. op'[o].pc = "keep"  BY <1>4 DEF Loaded
  <2>2. op'[o].by = d /\ sent'[op'[o].msg].from = q  BY <1>1, <1>2, <2>1 DEF OpenDoes
  <2> QED  BY <2>1, <2>2 DEF Loaded, OpAt
<1>6. ExclusiveInv'
  <2>1. FALSE \in BOOLEAN  OBVIOUS
  <2>2. op'[o].pc \notin LoadPc \/ OpAt(o, "keep")'  BY <1>4 DEF LoadPc, OpAt
  <2> QED  BY <1>1, <1>3, <1>4, <1>5, <2>1, <2>2, ExclusiveLoads
<1>7. ASSUME NEW b, NEW p, NEW c, NEW n, Copy(b, p, c, n)'
      PROVE  Copy(b, p, c, n) \/ (c = chains + 1 /\ b = d /\ p = q)
  <2>1. ASSUME NEW x \in Op \ {o}, OpCopy(x, b, p, c, n)'  PROVE Copy(b, p, c, n)
    BY <1>1, <1>4, <2>1, OthersHold DEF Copy
  <2>2. ASSUME OpCopy(o, b, p, c, n)'  PROVE Copy(b, p, c, n) \/ (c = chains + 1 /\ b = d /\ p = q)
    <3>1. b = d /\ p = q /\ op'[o].pc = "keep" /\ c = op'[o].sess.send /\ n = op'[o].sess.n
      BY <1>5, <2>2 DEF OpCopy
    <3> QED  BY <1>2, <3>1 DEF OpenDoes, Copy, StoreCopy
  <2>3. ASSUME StoreCopy(b, p, c, n)'  PROVE Copy(b, p, c, n)
    BY <1>1, <2>3 DEF StoreCopy, Copy, NoSession
  <2> QED  BY <1>7, <2>1, <2>2, <2>3 DEF Copy
<1>8. spoiled \subseteq spoiled'  BY OpenStep
<1>9. OnceInv' /\ \A b, p, c, n : Used(b, p, c, n)' => Used(b, p, c, n)
  BY <1>1, <1>4, <1>8, OthersPending, OnceStays
<1>10. HomeInv' /\ BoundInv'  BY <1>7, <1>8, <1>9, ChainsKept
<1> QED  BY <1>6, <1>9, <1>10 DEF FreshRest

LEMMA KeepFresh ==
    ASSUME FreshInv, NEW o \in Op, KeepMessage(o)  PROVE FreshRest'
<1> USE DEF FreshInv
<1>1. UNCHANGED <<sent, spoiled>>  BY DEF KeepMessage
<1>2. PICK d, q : KeepDoes(o, d, q)  BY KeepKept
<1>3. OneOp(o) /\ op'[o].pc = "idle" /\ Pending(o)' = <<>>
  BY <1>2, EndIsOne, EndPending DEF KeepDoes, SendPc
<1>4. PICK s : s = op[o].sess  OBVIOUS
<1>5. OpCopy(o, d, q, s.send, s.n)  BY <1>2, <1>4 DEF KeepDoes, OpCopy, HoldPc, Loaded, OpAt
<1>6. op'[o].pc \notin LoadPc  BY <1>3 DEF LoadPc
<1>7. ExclusiveInv'  BY <1>1, <1>3, <1>6, NotLoaded, ExclusiveStays
<1>8. ASSUME NEW b, NEW p, NEW c, NEW n, Copy(b, p, c, n)'  PROVE Copy(b, p, c, n)
  <2>1. ASSUME NEW x \in Op, OpCopy(x, b, p, c, n)'  PROVE Copy(b, p, c, n)
    BY <1>1, <1>3, <1>6, <2>1, NotLoaded, OthersHold DEF Copy
  <2>2. ASSUME StoreCopy(b, p, c, n)'  PROVE Copy(b, p, c, n)
    <3>1. d \in Browser /\ q \in User /\ store' = [store EXCEPT ![d][q] = s]  BY <1>2, <1>4 DEF KeepDoes
    <3>2. (b = d /\ p = q /\ c = s.send /\ n = s.n) \/ StoreCopy(b, p, c, n)  BY <2>2, <3>1, SavedCopy
    <3> QED  BY <1>5, <3>2 DEF Copy
  <2> QED  BY <1>8, <2>1, <2>2 DEF Copy
<1> QED  BY <1>1, <1>3, <1>7, <1>8, OthersPending, CalmFresh

LEMMA SentUsed ==
    ASSUME NEW i \in DOMAIN sent  PROVE Used(sent[i].by, sent[i].to, sent[i].chain, sent[i].n)
BY DEF Used, KeyIs

LEMMA PendingUsed ==
    ASSUME NEW o \in Op, NEW k \in DOMAIN Pending(o)
    PROVE  Used(Pending(o)[k].by, Pending(o)[k].to, Pending(o)[k].chain, Pending(o)[k].n)
BY DEF Used, KeyIs

\* The key that a session is about to use is new, or the session is spoiled.
LEMMA NextKey ==
    ASSUME FreshInv, NEW d, NEW q, NEW c, NEW n, Copy(d, q, c, n),
           NEW m, Used(m.by, m.to, m.chain, m.n), m.chain = c, m.n = n
    PROVE  m.by = d /\ m.to = q /\ <<d, q>> \in spoiled
<1>1. m.by = d /\ m.to = q  BY DEF Holds, FreshInv, HomeInv
<1>2. n \in Nat  BY HoldsIs DEF Holds, FreshInv
<1>3. <<d, q>> \notin spoiled => n < n  BY <1>1 DEF FreshInv, BoundInv
<1> QED  BY <1>1, <1>2, <1>3

LEMMA EncryptFresh ==
    ASSUME FreshInv, NEW o \in Op, Encrypt(o)  PROVE FreshRest'
<1> USE DEF FreshInv
<1>1. UNCHANGED <<sent, spoiled>>  BY DEF Encrypt
<1>2. PICK d, q, s : EncryptDoes(o, d, q, s)  BY EncryptKept
<1>3. PICK e : e = Envelope(s, d, q)  OBVIOUS
<1>4. OneOp(o) /\ op'[o].pc \in {"emit", "load"} /\ op'[o].pc \notin LoadPc
  BY <1>2 DEF EncryptDoes, LoadPc
<1>5. PICK c, n : c = s.send /\ n = s.n  OBVIOUS
<1>6. c \in Chain /\ n \in Nat  BY <1>2, <1>5 DEF EncryptDoes, IsSession
<1>7. e.by = d /\ e.to = q /\ e.chain = c /\ e.n = n  BY <1>3, <1>5 DEF Envelope
<1>8. OpCopy(o, d, q, c, n) /\ Loaded(o, d, q) /\ ~OpAt(o, "keep")
  BY <1>2, <1>5 DEF EncryptDoes, OpCopy, HoldPc, Loaded, OpAt
<1>9. ExclusiveInv'  BY <1>1, <1>4, NotLoaded, ExclusiveStays
<1>10. /\ DOMAIN Pending(o)' = DOMAIN Pending(o) \cup {Len(Pending(o)) + 1}
       /\ Pending(o)'[Len(Pending(o)) + 1] = e
       /\ \A k \in DOMAIN Pending(o) : Pending(o)'[k] = Pending(o)[k]
  <2>1. PICK out : out = op[o].out  OBVIOUS
  <2>2. out \in Seq(EnvelopeType) /\ op[o].pc \in SendPc
    BY <1>2, <2>1 DEF EncryptDoes, SendPc, MessagesInv, SessionsInv, OpsInv, IsOp
  <2>3. op'[o].out = Append(out, e) /\ op'[o].pc \in SendPc  BY <1>2, <1>3, <2>1 DEF EncryptDoes, SendPc
  <2>4. Pending(o) = out /\ Pending(o)' = Append(out, e)  BY <2>1, <2>2, <2>3 DEF Pending
  <2>5. PICK new : new = Append(out, e)  OBVIOUS
  <2>6. DOMAIN new = DOMAIN out \cup {Len(out) + 1} /\ new[Len(out) + 1] = e /\ \A k \in DOMAIN out : new[k] = out[k]
    BY <2>2, <2>5
  <2> QED  BY <2>4, <2>5, <2>6
<1>11. \A x \in Op : \A k \in DOMAIN Pending(x)' :
           \/ k \in DOMAIN Pending(x) /\ Pending(x)'[k] = Pending(x)[k]
           \/ x = o /\ k = Len(Pending(o)) + 1 /\ Pending(x)'[k] = e
  <2> SUFFICES ASSUME NEW x \in Op \ {o}  PROVE Pending(x)' = Pending(x)  BY <1>10
  <2> QED  BY <1>1, <1>4, OthersHold
<1>12. \A b, p, g, k : Used(b, p, g, k)' => Used(b, p, g, k) \/ (b = d /\ p = q /\ g = c /\ k = n)
  <2> SUFFICES ASSUME NEW b, NEW p, NEW g, NEW k, Used(b, p, g, k)'
               PROVE  Used(b, p, g, k) \/ (b = d /\ p = q /\ g = c /\ k = n)
    OBVIOUS
  <2>1. CASE (\E i \in DOMAIN sent : KeyIs(sent[i], b, p, g, k))'  BY <1>1, <2>1 DEF Used, KeyIs
  <2>2. CASE (\E x \in Op : \E l \in DOMAIN Pending(x) : KeyIs(Pending(x)[l], b, p, g, k))'
    <3>1. PICK x \in Op : \E l \in DOMAIN Pending(x)' : KeyIs(Pending(x)[l], b, p, g, k)'  BY <2>2
    <3>2. PICK l \in DOMAIN Pending(x)' : KeyIs(Pending(x)[l], b, p, g, k)'  BY <3>1
    <3> QED  BY <1>7, <1>11, <3>2 DEF Used, KeyIs
  <2> QED  BY <2>1, <2>2 DEF Used
<1>13. \A b, p, g, k : Copy(b, p, g, k)' =>
           \/ b = d /\ p = q /\ g = c /\ k = n + 1
           \/ ~(b = d /\ p = q) /\ Copy(b, p, g, k)
           \/ \E x \in Op \ {o} : OpCopy(x, b, p, g, k)
  <2> SUFFICES ASSUME NEW b, NEW p, NEW g, NEW k, Copy(b, p, g, k)'
               PROVE  \/ b = d /\ p = q /\ g = c /\ k = n + 1
                      \/ ~(b = d /\ p = q) /\ Copy(b, p, g, k)
                      \/ \E x \in Op \ {o} : OpCopy(x, b, p, g, k)
    OBVIOUS
  <2>1. ASSUME NEW x \in Op, OpCopy(x, b, p, g, k)'  PROVE x # o /\ OpCopy(x, b, p, g, k)
    BY <1>1, <1>4, <2>1, NotLoaded, OthersHold
  <2>2. ASSUME StoreCopy(b, p, g, k)'
        PROVE  (b = d /\ p = q /\ g = c /\ k = n + 1) \/ (~(b = d /\ p = q) /\ StoreCopy(b, p, g, k))
    <3>1. PICK t : t = Stepped(s)  OBVIOUS
    <3>2. t.send = c /\ t.n = n + 1  BY <1>2, <1>5, <3>1 DEF EncryptDoes, IsSession, Stepped
    <3>3. d \in Browser /\ q \in User /\ store' = [store EXCEPT ![d][q] = t]  BY <1>2, <3>1 DEF EncryptDoes
    <3> QED  BY <2>2, <3>2, <3>3, SavedCopy
  <2> QED  BY <2>1, <2>2 DEF Copy
<1>14. \A b, p, g, k : Holds(b, p, g, k)' => \E l : Holds(b, p, g, l)
  <2>1. Holds(d, q, c, n)  BY <1>8 DEF Holds, Copy
  <2> QED  BY <1>12, <1>13, <2>1 DEF Holds, Copy
<1>15. HomeInv'  BY <1>14 DEF HomeInv
<1>16. BoundInv'
  <2> SUFFICES ASSUME NEW b, NEW p, NEW g, NEW k, NEW l, Copy(b, p, g, k)', Used(b, p, g, l)', <<b, p>> \notin spoiled
               PROVE  l < k
    BY <1>1 DEF BoundInv
  <2>1. CASE b = d /\ p = q
    <3>1. ASSUME NEW x \in Op \ {o}, OpCopy(x, b, p, g, k)  PROVE FALSE
      BY <1>8, <2>1, <3>1 DEF OpCopy, ExclusiveInv
    <3>2. g = c /\ k = n + 1  BY <1>13, <2>1, <3>1
    <3>3. CASE Used(b, p, g, l)
      <4>1. Copy(d, q, c, n)  BY <1>8 DEF Copy
      <4>2. l < n  BY <2>1, <3>2, <3>3, <4>1 DEF BoundInv
      <4>3. l \in Nat  BY <3>3, HoldsIs DEF Holds
      <4> QED  BY <1>6, <3>2, <4>2, <4>3
    <3>4. CASE ~Used(b, p, g, l)
      <4>1. l = n  BY <1>12, <3>4
      <4> QED  BY <1>6, <3>2, <4>1
    <3> QED  BY <3>3, <3>4
  <2>2. CASE ~(b = d /\ p = q)
    <3>1. Copy(b, p, g, k) /\ Used(b, p, g, l)  BY <1>12, <1>13, <2>2 DEF Copy
    <3> QED  BY <3>1 DEF BoundInv
  <2> QED  BY <2>1, <2>2
<1>17. Copy(d, q, c, n)  BY <1>8 DEF Copy
<1>18. \A i \in DOMAIN sent : SameKey(e, sent[i]) => Burnt(e) /\ Burnt(sent[i])
  BY <1>7, <1>17, SentUsed, NextKey DEF SameKey, Burnt
<1>19. \A x \in Op : \A k \in DOMAIN Pending(x) :
           SameKey(e, Pending(x)[k]) => Burnt(e) /\ Burnt(Pending(x)[k])
  BY <1>7, <1>17, PendingUsed, NextKey DEF SameKey, Burnt
<1>20. OnceInv'
  <2>1. (\A i, j \in DOMAIN sent : (i # j /\ SameKey(sent[i], sent[j])) => Burnt(sent[i]))'
    BY <1>1 DEF OnceInv, SameKey, Burnt
  <2>2. (\A x \in Op : \A k \in DOMAIN Pending(x), i \in DOMAIN sent :
            SameKey(Pending(x)[k], sent[i]) => Burnt(sent[i]))'
    BY <1>1, <1>11, <1>18 DEF OnceInv, SameKey, Burnt
  <2>3. (\A x, y \in Op : \A k \in DOMAIN Pending(x), l \in DOMAIN Pending(y) :
            ((x # y \/ k # l) /\ SameKey(Pending(x)[k], Pending(y)[l])) => Burnt(Pending(x)[k]))'
    <3> SUFFICES ASSUME NEW x \in Op, NEW y \in Op, NEW k \in DOMAIN Pending(x)', NEW l \in DOMAIN Pending(y)',
                        x # y \/ k # l, SameKey(Pending(x)'[k], Pending(y)'[l])
                 PROVE  Burnt(Pending(x)'[k])
      BY <1>1 DEF SameKey, Burnt
    <3>1. CASE k \in DOMAIN Pending(x) /\ Pending(x)'[k] = Pending(x)[k]
      <4>1. CASE l \in DOMAIN Pending(y) /\ Pending(y)'[l] = Pending(y)[l]
        BY <3>1, <4>1 DEF OnceInv
      <4>2. CASE Pending(y)'[l] = e  BY <1>19, <3>1, <4>2 DEF SameKey
      <4> QED  BY <1>11, <4>1, <4>2
    <3>2. CASE x = o /\ k = Len(Pending(o)) + 1 /\ Pending(x)'[k] = e
      <4>1. l \in DOMAIN Pending(y) /\ Pending(y)'[l] = Pending(y)[l]  BY <1>11, <3>2
      <4> QED  BY <1>19, <3>2, <4>1
    <3> QED  BY <1>11, <3>1, <3>2
  <2> QED  BY <2>1, <2>2, <2>3 DEF OnceInv
<1> QED  BY <1>9, <1>15, <1>16, <1>20 DEF FreshRest

Twin(m, e) == m.by = e.by /\ m.to = e.to /\ m.chain = e.chain /\ m.n = e.n

LEMMA EmitFresh ==
    ASSUME FreshInv, NEW o \in Op, Emit(o)  PROVE FreshRest'
<1> USE DEF FreshInv
<1>1. UNCHANGED <<store, spoiled, chains>>  BY DEF Emit
<1>2. PICK from : EmitDoes(o, from)  BY EmitKept
<1>3. OneOp(o) /\ op'[o].pc = "idle" /\ op'[o].pc \notin LoadPc /\ Pending(o)' = <<>>
  BY <1>2, EndIsOne, EndPending DEF EmitDoes, LoadPc, SendPc
<1>4. \A i \in DOMAIN sent : i \in DOMAIN sent' /\ sent'[i] = sent[i]
  BY <1>2 DEF EmitDoes, MessagesInv, SessionsInv, PostInv
<1>5. ExclusiveInv'  BY <1>1, <1>3, <1>4, NotLoaded, ExclusiveStays
\* A message of the step has the key that was pending.
<1>6. \A i \in DOMAIN sent' :
          \/ i \in DOMAIN sent /\ sent'[i] = sent[i]
          \/ i - Len(sent) \in DOMAIN Pending(o) /\ Twin(sent'[i], Pending(o)[i - Len(sent)])
  <2> SUFFICES ASSUME NEW i \in DOMAIN sent', ~(i \in DOMAIN sent /\ sent'[i] = sent[i])
               PROVE  i - Len(sent) \in DOMAIN Pending(o) /\ Twin(sent'[i], Pending(o)[i - Len(sent)])
    OBVIOUS
  <2>1. PICK k : k = i - Len(sent)  OBVIOUS
  <2>2. Pending(o) = op[o].out  BY <1>2 DEF EmitDoes, Pending, SendPc
  <2>3. i \in 1 .. Len(sent') /\ Len(sent) \in Nat /\ DOMAIN sent = 1 .. Len(sent)
    BY <1>2 DEF EmitDoes, MessagesInv, SessionsInv, PostInv
  <2>4. ~(i <= Len(sent))  BY <1>4, <2>3
  <2>5. k \in DOMAIN Pending(o) /\ sent'[i] = [Pending(o)[k] EXCEPT !.from = from]
    BY <1>2, <2>1, <2>2, <2>4 DEF EmitDoes
  <2>6. PICK m : m = Pending(o)[k]  OBVIOUS
  <2>7. m \in EnvelopeType  BY <2>5, <2>6, PendingIs
  <2> QED  BY <2>1, <2>5, <2>6, <2>7 DEF Twin, EnvelopeType
<1>7. \A x \in Op : \A k \in DOMAIN Pending(x)' :
          x # o /\ k \in DOMAIN Pending(x) /\ Pending(x)'[k] = Pending(x)[k]
  BY <1>3, <1>4, OthersHold
<1>8. ASSUME NEW b, NEW p, NEW c, NEW n, Used(b, p, c, n)'  PROVE Used(b, p, c, n)
  <2>1. CASE (\E i \in DOMAIN sent : KeyIs(sent[i], b, p, c, n))'
    <3>1. PICK i \in DOMAIN sent' : KeyIs(sent[i], b, p, c, n)'  BY <2>1
    <3>2. CASE i \in DOMAIN sent /\ sent'[i] = sent[i]  BY <3>1, <3>2 DEF Used, KeyIs
    <3>3. CASE i - Len(sent) \in DOMAIN Pending(o) /\ Twin(sent'[i], Pending(o)[i - Len(sent)])
      BY <3>1, <3>3 DEF Used, KeyIs, Twin
    <3> QED  BY <1>6, <3>2, <3>3
  <2>2. CASE (\E x \in Op : \E k \in DOMAIN Pending(x) : KeyIs(Pending(x)[k], b, p, c, n))'
    <3>1. PICK x \in Op : \E k \in DOMAIN Pending(x)' : KeyIs(Pending(x)[k], b, p, c, n)'  BY <2>2
    <3>2. PICK k \in DOMAIN Pending(x)' : KeyIs(Pending(x)[k], b, p, c, n)'  BY <3>1
    <3> QED  BY <1>7, <3>2 DEF Used, KeyIs
  <2> QED  BY <1>8, <2>1, <2>2 DEF Used
<1>9. ASSUME NEW b, NEW p, NEW c, NEW n, Copy(b, p, c, n)'  PROVE Copy(b, p, c, n)
  <2>1. ASSUME NEW x \in Op, OpCopy(x, b, p, c, n)'  PROVE Copy(b, p, c, n)
    BY <1>3, <1>4, <2>1, NotLoaded, OthersHold DEF Copy
  <2>2. ASSUME StoreCopy(b, p, c, n)'  PROVE Copy(b, p, c, n)
    BY <1>1, <2>2 DEF StoreCopy, Copy, NoSession
  <2> QED  BY <1>9, <2>1, <2>2 DEF Copy
<1>10. HomeInv' /\ BoundInv'  BY <1>1, <1>8, <1>9, ChainsKept
\* Messages with one key were spoiled before the step, in the one place of their chain.
<1>11. \A i \in DOMAIN sent, k \in DOMAIN Pending(o) :
           SameKey(sent[i], Pending(o)[k]) => Burnt(sent[i]) /\ Burnt(Pending(o)[k])
  <2> SUFFICES ASSUME NEW i \in DOMAIN sent, NEW k \in DOMAIN Pending(o), SameKey(sent[i], Pending(o)[k])
               PROVE  Burnt(sent[i]) /\ Burnt(Pending(o)[k])
    OBVIOUS
  <2>1. Burnt(sent[i])  BY DEF OnceInv, SameKey
  <2>2. PICK m, e : m = sent[i] /\ e = Pending(o)[k]  OBVIOUS
  <2>3. Used(m.by, m.to, m.chain, m.n) /\ Used(e.by, e.to, e.chain, e.n) /\ m.chain = e.chain
    BY <2>2, SentUsed, PendingUsed DEF SameKey
  <2>4. m.by = e.by /\ m.to = e.to  BY <2>3 DEF HomeInv, Holds
  <2> QED  BY <2>1, <2>2, <2>4 DEF Burnt
<1>12. \A i, j \in DOMAIN sent' : (i # j /\ SameKey(sent'[i], sent'[j])) => Burnt(sent'[i])
  <2> SUFFICES ASSUME NEW i \in DOMAIN sent', NEW j \in DOMAIN sent', i # j, SameKey(sent'[i], sent'[j])
               PROVE  Burnt(sent'[i])
    OBVIOUS
  <2>1. PICK k, l : k = i - Len(sent) /\ l = j - Len(sent)  OBVIOUS
  <2>2. k # l  BY <1>2, <2>1 DEF EmitDoes, MessagesInv, SessionsInv, PostInv
  <2>3. CASE i \in DOMAIN sent /\ sent'[i] = sent[i]
    <3>1. CASE j \in DOMAIN sent /\ sent'[j] = sent[j]  BY <2>3, <3>1 DEF OnceInv
    <3>2. CASE l \in DOMAIN Pending(o) /\ Twin(sent'[j], Pending(o)[l])
      BY <1>11, <2>3, <3>2 DEF Twin, SameKey
    <3> QED  BY <1>6, <2>1, <3>1, <3>2
  <2>4. CASE k \in DOMAIN Pending(o) /\ Twin(sent'[i], Pending(o)[k])
    <3>1. CASE j \in DOMAIN sent /\ sent'[j] = sent[j]
      BY <1>11, <2>4, <3>1 DEF Twin, SameKey, Burnt
    <3>2. CASE l \in DOMAIN Pending(o) /\ Twin(sent'[j], Pending(o)[l])
      <4>1. SameKey(Pending(o)[k], Pending(o)[l])  BY <2>4, <3>2 DEF Twin, SameKey
      <4>2. Burnt(Pending(o)[k])  BY <2>2, <2>4, <3>2, <4>1 DEF OnceInv
      <4> QED  BY <2>4, <4>2 DEF Twin, Burnt
    <3> QED  BY <1>6, <2>1, <3>1, <3>2
  <2> QED  BY <1>6, <2>1, <2>3, <2>4
<1>13. ASSUME NEW x \in Op, NEW k \in DOMAIN Pending(x)', NEW i \in DOMAIN sent',
              SameKey(Pending(x)'[k], sent'[i])
       PROVE  Burnt(sent'[i])
  <2>1. x # o /\ k \in DOMAIN Pending(x) /\ Pending(x)'[k] = Pending(x)[k]  BY <1>7
  <2>2. CASE i \in DOMAIN sent /\ sent'[i] = sent[i]  BY <1>13, <2>1, <2>2 DEF OnceInv
  <2>3. CASE i - Len(sent) \in DOMAIN Pending(o) /\ Twin(sent'[i], Pending(o)[i - Len(sent)])
    <3>1. PICK l : l = i - Len(sent)  OBVIOUS
    <3>2. SameKey(Pending(o)[l], Pending(x)[k])  BY <1>13, <2>1, <2>3, <3>1 DEF Twin, SameKey
    <3>3. Burnt(Pending(o)[l])  BY <2>1, <2>3, <3>1, <3>2 DEF OnceInv
    <3> QED  BY <2>3, <3>1, <3>3 DEF Twin, Burnt
  <2> QED  BY <1>6, <2>2, <2>3
<1>14. ASSUME NEW x \in Op, NEW y \in Op, NEW k \in DOMAIN Pending(x)', NEW l \in DOMAIN Pending(y)',
              x # y \/ k # l, SameKey(Pending(x)'[k], Pending(y)'[l])
       PROVE  Burnt(Pending(x)'[k])
  BY <1>7, <1>14 DEF OnceInv
<1>15. OnceInv'  BY <1>1, <1>12, <1>13, <1>14 DEF OnceInv, SameKey, Burnt
<1> QED  BY <1>5, <1>10, <1>15 DEF FreshRest

LEMMA OtherFresh ==
    ASSUME FreshInv, UNCHANGED <<store, op, sent, spoiled>>  PROVE FreshRest'
<1>1. \A x : Pending(x)' = Pending(x)  BY DEF Pending
<1>2. \A x, b, p : Loaded(x, b, p)' = Loaded(x, b, p)  BY DEF Loaded, OpAt, To
<1>3. PendingCalm  BY <1>1 DEF PendingCalm
<1>4. \A b, p, c, n : Copy(b, p, c, n)' => Copy(b, p, c, n)
  BY <1>2 DEF Copy, StoreCopy, OpCopy, NoSession
<1>5. ExclusiveInv'  BY <1>2 DEF FreshInv, ExclusiveInv, OpAt
<1> QED  BY <1>3, <1>4, <1>5, CalmFresh

LEMMA ReloadFresh ==
    ASSUME FreshInv, NEW d \in Browser, ReloadsPage(d)  PROVE FreshRest'
<1> USE DEF FreshInv
<1>1. UNCHANGED <<store, sent, spoiled>>  BY DEF ReloadsPage
<1>2. \A x \in Op : op'[x] = op[x] \/ op'[x] = Idle  BY DEF ReloadsPage
<1>3. \A x \in Op : Pending(x)' = Pending(x) \/ Pending(x)' = <<>>
  BY <1>2 DEF Pending, Idle, SendPc
<1>4. \A x \in Op : \A b, p : Loaded(x, b, p)' => Loaded(x, b, p) /\ op'[x] = op[x]
  BY <1>1, <1>2 DEF Loaded, OpAt, To, Idle
<1>5. ExclusiveInv'
  <2> SUFFICES ASSUME NEW x \in Op, NEW y \in Op, NEW b, NEW p, x # y, Loaded(x, b, p)', Loaded(y, b, p)',
                      ~(OpAt(x, "keep")' /\ OpAt(y, "keep")')
               PROVE  <<b, p>> \in spoiled
    BY <1>1 DEF ExclusiveInv
  <2>1. Loaded(x, b, p) /\ Loaded(y, b, p) /\ ~(OpAt(x, "keep") /\ OpAt(y, "keep"))  BY <1>4 DEF OpAt
  <2> QED  BY <2>1 DEF ExclusiveInv
<1>6. \A b, p, c, n : Copy(b, p, c, n)' => Copy(b, p, c, n)
  <2>1. \A x \in Op : \A b, p, c, n : OpCopy(x, b, p, c, n)' => OpCopy(x, b, p, c, n)  BY <1>4 DEF OpCopy
  <2> QED  BY <1>1, <2>1 DEF Copy, StoreCopy, NoSession
<1>7. PendingCalm  BY <1>1, <1>3 DEF PendingCalm
<1> QED  BY <1>1, <1>5, <1>6, <1>7, CalmFresh

LEMMA ForgetFresh ==
    ASSUME FreshInv, Forgets  PROVE FreshRest'
<1> USE DEF FreshInv
<1>1. UNCHANGED <<store, sent, spoiled>>  BY DEF Forgets
<1>2. \A x \in Op : Pending(x)' = Pending(x)  BY ForgetIs DEF Pending
<1>3. ASSUME NEW x \in Op  PROVE \A b, p : Loaded(x, b, p)' => Loaded(x, b, p)
  BY <1>1, ForgetIs DEF Loaded, OpAt, To, SendPc
<1>4. \A x \in Op : op'[x].pc = op[x].pc  BY ForgetIs
<1>5. ASSUME NEW x \in Op  PROVE \A b, p, c, n : OpCopy(x, b, p, c, n)' => OpCopy(x, b, p, c, n)
  <2>1. op[x].pc \in HoldPc => op'[x].sess = op[x].sess  BY ForgetIs
  <2> QED  BY <1>3, <1>4, <2>1 DEF OpCopy
<1>6. \A b, p, c, n : Copy(b, p, c, n)' => Copy(b, p, c, n)
  BY <1>1, <1>5 DEF Copy, StoreCopy, NoSession
<1>7. ExclusiveInv'  BY <1>1, <1>3, <1>4 DEF ExclusiveInv, OpAt
<1>8. PendingCalm  BY <1>1, <1>2 DEF PendingCalm
<1> QED  BY <1>1, <1>6, <1>7, <1>8, CalmFresh

LEMMA FreshStep == FreshInv /\ [Next]_vars => FreshInv'
<1> SUFFICES ASSUME FreshInv, [Next]_vars PROVE FreshRest'
  BY MessagesStep DEF FreshInv, FreshRest
<1>1. CASE UNCHANGED sessionVars \/ \E b \in Browser : CreateGroup(b)
  <2>1. UNCHANGED <<store, op, sent, spoiled>>  BY <1>1 DEF sessionVars, CreateGroup
  <2> QED  BY <2>1, OtherFresh
<1>2. ASSUME NEW o \in Op,
             \/ \E b \in Browser : SendGroupMessage(o, b) \/ \E p \in User : SendMessage(o, b, p)
             \/ GetGroup(o) \/ SkipMyself(o) \/ SaveNewSession(o) \/ Encrypt(o) \/ EmitLost(o)
             \/ Load(o) \/ FetchPrekey(o) \/ OpenMessage(o) \/ KeepMessage(o) \/ Emit(o)
             \/ \E c \in Call : Deliver(o, c)
      PROVE  FreshRest'
  BY <1>2, OutSteps, SaveNewFresh, LoadFresh, FetchFresh, OpenFresh, KeepFresh, EncryptFresh, EmitFresh
<1> QED  BY <1>1, <1>2, StepIsSessionStep, ForgetFresh, ReloadFresh DEF SessionStep

LEMMA FreshStart == Init => FreshInv
<1> SUFFICES ASSUME Init PROVE FreshInv  OBVIOUS
<1>1. \A o \in Op : Pending(o) = <<>> /\ op[o].pc = "idle"  BY DEF Init, Idle, Pending, SendPc
<1>2. \A b, p, c, n : ~Holds(b, p, c, n)
  BY <1>1 DEF Init, Holds, Copy, StoreCopy, OpCopy, Used, HoldPc
<1>3. ExclusiveInv  BY <1>1 DEF ExclusiveInv, Loaded
<1>4. OnceInv  BY <1>1 DEF Init, OnceInv
<1>5. HomeInv /\ BoundInv  BY <1>2 DEF HomeInv, BoundInv, Holds
<1> QED  BY <1>3, <1>4, <1>5, MessagesStart DEF FreshInv

\* No key of a ratchet chain encrypts two messages: a session is saved stepped before its
\* message leaves, whatever is torn, lost or received between, for any number of browsers and
\* operations, unless a send overlapped another operation on the session (encryptMessage).
THEOREM FreshCorrect == Spec => []FreshKeys
<1>1. FreshInv => FreshKeys  BY DEF FreshInv, OnceInv, FreshKeys, SameKey, Burnt
<1> QED  BY <1>1, FreshStart, FreshStep, PTL DEF Spec

-----------------------------------------------------------------------------
(* Messages: who sends, and who reads *)

Name(b, u) == [by |-> b, user |-> u]

\* What a step makes of an operation: a send goes on, or begins; a handler goes on, or begins.
SendsOn(x) ==
    /\ op[x].pc \in SendPc /\ op'[x].pc \in SendPc
    /\ op'[x].by = op[x].by /\ op'[x].user = op[x].user
    /\ op'[x].via = "direct" =>
           /\ op[x].via = "direct"
           /\ op'[x].todo = op[x].todo \/ (op[x].todo # <<>> /\ op'[x].todo = Tail(op[x].todo))
    /\ \/ op'[x].out = op[x].out
       \/ op[x].todo # <<>> /\ op'[x].out = Append(op[x].out, Envelope(op[x].sess, op[x].by, Head(op[x].todo)))

Begins(x) ==
    /\ op'[x].pc \in SendPc /\ op'[x].by \in Browser /\ Connected(op'[x].by)
    /\ op'[x].user = Of(socket[op'[x].by]) /\ op'[x].out = <<>>
    /\ op'[x].via = "direct" => \E p \in User \ {op'[x].user} : op'[x].todo = <<p>>

HandlesOn(x) ==
    /\ op[x].pc \in HandlePc /\ op'[x].pc \in HandlePc /\ op'[x].by = op[x].by /\ op'[x].msg = op[x].msg

Delivered(x, i) ==
    /\ op'[x].pc = "open" /\ op'[x].msg = i /\ OneOp(x)
    /\ \E c \in Call : /\ sock[c] = "open" /\ op'[x].by = By(c) /\ i \in mail[Of(c)] /\ Of(c) \in User
                       /\ mail' = [mail EXCEPT ![Of(c)] = @ \ {i}]

Turn(x) ==
    \/ op'[x].pc = "idle" \/ SendsOn(x) \/ Begins(x) \/ HandlesOn(x) \/ \E i : Delivered(x, i)

LEMMA KeptIsTurn ==
    ASSUME MessagesInv, NEW x \in Op, op'[x] = op[x]  PROVE Turn(x)
BY DEF MessagesInv, SessionsInv, OpsInv, IsOp, Turn, SendsOn, HandlesOn

LEMMA SendTurns ==
    ASSUME MessagesInv, NEW o \in Op,
           \/ \E b \in Browser : SendGroupMessage(o, b) \/ \E p \in User : SendMessage(o, b, p)
           \/ GetGroup(o) \/ SkipMyself(o) \/ SaveNewSession(o) \/ Encrypt(o) \/ EmitLost(o)
           \/ Load(o) \/ FetchPrekey(o)
    PROVE  Turn(o) /\ OneOp(o)
<1> USE DEF MessagesInv, SessionsInv, OpsInv
<1>1. CASE End(o)  BY <1>1, EndIsOne DEF Turn
<1>2. ASSUME NEW b \in Browser, SendGroupMessage(o, b)  PROVE Begins(o) /\ OneOp(o)
  BY <1>2 DEF SendGroupMessage, Begins, OneOp, SendPc
<1>3. ASSUME NEW b \in Browser, NEW p \in User, SendMessage(o, b, p)  PROVE Begins(o) /\ OneOp(o)
  BY <1>3 DEF SendMessage, Begins, OneOp, SendPc
<1>4. CASE GetGroup(o) /\ ~End(o)
  <2>1. PICK todo : op' = [op EXCEPT ![o].pc = "load", ![o].todo = todo]  BY <1>4 DEF GetGroup
  <2>2. op[o].pc = "group" /\ op[o].via # "direct"  BY <1>4 DEF GetGroup, OpAt, KnownInv
  <2>3. SendsOn(o) /\ OneOp(o)  BY <2>1, <2>2 DEF SendsOn, OneOp, IsOp, SendPc
  <2> QED  BY <2>3 DEF Turn
<1>5. CASE SkipMyself(o)
  <2>1. op[o].pc = "load" /\ IsOp(op[o])  BY <1>5 DEF SkipMyself, OpAt
  <2>2. op' = [op EXCEPT ![o].pc = Onward(o), ![o].todo = Tail(@)]  BY <1>5 DEF SkipMyself
  <2>3. SendsOn(o) /\ OneOp(o)  BY <2>1, <2>2, SkipKept, <1>5 DEF SendsOn, OneOp, IsOp, SendPc
  <2> QED  BY <2>3 DEF Turn
<1>6. CASE SaveNewSession(o)
  BY <1>6 DEF SaveNewSession, OpAt, Turn, SendsOn, OneOp, IsOp, SendPc
<1>7. CASE Encrypt(o)
  <2>1. op[o].pc = "encrypt" /\ IsOp(op[o])  BY <1>7 DEF Encrypt, OpAt
  <2>2. PICK e : e = Envelope(op[o].sess, op[o].by, To(o))  OBVIOUS
  <2>3. op' = [op EXCEPT ![o].pc = Onward(o), ![o].todo = Tail(@), ![o].sess = NoSession, ![o].out = Append(@, e)]
    BY <1>7, <2>2 DEF Encrypt
  <2>4. /\ op'[o].pc \in SendPc /\ op'[o].by = op[o].by /\ op'[o].user = op[o].user /\ op'[o].via = op[o].via
        /\ op'[o].todo = Tail(op[o].todo) /\ op'[o].out = Append(op[o].out, e) /\ OneOp(o)
    BY <2>1, <2>3 DEF OneOp, IsOp, SendPc, Onward
  <2>5. SendsOn(o)  BY <2>1, <2>2, <2>4 DEF SendsOn, IsOp, SendPc, To
  <2> QED  BY <2>4, <2>5 DEF Turn
<1>8. CASE Load(o) /\ ~End(o)
  <2>1. op[o].pc = "load" /\ IsOp(op[o])  BY <1>8 DEF Load, OpAt
  <2>2. \/ op' = [op EXCEPT ![o].pc = "fetch"]
        \/ \E s : op' = [op EXCEPT ![o].pc = "encrypt", ![o].sess = s]
    BY <1>8 DEF Load
  <2> QED  BY <2>1, <2>2 DEF Turn, SendsOn, OneOp, IsOp, SendPc
<1>9. CASE FetchPrekey(o) /\ ~End(o)
  <2>1. op[o].pc = "fetch" /\ IsOp(op[o])  BY <1>9 DEF FetchPrekey, OpAt
  <2>2. PICK s : op' = [op EXCEPT ![o].pc = "init", ![o].sess = s]  BY <1>9 DEF FetchPrekey
  <2> QED  BY <2>1, <2>2 DEF Turn, SendsOn, OneOp, IsOp, SendPc
<1> QED  BY <1>1, <1>2, <1>3, <1>4, <1>5, <1>6, <1>7, <1>8, <1>9 DEF EmitLost, Turn

LEMMA HandleTurns ==
    ASSUME MessagesInv, NEW o \in Op,
           OpenMessage(o) \/ KeepMessage(o) \/ Emit(o) \/ \E c \in Call : Deliver(o, c)
    PROVE  Turn(o) /\ OneOp(o)
<1>1. CASE End(o)  BY <1>1, EndIsOne DEF Turn
<1>2. CASE OpenMessage(o)
  <2>1. PICK b, p : OpenDoes(o, b, p)  BY <1>2, OpenKept
  <2> QED  BY <2>1 DEF OpenDoes, Turn, HandlesOn, HandlePc
<1>3. ASSUME NEW c \in Call, Deliver(o, c)  PROVE Turn(o) /\ OneOp(o)
  <2>1. Of(c) \in User  BY <1>3, DeliverKept
  <2>2. PICK i \in mail[Of(c)] : /\ mail' = [mail EXCEPT ![Of(c)] = @ \ {i}]
            /\ op' = [op EXCEPT ![o] = [pc |-> "open", by |-> By(c), user |-> Of(c), msg |-> i, sess |-> NoSession]]
    BY <1>3 DEF Deliver
  <2>3. sock[c] = "open"  BY <1>3 DEF Deliver
  <2>4. OneOp(o) /\ op'[o].pc = "open" /\ op'[o].msg = i /\ op'[o].by = By(c)
    BY <2>2 DEF OneOp, MessagesInv, SessionsInv, OpsInv
  <2> QED  BY <2>1, <2>2, <2>3, <2>4 DEF Turn, Delivered
<1> QED  BY <1>1, <1>2, <1>3 DEF KeepMessage, Emit

LEMMA Turns ==
    ASSUME MessagesInv, SessionStep  PROVE \A x \in Op : Turn(x)
<1>1. CASE \E o \in Op : Turn(o) /\ OneOp(o)  BY <1>1, KeptIsTurn DEF OneOp
<1>2. CASE UNCHANGED sessionVars \/ \E b \in Browser : CreateGroup(b)
  <2>1. UNCHANGED op  BY <1>2 DEF sessionVars, CreateGroup
  <2> QED  BY <2>1, KeptIsTurn
<1>3. CASE Forgets
  <2> SUFFICES ASSUME NEW x \in Op  PROVE Turn(x)  OBVIOUS
  <2>1. CASE op[x].pc \notin SendPc  BY <1>3, <2>1, ForgetIs, KeptIsTurn
  <2>2. CASE op[x].pc \in SendPc
    <3>1. SendsOn(x)  BY <1>3, <2>2, ForgetIs DEF SendsOn
    <3> QED  BY <3>1 DEF Turn
  <2> QED  BY <2>1, <2>2
<1>4. ASSUME NEW b \in Browser, ReloadsPage(b)  PROVE \A x \in Op : Turn(x)
  BY <1>4, KeptIsTurn DEF ReloadsPage, Turn, Idle
<1> QED  BY <1>1, <1>2, <1>3, <1>4, SendTurns, HandleTurns DEF SessionStep

\* Everyone who sends, reads or offers prekeys has a Proteus identity of the name.
WhoInv ==
    /\ \A o \in Op : op[o].pc \in SendPc =>
           /\ Name(op[o].by, op[o].user) \in ident
           /\ \A k \in DOMAIN op[o].out : op[o].out[k].by = op[o].by
    /\ \A o \in Op : op[o].pc \in HandlePc => Name(op[o].by, sent[op[o].msg].to) \in ident
    /\ \A i \in DOMAIN sent : Name(sent[i].by, sent[i].from) \in ident
    /\ \A p \in User : bundle[p] # None => Name(bundle[p].by, p) \in ident

\* The messages that wait for a reader, or have had one, are not to their own sender.
Relay(i) ==
    \/ i \in Handled \/ \E u \in User : i \in mail[u]
    \/ \E o \in Op : op[o].pc \in HandlePc /\ op[o].msg = i

SelfInv ==
    /\ \A o \in Op : (op[o].pc \in SendPc /\ op[o].via = "direct") =>
           /\ \A k \in DOMAIN op[o].todo : op[o].todo[k] # op[o].user
           /\ \A k \in DOMAIN op[o].out : op[o].out[k].to # op[o].user
    /\ \A i : (Relay(i) /\ sent[i].from = sent[i].to) => ~Plain(sent[i].to)

\* A message has one handler, once.
HandlerInv ==
    \A o \in Op : op[o].pc \in HandlePc =>
        /\ op[o].msg \notin Handled
        /\ \A x \in Op : (op[x].pc \in HandlePc /\ op[x].msg = op[o].msg) => x = o

PeopleInv == PrekeyInv /\ MessagesInv /\ WhoInv /\ SelfInv /\ HandlerInv

LEMMA IdentGrows ==
    ASSUME AccountsInv, AccountStep
    PROVE  /\ ident \subseteq ident'
           /\ \A p \in User : bundle'[p] # None =>
                  \/ bundle[p] # None /\ bundle'[p].by = bundle[p].by
                  \/ \E c \in Call : At(c, "upload") /\ Of(c) = p /\ bundle'[p].by = By(c)
<1> USE DEF AccountsInv, CallsInv, ServerInv, CallRecord
<1>1. CASE Aside
  <2>1. UNCHANGED ident  BY <1>1 DEF Aside, storeVars
  <2>2. CASE UNCHANGED bundle  BY <2>1, <2>2
  <2>3. ASSUME NEW q, TakePrekey(q)
        PROVE  \A p \in User : bundle'[p] # None => bundle[p] # None /\ bundle'[p].by = bundle[p].by
    BY <2>3 DEF TakePrekey
  <2> QED  BY <1>1, <2>1, <2>2, <2>3 DEF Aside
<1>2. CASE ServerRestart  BY <1>2 DEF ServerRestart, storeVars
<1>3. CASE \E b \in Browser : Disconnect(b) \/ PageReloads(b)
  BY <1>3 DEF Disconnect, Reload, PageReloads, storeVars, serverVars
<1>4. CASE \E c \in Call, b \in Browser, u \in User : Connect(c, b, u)
  BY <1>4 DEF Connect, storeVars, serverVars
<1>5. ASSUME NEW c \in Call, Upload(c)
      PROVE  /\ UNCHANGED ident
             /\ \A p \in User : bundle'[p] # None =>
                    \/ bundle[p] # None /\ bundle'[p].by = bundle[p].by
                    \/ At(c, "upload") /\ Of(c) = p /\ bundle'[p].by = By(c)
  BY <1>5 DEF Upload, storeVars
<1>6. ASSUME NEW c \in Call,
             \/ ReadIdentity(c) \/ StoreIdentity(c) \/ Proteus(c) \/ Register(c) \/ Challenge(c)
             \/ SignChallenge(c) \/ Verify(c) \/ OpenSocket(c) \/ SocketConnects(c) \/ ConnectError(c) \/ Drop(c)
      PROVE  ident \subseteq ident' /\ UNCHANGED bundle
  BY <1>6 DEF ReadIdentity, StoreIdentity, Proteus, Register, Challenge, SignChallenge, Verify, OpenSocket,
              SocketConnects, ConnectError, Drop, storeVars, serverVars
<1> QED  BY <1>1, <1>2, <1>3, <1>4, <1>5, <1>6 DEF AccountStep, ConnectStep

\* A connected socket has the identity of its user.
LEMMA ConnectedIs ==
    ASSUME PrekeyInv, NEW b \in Browser, Connected(b)
    PROVE  Name(b, Of(socket[b])) \in ident /\ Of(socket[b]) \in User
<1>1. socket[b] \in Call /\ sock[socket[b]] = "open" /\ By(socket[b]) = b
  BY DEF Connected, PrekeyInv, AccountsInv, BrowserInv, SocketsInv
<1>2. NameOf(socket[b]) \in ident  BY <1>1 DEF PrekeyInv, NamedInv
<1> QED  BY <1>1, <1>2 DEF NameOf, Name, PrekeyInv, AccountsInv, BrowserInv, Names

\* What a step does to the messages that were sent.
LEMMA SentStays ==
    ASSUME MessagesInv, SessionStep
    PROVE  /\ \A i \in DOMAIN sent : i \in DOMAIN sent' /\ sent'[i] = sent[i]
           /\ \/ UNCHANGED sent
              \/ \E o \in Op : \E from : EmitDoes(o, from) /\ Emit(o)
<1>1. UNCHANGED sent \/ \E o \in Op : Emit(o)
  BY DEF SessionStep, SendGroupMessage, SendMessage, GetGroup, SkipMyself, SaveNewSession, Encrypt, EmitLost,
         Load, FetchPrekey, OpenMessage, KeepMessage, Deliver, sessionVars, CreateGroup, Forgets, ReloadsPage
<1>2. ASSUME NEW o \in Op, Emit(o)
      PROVE  /\ \A i \in DOMAIN sent : i \in DOMAIN sent' /\ sent'[i] = sent[i]
             /\ \E from : EmitDoes(o, from) /\ Emit(o)
  <2>1. PICK from : EmitDoes(o, from)  BY <1>2, EmitKept
  <2> QED  BY <1>2, <2>1 DEF EmitDoes, MessagesInv, SessionsInv, PostInv
<1> QED  BY <1>1, <1>2

LEMMA PrekeyStep == PrekeyInv /\ AccountStep => PrekeyInv'
BY AccountsStep, NamedStep, SentStep DEF PrekeyInv

\* A message that is sent now was encrypted by its sender's browser.
LEMMA EmittedIs ==
    ASSUME MessagesInv, NEW o \in Op, NEW from, EmitDoes(o, from), NEW i \in DOMAIN sent'
    PROVE  \/ i \in DOMAIN sent /\ sent'[i] = sent[i]
           \/ /\ i \notin DOMAIN sent /\ i - Len(sent) \in DOMAIN op[o].out
              /\ sent'[i] = [op[o].out[i - Len(sent)] EXCEPT !.from = from]
              /\ sent'[i].from = from
              /\ \E e \in EnvelopeType : /\ e = op[o].out[i - Len(sent)]
                     /\ sent'[i].by = e.by /\ sent'[i].to = e.to /\ sent'[i].tag = e.tag /\ sent'[i].pre = e.pre
                     /\ sent'[i].owner = e.owner /\ sent'[i].chain = e.chain /\ sent'[i].answers = e.answers
                     /\ sent'[i].n = e.n
<1>1. i \in 1 .. Len(sent') /\ Len(sent) \in Nat /\ DOMAIN sent = 1 .. Len(sent)
  BY DEF EmitDoes, MessagesInv, SessionsInv, PostInv
<1>2. CASE i <= Len(sent)  BY <1>1, <1>2 DEF EmitDoes
<1>3. CASE ~(i <= Len(sent))
  <2>1. PICK k : k = i - Len(sent)  OBVIOUS
  <2>2. k \in DOMAIN op[o].out /\ sent'[i] = [op[o].out[k] EXCEPT !.from = from]
    BY <1>3, <2>1 DEF EmitDoes
  <2>3. PICK e : e = op[o].out[k]  OBVIOUS
  <2>4. e \in EnvelopeType
    BY <2>2, <2>3 DEF EmitDoes, MessagesInv, SessionsInv, OpsInv, IsOp, SendPc
  <2>5. sent'[i] = [e EXCEPT !.from = from]  BY <2>2, <2>3
  <2>6. /\ sent'[i].from = from /\ sent'[i].by = e.by /\ sent'[i].to = e.to /\ sent'[i].tag = e.tag
        /\ sent'[i].pre = e.pre /\ sent'[i].owner = e.owner /\ sent'[i].chain = e.chain
        /\ sent'[i].answers = e.answers /\ sent'[i].n = e.n
    BY <2>4, <2>5 DEF EnvelopeType
  <2>7. i \notin DOMAIN sent  BY <1>1, <1>3
  <2> QED  BY <2>1, <2>2, <2>3, <2>4, <2>6, <2>7
<1> QED  BY <1>2, <1>3

LEMMA WhoStep ==
    ASSUME PeopleInv, AccountStep, SessionStep  PROVE WhoInv'
<1> USE DEF PeopleInv, WhoInv
<1>1. ident \subseteq ident'  BY IdentGrows DEF PrekeyInv
<1>2. \A x \in Op : Turn(x)  BY Turns
<1>3. \A i \in DOMAIN sent : i \in DOMAIN sent' /\ sent'[i] = sent[i]  BY SentStays
<1>4. ASSUME NEW x \in Op, op'[x].pc \in SendPc
      PROVE  /\ Name(op'[x].by, op'[x].user) \in ident'
             /\ \A k \in DOMAIN op'[x].out : op'[x].out[k].by = op'[x].by
  <2>1. CASE Begins(x)
    BY <1>1, <2>1, ConnectedIs DEF Begins
  <2>2. CASE SendsOn(x)
    <3>1. CASE op'[x].out = op[x].out  BY <1>1, <2>2, <3>1 DEF SendsOn
    <3>2. CASE op'[x].out # op[x].out
      <4>1. PICK e, out : out = op[x].out /\ e.by = op[x].by /\ op'[x].out = Append(out, e)
        <5>1. PICK e : e = Envelope(op[x].sess, op[x].by, Head(op[x].todo))  OBVIOUS
        <5>2. e.by = op[x].by  BY <5>1 DEF Envelope
        <5> QED  BY <2>2, <3>2, <5>1, <5>2 DEF SendsOn
      <4>2. out \in Seq(EnvelopeType)  BY <2>2, <4>1 DEF SendsOn, MessagesInv, SessionsInv, OpsInv, IsOp
      <4>3. \A k \in DOMAIN Append(out, e) : Append(out, e)[k] = e \/ (k \in DOMAIN out /\ Append(out, e)[k] = out[k])
        BY <4>2
      <4> QED  BY <1>1, <2>2, <4>1, <4>3 DEF SendsOn
    <3> QED  BY <3>1, <3>2
  <2> QED  BY <1>2, <1>4, <2>1, <2>2 DEF Turn, HandlesOn, Delivered, SendPc, HandlePc
<1>5. ASSUME NEW x \in Op, op'[x].pc \in HandlePc  PROVE Name(op'[x].by, sent'[op'[x].msg].to) \in ident'
  <2>1. CASE HandlesOn(x)
    <3>1. op[x].msg \in DOMAIN sent  BY <2>1, HandlerIs DEF HandlesOn
    <3> QED  BY <1>1, <1>3, <2>1, <3>1 DEF HandlesOn
  <2>2. ASSUME NEW i, Delivered(x, i)  PROVE Name(op'[x].by, sent'[op'[x].msg].to) \in ident'
    <3>1. PICK c \in Call : sock[c] = "open" /\ op'[x].by = By(c) /\ i \in mail[Of(c)] /\ Of(c) \in User
      BY <2>2 DEF Delivered
    <3>2. i \in DOMAIN sent /\ sent[i].to = Of(c)  BY <3>1 DEF MessagesInv, SessionsInv, MailInv
    <3>3. NameOf(c) \in ident  BY <3>1 DEF PrekeyInv, NamedInv
    <3> QED  BY <1>1, <1>3, <2>2, <3>1, <3>2, <3>3 DEF Delivered, NameOf, Name
  <2> QED  BY <1>2, <1>5, <2>1, <2>2 DEF Turn, SendsOn, Begins, SendPc, HandlePc
<1>6. ASSUME NEW i \in DOMAIN sent'  PROVE Name(sent'[i].by, sent'[i].from) \in ident'
  <2>1. CASE i \in DOMAIN sent /\ sent'[i] = sent[i]  BY <1>1, <2>1
  <2>2. CASE ~(i \in DOMAIN sent /\ sent'[i] = sent[i])
    <3>1. PICK o \in Op : \E from : EmitDoes(o, from) /\ Emit(o)  BY <2>2, <1>3, SentStays
    <3>2. PICK from : EmitDoes(o, from) /\ Emit(o)  BY <3>1
    <3>3. /\ i - Len(sent) \in DOMAIN op[o].out /\ sent'[i].from = from
          /\ sent'[i].by = op[o].out[i - Len(sent)].by
      BY <2>2, <3>2, EmittedIs
    <3>4. op[o].pc \in SendPc /\ op[o].by \in Browser /\ Connected(op[o].by) /\ from = Of(socket[op[o].by])
      BY <3>2 DEF EmitDoes, Emit, SendPc, MessagesInv, SessionsInv, OpsInv, IsOp
    <3>5. Name(op[o].by, from) \in ident  BY <3>4, ConnectedIs
    <3>6. sent'[i].by = op[o].by  BY <3>3, <3>4
    <3> QED  BY <1>1, <3>3, <3>5, <3>6
  <2> QED  BY <2>1, <2>2
<1>7. ASSUME NEW p \in User, bundle'[p] # None  PROVE Name(bundle'[p].by, p) \in ident'
  <2>1. CASE bundle[p] # None /\ bundle'[p].by = bundle[p].by  BY <1>1, <2>1
  <2>2. ASSUME NEW c \in Call, At(c, "upload"), Of(c) = p, bundle'[p].by = By(c)
        PROVE  Name(bundle'[p].by, p) \in ident'
    BY <1>1, <2>2 DEF PrekeyInv, NamedInv, Named, At, NameOf, Name
  <2> QED  BY <1>7, <2>1, <2>2, IdentGrows DEF PrekeyInv
<1> QED  BY <1>4, <1>5, <1>6, <1>7

\* Marks and the mail of a step: a message is marked by its handler, which ends, and only
\* what is sent now is added to the mail.
LEMMA MarksStay ==
    ASSUME MessagesInv, SessionStep
    PROVE  /\ \A i \in Handled' : \/ i \in Handled
                  \/ \E o \in Op : op[o].pc \in HandlePc /\ op[o].msg = i /\ op'[o].pc = "idle"
           /\ (\A u \in User : mail'[u] \subseteq mail[u]) \/ \E o \in Op : Emit(o)
<1>1. ASSUME UNCHANGED Handled, UNCHANGED mail
      PROVE  /\ \A i \in Handled' : i \in Handled
             /\ \A u \in User : mail'[u] \subseteq mail[u]
  BY <1>1
<1>2. ASSUME NEW o \in Op,
             \/ \E b \in Browser : SendGroupMessage(o, b) \/ \E p \in User : SendMessage(o, b, p)
             \/ GetGroup(o) \/ SkipMyself(o) \/ SaveNewSession(o) \/ Encrypt(o) \/ EmitLost(o)
             \/ Load(o) \/ FetchPrekey(o)
      PROVE  UNCHANGED Handled /\ UNCHANGED mail
  BY <1>2 DEF SendGroupMessage, SendMessage, GetGroup, SkipMyself, SaveNewSession, Encrypt, EmitLost, Load, FetchPrekey,
              Handled
<1>3. ASSUME NEW o \in Op, OpenMessage(o) \/ KeepMessage(o)
      PROVE  /\ UNCHANGED mail
             /\ \A i \in Handled' : i \in Handled \/ (op[o].pc \in HandlePc /\ op[o].msg = i /\ op'[o].pc = "idle")
  <2>1. UNCHANGED mail /\ op[o].pc \in HandlePc  BY <1>3 DEF OpenMessage, KeepMessage, OpAt, HandlePc
  <2>2. CASE UNCHANGED Handled  BY <2>1, <2>2
  <2>3. CASE End(o) /\ Handled' = Handled \cup {op[o].msg}
    <3>1. op'[o].pc = "idle"  BY <2>3, EndIsOne
    <3> QED  BY <2>1, <2>3, <3>1
  <2>4. CASE KeepMessage(o)
    <3>1. End(o) /\ Handled' = Handled \cup {op[o].msg}  BY <2>4 DEF KeepMessage, Handled
    <3> QED  BY <2>3, <3>1
  <2>5. CASE OpenMessage(o)
    <3>1. UNCHANGED read  BY <2>5 DEF OpenMessage
    <3>2. \/ UNCHANGED <<unread, dropped>>
          \/ End(o) /\ unread' = unread \cup {op[o].msg} /\ UNCHANGED dropped
          \/ End(o) /\ dropped' = dropped \cup {op[o].msg} /\ UNCHANGED unread
      BY <2>5 DEF OpenMessage
    <3> QED  BY <2>2, <2>3, <3>1, <3>2 DEF Handled
  <2> QED  BY <1>3, <2>4, <2>5
<1>4. ASSUME NEW o \in Op, NEW c \in Call, Deliver(o, c)
      PROVE  UNCHANGED Handled /\ \A u \in User : mail'[u] \subseteq mail[u]
  <2>1. UNCHANGED Handled  BY <1>4 DEF Deliver, Handled
  <2>2. \E i : mail' = [mail EXCEPT ![Of(c)] = @ \ {i}]  BY <1>4 DEF Deliver
  <2> QED  BY <2>1, <2>2 DEF MessagesInv, SessionsInv, MailInv
<1>5. ASSUME NEW o \in Op, Emit(o)  PROVE UNCHANGED Handled  BY <1>5 DEF Emit, Handled
<1>6. CASE UNCHANGED sessionVars \/ (\E b \in Browser : CreateGroup(b)) \/ Forgets
  BY <1>1, <1>6 DEF sessionVars, CreateGroup, Forgets, Handled
<1>7. ASSUME NEW b \in Browser, ReloadsPage(b)
      PROVE  /\ UNCHANGED mail
             /\ \A i \in Handled' : \/ i \in Handled
                    \/ \E o \in Op : op[o].pc \in HandlePc /\ op[o].msg = i /\ op'[o].pc = "idle"
  <2>1. \A i \in dropped' : \/ i \in dropped
            \/ \E o \in Op : op[o].pc \in HandlePc /\ op[o].msg = i /\ op'[o].pc = "idle"
    BY <1>7 DEF ReloadsPage, TornBy, HandlePc, Idle
  <2>2. UNCHANGED <<mail, read, unread>>  BY <1>7 DEF ReloadsPage
  <2> QED  BY <2>1, <2>2 DEF Handled
<1> QED  BY <1>1, <1>2, <1>3, <1>4, <1>5, <1>6, <1>7 DEF SessionStep

LEMMA RelayIs ==
    ASSUME MessagesInv, NEW i, Relay(i)  PROVE i \in DOMAIN sent
BY HandlerIs DEF Relay, Handled, MessagesInv, SessionsInv, MailInv

LEMMA RelayStep ==
    ASSUME MessagesInv, SessionStep, NEW i, Relay(i)'
    PROVE  Relay(i) \/ \E o \in Op, u \in User : Emit(o) /\ i \in mail'[u] /\ i \notin mail[u]
<1>1. CASE i \in Handled'  BY <1>1, MarksStay DEF Relay
<1>2. CASE \E u \in User : i \in mail'[u]  BY <1>2, MarksStay DEF Relay
<1>3. ASSUME NEW x \in Op, op'[x].pc \in HandlePc, op'[x].msg = i  PROVE Relay(i)
  BY <1>3, Turns DEF Turn, SendsOn, Begins, HandlesOn, Delivered, Relay, SendPc, HandlePc
<1> QED  BY <1>1, <1>2, <1>3 DEF Relay

LEMMA PlainShrinks ==
    ASSUME ident \subseteq ident', NEW u, Plain(u)'  PROVE Plain(u)
BY DEF Plain

LEMMA SelfStep ==
    ASSUME PeopleInv, AccountStep, SessionStep  PROVE SelfInv'
<1> USE DEF PeopleInv
<1>1. ident \subseteq ident'  BY IdentGrows DEF PrekeyInv
<1>2. \A i \in DOMAIN sent : i \in DOMAIN sent' /\ sent'[i] = sent[i]  BY SentStays
<1>3. ASSUME NEW x \in Op, op'[x].pc \in SendPc, op'[x].via = "direct"
      PROVE  /\ \A k \in DOMAIN op'[x].todo : op'[x].todo[k] # op'[x].user
             /\ \A k \in DOMAIN op'[x].out : op'[x].out[k].to # op'[x].user
  <2>1. CASE Begins(x)
    <3>1. PICK p \in User \ {op'[x].user} : op'[x].todo = <<p>>  BY <1>3, <2>1 DEF Begins
    <3> QED  BY <2>1, <3>1 DEF Begins
  <2>2. CASE SendsOn(x)
    <3>1. PICK todo, out, u : todo = op[x].todo /\ out = op[x].out /\ u = op[x].user  OBVIOUS
    <3>2. todo \in Seq(User) /\ out \in Seq(EnvelopeType)
      BY <2>2, <3>1 DEF SendsOn, MessagesInv, SessionsInv, OpsInv, IsOp
    <3>3. (\A k \in DOMAIN todo : todo[k] # u) /\ (\A k \in DOMAIN out : out[k].to # u)
      BY <1>3, <2>2, <3>1 DEF SendsOn, SelfInv
    <3>4. op'[x].todo = todo \/ (todo # <<>> /\ op'[x].todo = Tail(todo))  BY <1>3, <2>2, <3>1 DEF SendsOn
    <3>5. \A k \in DOMAIN op'[x].todo : op'[x].todo[k] # u
      <4>1. todo # <<>> => \A k \in DOMAIN Tail(todo) : k + 1 \in DOMAIN todo /\ Tail(todo)[k] = todo[k + 1]
        BY <3>2
      <4> QED  BY <3>3, <3>4, <4>1
    <3>6. \A k \in DOMAIN op'[x].out : op'[x].out[k].to # u
      <4>1. CASE op'[x].out = out  BY <3>3, <4>1
      <4>2. CASE op'[x].out # out
        <5>1. PICK e : todo # <<>> /\ op'[x].out = Append(out, e) /\ e.to = Head(todo)
          <6>1. PICK e : e = Envelope(op[x].sess, op[x].by, Head(todo))  OBVIOUS
          <6>2. e.to = Head(todo)  BY <6>1 DEF Envelope
          <6> QED  BY <2>2, <3>1, <4>2, <6>1, <6>2 DEF SendsOn
        <5>2. Head(todo) = todo[1] /\ 1 \in DOMAIN todo  BY <3>2, <5>1
        <5>3. \A k \in DOMAIN Append(out, e) : Append(out, e)[k] = e \/ (k \in DOMAIN out /\ Append(out, e)[k] = out[k])
          BY <3>2
        <5> QED  BY <3>3, <5>1, <5>2, <5>3
      <4> QED  BY <4>1, <4>2
    <3>7. op'[x].user = u  BY <2>2, <3>1 DEF SendsOn
    <3> QED  BY <3>5, <3>6, <3>7
  <2> QED  BY <1>3, <2>1, <2>2, Turns DEF Turn, HandlesOn, Delivered, SendPc, HandlePc
<1>4. ASSUME NEW i, NEW w, Relay(i)', sent'[i].from = w, sent'[i].to = w  PROVE ~Plain(w)'
  <2>1. CASE Relay(i)
    <3>1. sent'[i] = sent[i]  BY <1>2, <2>1, RelayIs
    <3>2. ~Plain(w)  BY <1>4, <2>1, <3>1 DEF SelfInv
    <3> QED  BY <1>1, <3>2, PlainShrinks
  <2>2. ASSUME NEW o \in Op, NEW u \in User, Emit(o), i \in mail'[u], i \notin mail[u]
        PROVE  ~Plain(w)'
    <3>1. PICK from : EmitDoes(o, from)  BY <2>2, EmitKept
    <3>2. from = Of(socket[op[o].by]) /\ from \in User  BY <3>1 DEF EmitDoes
    <3>3. i \in DOMAIN sent' /\ i > Len(sent) /\ sent'[i].to = u /\ Relayed(o, from, u)
      BY <2>2, <3>2 DEF Emit
    <3>4. i \notin DOMAIN sent  BY <3>3 DEF MessagesInv, SessionsInv, PostInv
    <3>5. PICK k : k = i - Len(sent)  OBVIOUS
    <3>6. sent'[i].from = from /\ k \in DOMAIN op[o].out /\ op[o].out[k].to = u
      BY <3>1, <3>3, <3>4, <3>5, EmittedIs
    <3>7. from = u /\ op[o].pc \in SendPc /\ op[o].by \in Browser /\ Connected(op[o].by)
      BY <1>4, <2>2, <3>1, <3>3, <3>6 DEF EmitDoes, Emit, SendPc, MessagesInv, SessionsInv, OpsInv, IsOp
    <3>8. op[o].via = "direct"  BY <3>3, <3>7 DEF Relayed, MessagesInv, SessionsInv, OpsInv, IsOp
    <3>9. op[o].user # u  BY <3>6, <3>7, <3>8 DEF SelfInv
    <3>10. Name(op[o].by, u) \in ident /\ Name(op[o].by, op[o].user) \in ident
      BY <3>2, <3>7, ConnectedIs DEF WhoInv
    <3>11. ASSUME Plain(u)'  PROVE FALSE
      <4>1. PICK b \in Browser : \A n \in ident : n.user = u <=> n.by = b  BY <1>1, <3>11, PlainShrinks DEF Plain
      <4> QED  BY <3>9, <3>10, <4>1 DEF Name
    <3>12. w = u  BY <1>4, <3>3
    <3> QED  BY <3>11, <3>12
  <2> QED  BY <1>4, <2>1, <2>2, RelayStep
<1>5. ASSUME NEW i, Relay(i)', sent'[i].from = sent'[i].to
      PROVE  \A b \in Browser : ~(\A n \in ident' : n.user = sent'[i].to <=> n.by = b)
  <2>1. PICK w : w = sent'[i].to  OBVIOUS
  <2>2. ~Plain(w)'  BY <1>4, <1>5, <2>1
  <2> QED  BY <2>1, <2>2 DEF Plain
<1> QED  BY <1>3, <1>5 DEF SelfInv, Plain

LEMMA HandlerStep ==
    ASSUME PeopleInv, SessionStep  PROVE HandlerInv'
<1> USE DEF PeopleInv
<1>1. ASSUME NEW x \in Op, NEW i, Delivered(x, i)
      PROVE  i \notin Handled /\ \A y \in Op : op[y].pc \in HandlePc => op[y].msg # i
  BY <1>1 DEF Delivered, Handled, MessagesInv, SessionsInv, MailInv
<1>2. \A x \in Op : op'[x].pc \in HandlePc => HandlesOn(x) \/ \E i : Delivered(x, i)
  BY Turns DEF Turn, SendsOn, Begins, SendPc, HandlePc
<1>3. ASSUME NEW x \in Op, op'[x].pc \in HandlePc  PROVE op'[x].msg \notin Handled'
  <2>1. CASE HandlesOn(x)
    <3>1. op'[x].msg \notin Handled  BY <2>1 DEF HandlesOn, HandlerInv
    <3>2. ASSUME NEW y \in Op, op[y].pc \in HandlePc, op[y].msg = op'[x].msg, op'[y].pc = "idle"  PROVE FALSE
      <4>1. x = y  BY <2>1, <3>2 DEF HandlesOn, HandlerInv
      <4> QED  BY <1>3, <3>2, <4>1 DEF HandlePc
    <3> QED  BY <3>1, <3>2, MarksStay
  <2>2. ASSUME NEW i, Delivered(x, i)  PROVE op'[x].msg \notin Handled'
    <3>1. op'[x].msg = i  BY <2>2 DEF Delivered
    <3> QED  BY <1>1, <2>2, <3>1, MarksStay
  <2> QED  BY <1>2, <1>3, <2>1, <2>2
<1>4. ASSUME NEW x \in Op, NEW y \in Op, op'[x].pc \in HandlePc, op'[y].pc \in HandlePc, op'[x].msg = op'[y].msg
      PROVE  x = y
  <2>1. CASE HandlesOn(x) /\ HandlesOn(y)  BY <1>4, <2>1 DEF HandlesOn, HandlerInv
  <2>2. ASSUME NEW v \in Op, NEW w \in Op, NEW i, Delivered(v, i), op'[w].pc \in HandlePc, op'[w].msg = i
        PROVE  v = w
    <3>1. CASE v # w
      <4>1. op'[w] = op[w]  BY <2>2, <3>1 DEF Delivered, OneOp
      <4> QED  BY <1>1, <2>2, <4>1
    <3> QED  BY <3>1
  <2>3. \A v \in Op : \A i : Delivered(v, i) => op'[v].msg = i  BY DEF Delivered
  <2>4. CASE ~HandlesOn(x)
    <3>1. PICK i : Delivered(x, i)  BY <1>2, <1>4, <2>4
    <3> QED  BY <1>4, <2>2, <2>3, <3>1
  <2>5. CASE ~HandlesOn(y)
    <3>1. PICK i : Delivered(y, i)  BY <1>2, <1>4, <2>5
    <3> QED  BY <1>4, <2>2, <2>3, <3>1
  <2> QED  BY <2>1, <2>4, <2>5
<1> QED  BY <1>3, <1>4 DEF HandlerInv

LEMMA PeopleStep == PeopleInv /\ [Next]_vars => PeopleInv'
<1> SUFFICES ASSUME PeopleInv, [Next]_vars  PROVE PeopleInv'  OBVIOUS
<1>1. AccountStep /\ SessionStep  BY StepIsAccountStep, StepIsSessionStep
<1>2. MessagesInv'  BY MessagesStep DEF PeopleInv
<1> QED  BY <1>1, <1>2, PrekeyStep, WhoStep, SelfStep, HandlerStep DEF PeopleInv

LEMMA PeopleStart == Init => PeopleInv
<1> SUFFICES ASSUME Init  PROVE PeopleInv  OBVIOUS
<1>1. PrekeyInv  BY PrekeyStart
<1>2. \A o \in Op : op[o].pc = "idle"  BY DEF Init, Idle
<1>3. \A i : ~Relay(i)  BY <1>2 DEF Init, Relay, Handled, HandlePc
<1>4. WhoInv  BY <1>2 DEF Init, AccountsInit, WhoInv, HandlePc, SendPc
<1>5. SelfInv /\ HandlerInv  BY <1>2, <1>3 DEF SelfInv, HandlerInv, HandlePc, SendPc
<1> QED  BY <1>1, <1>4, <1>5, MessagesStart DEF PeopleInv

-----------------------------------------------------------------------------
(* Messages: what the two ends of a session know of one another *)

\* A copy of a session without its counter, and what a message tells of the session it is of.
Gist(s) == [tag |-> s.tag, send |-> s.send, answers |-> s.answers, pre |-> s.pre, owner |-> s.owner, recv |-> s.recv]
Face(m) == [tag |-> m.tag, chain |-> m.chain, answers |-> m.answers, pre |-> m.pre, owner |-> m.owner]

\* What an end with the copies X and the messages M has said or is about to say.
Shows(x)   == [tag |-> x.tag, chain |-> x.send, answers |-> x.answers, pre |-> x.pre, owner |-> x.owner]
Says(X, M) == M \cup {Shows(x) : x \in X}

\* The other end, with the copies Y of which one is saved or not, can read it: as a prekey
\* message, on a chain that every copy knows, or on a new one that answers the copy's own.
\* A chain answers one chain, which its end has read, and an end that has a new chain was heard.
Flow(X, M, Y, saved) ==
    /\ saved \/ \A f \in Says(X, M) : f.pre
    /\ \A f \in Says(X, M), y \in Y : f.chain \in DOMAIN y.recv \/ f.answers = y.send
    /\ \A m \in M, f \in Says(X, M) : m.answers = f.answers => m.chain = f.chain
    /\ \A m \in M, x \in X : m.answers = 0 \/ m.answers \in DOMAIN x.recv
    /\ \A m \in M, x \in X, y \in Y : x.send = m.chain \/ m.chain \in DOMAIN y.recv

Talk(X, M, mine, Y, N, yours) ==
    /\ \A f, g \in Says(X, M) \cup Says(Y, N) : f.tag = g.tag
    /\ Flow(X, M, Y, yours)
    /\ Flow(Y, N, X, mine)

LEMMA TalkTurns ==
    ASSUME NEW X, NEW M, NEW mine, NEW Y, NEW N, NEW yours, Talk(X, M, mine, Y, N, yours)
    PROVE  Talk(Y, N, yours, X, M, mine)
BY DEF Talk

LEMMA SaysGrows ==
    ASSUME NEW X, NEW M, NEW X2, NEW M2, X2 \subseteq X, M2 \subseteq M
    PROVE  Says(X2, M2) \subseteq Says(X, M)
BY DEF Says

LEMMA FlowStays ==
    ASSUME NEW X, NEW M, NEW Y, NEW yours, NEW X2, NEW M2, NEW Y2, NEW yours2,
           X2 \subseteq X, M2 \subseteq M, Y2 \subseteq Y, yours => yours2, Flow(X, M, Y, yours)
    PROVE  Flow(X2, M2, Y2, yours2)
BY SaysGrows DEF Flow

LEMMA TalkStays ==
    ASSUME NEW X, NEW M, NEW mine, NEW Y, NEW N, NEW yours,
           NEW X2, NEW M2, NEW mine2, NEW Y2, NEW N2, NEW yours2,
           X2 \subseteq X, M2 \subseteq M, mine => mine2, Y2 \subseteq Y, N2 \subseteq N, yours => yours2,
           Talk(X, M, mine, Y, N, yours)
    PROVE  Talk(X2, M2, mine2, Y2, N2, yours2)
BY SaysGrows, FlowStays DEF Talk

\* An end encrypts with x, which is its only copy then.
LEMMA TalkEncrypts ==
    ASSUME NEW X, NEW M, NEW mine, NEW Y, NEW N, NEW yours, NEW x \in X,
           x.answers = 0 \/ x.answers \in DOMAIN x.recv, Talk(X, M, mine, Y, N, yours)
    PROVE  Talk({x}, M \cup {Shows(x)}, mine, Y, N, yours)
<1>1. PICK P : P = M \cup {Shows(x)}  OBVIOUS
<1>2. Says({x}, P) \subseteq Says(X, M) /\ Says({x}, P) = P  BY <1>1 DEF Says
<1>3. Flow({x}, P, Y, yours)
  <2>1. Shows(x) \in Says(X, M) /\ M \subseteq Says(X, M)  BY DEF Says
  <2>2. \A m \in P, f \in Says({x}, P) : m.answers = f.answers => m.chain = f.chain
    BY <1>1, <1>2, <2>1 DEF Talk, Flow
  <2>3. \A m \in P : m.answers = 0 \/ m.answers \in DOMAIN x.recv  BY <1>1 DEF Talk, Flow, Shows
  <2>4. \A m \in P, y \in Y : x.send = m.chain \/ m.chain \in DOMAIN y.recv  BY <1>1 DEF Talk, Flow, Shows
  <2> QED  BY <1>2, <2>2, <2>3, <2>4 DEF Talk, Flow
<1>4. Flow(Y, N, {x}, mine)  BY FlowStays DEF Talk
<1> QED  BY <1>1, <1>2, <1>3, <1>4 DEF Talk

\* An end begins a session, and nothing was said.
LEMMA TalkBegins ==
    ASSUME NEW x, x.pre, NEW mine, NEW yours
    PROVE  Talk({x}, {}, mine, {}, {}, yours)
BY DEF Talk, Flow, Says, Shows

\* The end with Y has another copy.
Gains(Y, y) == Y \cup {y}

\* It reads on a chain that it knows.
LEMMA TalkRereads ==
    ASSUME NEW X, NEW M, NEW mine, NEW Y, NEW N, NEW yours, NEW y \in Y, NEW z,
           Talk(X, M, mine, Y, N, yours), Shows(z) = Shows(y), z.send = y.send, DOMAIN z.recv = DOMAIN y.recv
    PROVE  Talk(X, M, mine, Gains(Y, z), N, yours)
<1>1. Says(Gains(Y, z), N) = Says(Y, N)  BY DEF Says, Gains
<1>2. Flow(X, M, Gains(Y, z), yours)  BY DEF Talk, Flow, Gains
<1>3. Flow(Gains(Y, z), N, X, mine)  BY <1>1 DEF Talk, Flow, Gains
<1> QED  BY <1>1, <1>2, <1>3 DEF Talk

\* It reads m with y on a new chain and has a chain of its own, new, to answer it.
LEMMA TalkReads ==
    ASSUME NEW X, NEW M, NEW Y, NEW N, NEW y \in Y, NEW z, NEW m \in M,
           Talk(X, M, TRUE, Y, N, TRUE),
           m.chain \notin DOMAIN y.recv, m.answers = y.send, m.chain # 0,
           z.tag = y.tag, z.answers = m.chain, DOMAIN z.recv = DOMAIN y.recv \cup {m.chain}
    PROVE  Talk(X, M, TRUE, Gains(Y, z), N, TRUE)
<1>1. Says(Gains(Y, z), N) = Says(Y, N) \cup {Shows(z)}  BY DEF Says, Gains
<1>2. m \in Says(X, M)  BY DEF Says
<1>3. \A f \in Says(X, M) : f.chain \in DOMAIN z.recv
  BY <1>2 DEF Talk, Flow
<1>4. \A x \in X : x.send = m.chain  BY DEF Talk, Flow
<1>5. \A n \in N : n.answers # m.chain  BY DEF Talk, Flow
<1>6. \A n \in N, x \in X : n.chain \in DOMAIN x.recv
  <2>1. N \subseteq Says(Y, N)  BY DEF Says
  <2> QED  BY <1>4, <1>5, <2>1 DEF Talk, Flow
<1>7. Flow(X, M, Gains(Y, z), TRUE)
  <2>1. M \subseteq Says(X, M)  BY DEF Says
  <2> QED  BY <1>3, <2>1 DEF Talk, Flow, Gains
<1>8. Shows(z).answers = m.chain /\ Shows(z).tag = y.tag  BY DEF Shows
<1>9. Flow(Gains(Y, z), N, X, TRUE)
  <2>1. \A f \in Says(Gains(Y, z), N), x \in X : f.chain \in DOMAIN x.recv \/ f.answers = x.send
    BY <1>1, <1>4, <1>8 DEF Talk, Flow
  <2>2. \A n \in N, f \in Says(Gains(Y, z), N) : n.answers = f.answers => n.chain = f.chain
    BY <1>1, <1>5, <1>8 DEF Talk, Flow
  <2>3. \A n \in N, w \in Gains(Y, z) : n.answers = 0 \/ n.answers \in DOMAIN w.recv
    BY DEF Talk, Flow, Gains
  <2> QED  BY <1>6, <2>1, <2>2, <2>3 DEF Flow
<1>10. y.tag = Shows(y).tag /\ Shows(y) \in Says(Y, N)  BY DEF Says, Shows
<1> QED  BY <1>1, <1>7, <1>8, <1>9, <1>10 DEF Talk

\* It has no session and receives m, a prekey message.
LEMMA TalkReceives ==
    ASSUME NEW X, NEW M, NEW Y, NEW z, NEW m \in M,
           Talk(X, M, TRUE, Y, {}, FALSE), \A f \in Says(X, M) : f.pre => f.chain = f.tag,
           z.tag = m.tag, z.answers = m.chain, DOMAIN z.recv = {m.chain}
    PROVE  Talk(X, M, TRUE, Gains(Y, z), {}, FALSE)
<1>1. Says(Gains(Y, z), {}) = Says(Y, {}) \cup {Shows(z)}  BY DEF Says, Gains
<1>2. m \in Says(X, M) /\ M \subseteq Says(X, M)  BY DEF Says
<1>3. \A f \in Says(X, M) : f.pre /\ f.chain = m.chain
  <2>1. \A f \in Says(X, M) : f.pre /\ f.tag = m.tag  BY <1>2 DEF Talk, Flow
  <2> QED  BY <1>2, <2>1
<1>4. \A x \in X : x.send = m.chain
  <2>1. \A x \in X : Shows(x) \in Says(X, M) /\ Shows(x).chain = x.send  BY DEF Says, Shows
  <2> QED  BY <1>3, <2>1
<1>5. Flow(X, M, Gains(Y, z), FALSE)  BY <1>2, <1>3 DEF Talk, Flow, Gains
<1>6. Shows(z).answers = m.chain /\ Shows(z).tag = m.tag  BY DEF Shows
<1>7. Flow(Gains(Y, z), {}, X, TRUE)  BY <1>1, <1>4, <1>6 DEF Talk, Flow
<1> QED  BY <1>1, <1>2, <1>5, <1>6, <1>7 DEF Talk

-----------------------------------------------------------------------------
(* Messages: the copies of a session and what was said of it, step by step *)

Keeps(b, p)     == store[b][p] # NoSession
Holder(o, b, p) == op[o].pc \in HoldPc /\ Loaded(o, b, p)

CopyIs(b, p, x) ==
    \/ Keeps(b, p) /\ x = Gist(store[b][p])
    \/ \E o \in Op : Holder(o, b, p) /\ x = Gist(op[o].sess)
IsOf(m, b, p, f) == m.by = b /\ m.to = p /\ f = Face(m)
MessageIs(b, p, f) ==
    \/ \E i \in DOMAIN sent : IsOf(sent[i], b, p, f)
    \/ \E o \in Op : \E k \in DOMAIN Pending(o) : IsOf(Pending(o)[k], b, p, f)

\* A step leaves the copies and messages of b for p, or fewer of them; it makes one copy of a
\* session in one place; it makes one message in one place.
Calm(b, p) ==
    /\ \A x : CopyIs(b, p, x)' => CopyIs(b, p, x)
    /\ \A f : MessageIs(b, p, f)' => MessageIs(b, p, f)
    /\ Keeps(b, p) => Keeps(b, p)'
AllCalm == \A b \in Browser, p \in User : Calm(b, p)
Copied(d, q, z) ==
    /\ UNCHANGED store
    /\ \A b \in Browser, p \in User :
           /\ \A x : CopyIs(b, p, x)' => CopyIs(b, p, x) \/ (b = d /\ p = q /\ x = z)
           /\ \A f : MessageIs(b, p, f)' => MessageIs(b, p, f)
Told(d, q, g) ==
    \A b \in Browser, p \in User :
        /\ \A x : CopyIs(b, p, x)' => CopyIs(b, p, x)
        /\ \A f : MessageIs(b, p, f)' => MessageIs(b, p, f) \/ (b = d /\ p = q /\ f = g)
        /\ Keeps(b, p) => Keeps(b, p)'

LEMMA NextCopy ==
    ASSUME NEW b, NEW p, NEW x, CopyIs(b, p, x)'
    PROVE  \/ Keeps(b, p)' /\ x = Gist(store'[b][p])
           \/ \E o \in Op : Holder(o, b, p)' /\ x = Gist(op'[o].sess)
BY DEF CopyIs, Gist

LEMMA MessagesCalm ==
    ASSUME PendingCalm  PROVE \A b, p, f : MessageIs(b, p, f)' => MessageIs(b, p, f)
<1> SUFFICES ASSUME NEW b, NEW p, NEW f, MessageIs(b, p, f)'  PROVE MessageIs(b, p, f)  OBVIOUS
<1>1. CASE (\E i \in DOMAIN sent : IsOf(sent[i], b, p, f))'  BY <1>1 DEF PendingCalm, MessageIs, IsOf, Face
<1>2. CASE (\E o \in Op : \E k \in DOMAIN Pending(o) : IsOf(Pending(o)[k], b, p, f))'
  <2>1. PICK o \in Op : \E k \in DOMAIN Pending(o)' : IsOf(Pending(o)[k], b, p, f)'  BY <1>2
  <2>2. PICK k \in DOMAIN Pending(o)' : IsOf(Pending(o)[k], b, p, f)'  BY <2>1
  <2>3. k \in DOMAIN Pending(o) /\ Pending(o)'[k] = Pending(o)[k]  BY <2>2 DEF PendingCalm
  <2> QED  BY <2>2, <2>3 DEF MessageIs, IsOf, Face
<1> QED  BY <1>1, <1>2 DEF MessageIs

LEMMA OthersCopy ==
    ASSUME MessagesInv, NEW o, OneOp(o), \A i \in DOMAIN sent : sent'[i] = sent[i], NEW x \in Op \ {o},
           NEW b, NEW p, Holder(x, b, p)'
    PROVE  Holder(x, b, p) /\ op'[x].sess = op[x].sess
BY OthersHold DEF Holder, OneOp

\* What o does when it makes no session and no message: it drops what it holds, keeps it, or
\* takes it from the store, or it saves it.
Moves(o) ==
    /\ OneOp(o) /\ UNCHANGED sent /\ (Pending(o)' = Pending(o) \/ Pending(o)' = <<>>)
    /\ \A b, p : Holder(o, b, p)' => \/ Holder(o, b, p) /\ op'[o].sess = op[o].sess
                                     \/ Keeps(b, p) /\ op'[o].sess = store[b][p]
    /\ \/ UNCHANGED store
       \/ \E d, q : Holder(o, d, q) /\ store' = [store EXCEPT ![d][q] = op[o].sess]

LEMMA SessionIs == \A s : IsSession(s) => s # NoSession
BY DEF IsSession, NoSession

LEMMA MovesCalm ==
    ASSUME MessagesInv, NEW o \in Op, Moves(o)  PROVE AllCalm
<1> SUFFICES ASSUME NEW b \in Browser, NEW p \in User  PROVE Calm(b, p)  BY DEF AllCalm
<1>1. \A f : MessageIs(b, p, f)' => MessageIs(b, p, f)  BY OthersPending, MessagesCalm DEF Moves
<1>2. CASE UNCHANGED store
  <2>1. Keeps(b, p)' = Keeps(b, p)  BY <1>2 DEF Keeps, NoSession
  <2>2. ASSUME NEW x \in Op, Holder(x, b, p)'  PROVE CopyIs(b, p, Gist(op'[x].sess))
    <3>1. CASE x = o  BY <2>2, <3>1 DEF Moves, CopyIs
    <3>2. CASE x # o  BY <2>2, <3>2, OthersCopy DEF Moves, CopyIs
    <3> QED  BY <3>1, <3>2
  <2>3. \A x : CopyIs(b, p, x)' => CopyIs(b, p, x)
    <3>1. Keeps(b, p)' => CopyIs(b, p, Gist(store'[b][p]))  BY <1>2, <2>1 DEF CopyIs
    <3> QED  BY <2>2, <3>1, NextCopy
  <2> QED  BY <1>1, <2>1, <2>3 DEF Calm
<1>3. ASSUME NEW d, NEW q, Holder(o, d, q), store' = [store EXCEPT ![d][q] = op[o].sess]  PROVE Calm(b, p)
  <2>1. PICK s : s = op[o].sess  OBVIOUS
  <2>2. IsSession(s) /\ d \in Browser /\ q \in User
    BY <1>3, <2>1, LoadedIs DEF Holder, MessagesInv, SessionsInv, OpsInv, IsOp
  <2>3. store'[b][p] = IF b = d /\ p = q THEN s ELSE store[b][p]
    BY <1>3, <2>1, <2>2 DEF MessagesInv, SessionsInv, StoreInv
  <2>4. Keeps(b, p) => Keeps(b, p)'  BY <2>2, <2>3, SessionIs DEF Keeps, NoSession
  <2>5. ASSUME NEW x \in Op, Holder(x, b, p)'  PROVE CopyIs(b, p, Gist(op'[x].sess))
    <3>1. CASE x = o  BY <2>5, <3>1 DEF Moves, CopyIs
    <3>2. CASE x # o  BY <2>5, <3>2, OthersCopy DEF Moves, CopyIs
    <3> QED  BY <3>1, <3>2
  <2>6. Keeps(b, p)' => CopyIs(b, p, Gist(store'[b][p]))
    <3>1. CASE b = d /\ p = q  BY <1>3, <2>1, <2>3, <3>1 DEF CopyIs
    <3>2. CASE ~(b = d /\ p = q)  BY <2>3, <3>2 DEF CopyIs, Keeps, NoSession
    <3> QED  BY <3>1, <3>2
  <2>7. \A x : CopyIs(b, p, x)' => CopyIs(b, p, x)  BY <2>5, <2>6, NextCopy
  <2> QED  BY <1>1, <2>4, <2>7 DEF Calm
<1> QED  BY <1>2, <1>3 DEF Moves

LEMMA LoadsMove ==
    ASSUME MessagesInv, NEW o \in Op,
           \/ \E b \in Browser : SendGroupMessage(o, b) \/ \E p \in User : SendMessage(o, b, p)
           \/ GetGroup(o) \/ SkipMyself(o) \/ EmitLost(o) \/ \E c \in Call : Deliver(o, c)
           \/ SaveNewSession(o) \/ Load(o)
    PROVE  Moves(o)
<1>1. CASE op'[o].pc \notin LoadPc /\ OneOp(o) /\ UNCHANGED <<store, sent>> /\ (Pending(o)' = Pending(o) \/ Pending(o)' = <<>>)
  BY <1>1, NotLoaded DEF Moves, Holder
<1>2. CASE SaveNewSession(o)
  <2>1. PICK d, q, s : SaveNewDoes(o, d, q, s)  BY <1>2, SaveNewIs
  <2>2. Holder(o, d, q)  BY <2>1 DEF SaveNewDoes, Holder, HoldPc, Loaded, OpAt
  <2>3. \A b, p : Holder(o, b, p)' => b = d /\ p = q  BY <2>1 DEF SaveNewDoes, Holder, Loaded, OpAt
  <2> QED  BY <2>1, <2>2, <2>3 DEF SaveNewDoes, Moves
<1>3. CASE Load(o)
  <2>1. PICK d, q : LoadDoes(o, d, q)  BY <1>3, LoadIs
  <2>2. \A b, p : Holder(o, b, p)' => b = d /\ p = q
    BY <2>1 DEF LoadDoes, Holder, HoldPc, LoadPc, Loaded, OpAt
  <2>3. op'[o].pc \in HoldPc => Keeps(d, q) /\ op'[o].sess = store[d][q]  BY <2>1 DEF LoadDoes, Keeps
  <2>4. \A b, p : Holder(o, b, p)' => Keeps(b, p) /\ op'[o].sess = store[b][p]  BY <2>2, <2>3 DEF Holder
  <2> QED  BY <2>1, <2>4 DEF LoadDoes, Moves
<1> QED  BY <1>1, <1>2, <1>3, OutIs

LEMMA EndsMove ==
    ASSUME MessagesInv, NEW o \in Op, UNCHANGED sent, End(o),
           UNCHANGED store \/ \E b, p : KeepDoes(o, b, p)
    PROVE  Moves(o)
<1>1. OneOp(o) /\ op'[o].pc \notin LoadPc /\ Pending(o)' = <<>>  BY EndIsOne, EndPending DEF LoadPc, SendPc
<1>2. \A b, p : KeepDoes(o, b, p) => Holder(o, b, p) /\ store' = [store EXCEPT ![b][p] = op[o].sess]
  BY DEF KeepDoes, Holder, HoldPc, Loaded, OpAt
<1> QED  BY <1>1, <1>2, NotLoaded DEF Moves, Holder

LEMMA EmitCalm ==
    ASSUME MessagesInv, NEW o \in Op, Emit(o)  PROVE AllCalm
<1>1. UNCHANGED store  BY DEF Emit
<1>2. PICK from : EmitDoes(o, from)  BY EmitKept
<1>3. OneOp(o) /\ op'[o].pc = "idle" /\ op'[o].pc \notin LoadPc /\ Pending(o)' = <<>> /\ Pending(o) = op[o].out
  BY <1>2, EndIsOne, EndPending DEF EmitDoes, LoadPc, SendPc, Pending
<1>4. \A i \in DOMAIN sent : i \in DOMAIN sent' /\ sent'[i] = sent[i]
  BY <1>2 DEF EmitDoes, MessagesInv, SessionsInv, PostInv
<1> SUFFICES ASSUME NEW b \in Browser, NEW p \in User  PROVE Calm(b, p)  BY DEF AllCalm
<1>5. \A x : CopyIs(b, p, x)' => CopyIs(b, p, x)
  <2>1. \A x \in Op : Holder(x, b, p)' => Holder(x, b, p) /\ op'[x].sess = op[x].sess
    BY <1>3, <1>4, NotLoaded, OthersCopy DEF Holder
  <2> QED  BY <1>1, <2>1, NextCopy DEF CopyIs, Keeps, NoSession
<1>6. ASSUME NEW f, MessageIs(b, p, f)'  PROVE MessageIs(b, p, f)
  <2>1. CASE (\E i \in DOMAIN sent : IsOf(sent[i], b, p, f))'
    <3>1. PICK i \in DOMAIN sent' : IsOf(sent[i], b, p, f)'  BY <2>1
    <3>2. CASE i \in DOMAIN sent /\ sent'[i] = sent[i]  BY <3>1, <3>2 DEF MessageIs, IsOf, Face
    <3>3. CASE ~(i \in DOMAIN sent /\ sent'[i] = sent[i])
      <4>1. PICK k : k = i - Len(sent)  OBVIOUS
      <4>2. PICK e \in EnvelopeType : /\ k \in DOMAIN Pending(o) /\ e = Pending(o)[k]
                /\ sent'[i].by = e.by /\ sent'[i].to = e.to /\ sent'[i].tag = e.tag /\ sent'[i].pre = e.pre
                /\ sent'[i].owner = e.owner /\ sent'[i].chain = e.chain /\ sent'[i].answers = e.answers
        BY <1>2, <1>3, <3>1, <3>3, <4>1, EmittedIs
      <4>3. IsOf(e, b, p, f)  BY <3>1, <4>2 DEF IsOf, Face
      <4> QED  BY <4>2, <4>3 DEF MessageIs
    <3> QED  BY <3>2, <3>3
  <2>2. CASE (\E x \in Op : \E k \in DOMAIN Pending(x) : IsOf(Pending(x)[k], b, p, f))'
    <3>1. PICK x \in Op : \E k \in DOMAIN Pending(x)' : IsOf(Pending(x)[k], b, p, f)'  BY <2>2
    <3>2. PICK k \in DOMAIN Pending(x)' : IsOf(Pending(x)[k], b, p, f)'  BY <3>1
    <3>3. x # o /\ Pending(x)' = Pending(x)  BY <1>3, <1>4, <3>2, OthersHold
    <3> QED  BY <3>2, <3>3 DEF MessageIs, IsOf, Face
  <2> QED  BY <1>6, <2>1, <2>2 DEF MessageIs
<1>7. Keeps(b, p) => Keeps(b, p)'  BY <1>1 DEF Keeps, NoSession
<1> QED  BY <1>5, <1>6, <1>7 DEF Calm

\* Every operation goes on as it is, or ends, or loses its group.
LEMMA OthersCalm ==
    ASSUME MessagesInv,
           \/ UNCHANGED sessionVars \/ \E b \in Browser : CreateGroup(b)
           \/ Forgets \/ \E b \in Browser : ReloadsPage(b)
    PROVE  AllCalm
<1>1. UNCHANGED <<store, sent>>  BY DEF sessionVars, CreateGroup, Forgets, ReloadsPage
<1>2. \A x \in Op : /\ \A b, p : Holder(x, b, p)' => Holder(x, b, p) /\ op'[x].sess = op[x].sess
                    /\ Pending(x)' = Pending(x) \/ Pending(x)' = <<>>
  <2> SUFFICES ASSUME NEW x \in Op
               PROVE  /\ \A b, p : Holder(x, b, p)' => Holder(x, b, p) /\ op'[x].sess = op[x].sess
                      /\ Pending(x)' = Pending(x) \/ Pending(x)' = <<>>
    OBVIOUS
  <2>1. CASE op'[x] = op[x]  BY <1>1, <2>1 DEF Holder, Loaded, OpAt, To, Pending
  <2>2. CASE op'[x] = Idle  BY <2>2 DEF Idle, Holder, HoldPc, Pending, SendPc
  <2>3. CASE Forgets /\ op[x].pc \in SendPc
    BY <1>1, <2>3, ForgetIs DEF Holder, Loaded, OpAt, To, Pending, SendPc
  <2>4. CASE Forgets /\ op[x].pc \notin SendPc  BY <2>1, <2>4, ForgetIs
  <2> QED  BY <2>1, <2>2, <2>3, <2>4 DEF sessionVars, CreateGroup, ReloadsPage
<1>3. PendingCalm  BY <1>1, <1>2 DEF PendingCalm
<1>4. \A b, p, x : CopyIs(b, p, x)' => CopyIs(b, p, x)
  BY <1>1, <1>2, NextCopy DEF CopyIs, Keeps, NoSession
<1> QED  BY <1>1, <1>3, <1>4, MessagesCalm DEF AllCalm, Calm, Keeps, NoSession

\* encryptMessage: one more message of the session.
LEMMA EncryptTells ==
    ASSUME MessagesInv, NEW o \in Op, NEW d, NEW q, NEW s, EncryptDoes(o, d, q, s), UNCHANGED sent
    PROVE  /\ Told(d, q, Shows(Gist(s)))
           /\ Holder(o, d, q) /\ ~Holder(o, d, q)' /\ store'[d][q] = Stepped(s) /\ Keeps(d, q)'
<1>1. IsSession(s) /\ d \in Browser /\ q \in User /\ OneOp(o) /\ store' = [store EXCEPT ![d][q] = Stepped(s)]
  BY DEF EncryptDoes
<1>2. PICK t : t = Stepped(s)  OBVIOUS
<1>3. Gist(t) = Gist(s) /\ t # NoSession
  <2>1. t = [s EXCEPT !.n = @ + 1]  BY <1>2 DEF Stepped
  <2>2. /\ t.tag = s.tag /\ t.send = s.send /\ t.answers = s.answers /\ t.pre = s.pre /\ t.owner = s.owner
        /\ t.recv = s.recv /\ DOMAIN t = DOMAIN s
    BY <1>1, <2>1 DEF IsSession
  <2>3. t # NoSession
    <3>1. DOMAIN t # {"tag"}  BY <1>1, <2>2 DEF IsSession
    <3> QED  BY <3>1 DEF NoSession
  <2> QED  BY <2>2, <2>3 DEF Gist
<1>4. Holder(o, d, q)  BY DEF EncryptDoes, Holder, HoldPc, Loaded, OpAt
<1>5. op'[o].pc \in {"load", "emit"}  BY DEF EncryptDoes
<1>6. \A b, p : ~Holder(o, b, p)'  BY <1>5 DEF Holder, HoldPc
<1>7. store'[d][q] = t  BY <1>1, <1>2 DEF MessagesInv, SessionsInv, StoreInv
<1> SUFFICES ASSUME NEW b \in Browser, NEW p \in User
             PROVE  /\ \A x : CopyIs(b, p, x)' => CopyIs(b, p, x)
                    /\ \A f : MessageIs(b, p, f)' => MessageIs(b, p, f) \/ (b = d /\ p = q /\ f = Shows(Gist(s)))
                    /\ Keeps(b, p) => Keeps(b, p)'
  BY <1>1, <1>2, <1>3, <1>4, <1>6, <1>7 DEF Told, Keeps, NoSession
<1>8. store'[b][p] = IF b = d /\ p = q THEN t ELSE store[b][p]
  BY <1>1, <1>2 DEF MessagesInv, SessionsInv, StoreInv
<1>9. \A x : CopyIs(b, p, x)' => CopyIs(b, p, x)
  <2>1. \A x \in Op : Holder(x, b, p)' => Holder(x, b, p) /\ op'[x].sess = op[x].sess
    BY <1>1, <1>6, OthersCopy
  <2>2. Keeps(b, p)' => CopyIs(b, p, Gist(store'[b][p]))
    <3>1. CASE b = d /\ p = q
      <4>1. s = op[o].sess  BY DEF EncryptDoes
      <4> QED  BY <1>3, <1>4, <1>8, <3>1, <4>1 DEF CopyIs
    <3>2. CASE ~(b = d /\ p = q)  BY <1>8, <3>2 DEF CopyIs, Keeps, NoSession
    <3> QED  BY <3>1, <3>2
  <2>3. \A x \in Op : Holder(x, b, p)' => CopyIs(b, p, Gist(op'[x].sess))  BY <2>1 DEF CopyIs
  <2> QED  BY <2>2, <2>3, NextCopy
<1>10. ASSUME NEW f, MessageIs(b, p, f)'
       PROVE  MessageIs(b, p, f) \/ (b = d /\ p = q /\ f = Shows(Gist(s)))
  <2>1. CASE (\E i \in DOMAIN sent : IsOf(sent[i], b, p, f))'  BY <2>1 DEF MessageIs, IsOf, Face
  <2>2. CASE (\E x \in Op : \E k \in DOMAIN Pending(x) : IsOf(Pending(x)[k], b, p, f))'
    <3>1. PICK x \in Op : \E k \in DOMAIN Pending(x)' : IsOf(Pending(x)[k], b, p, f)'  BY <2>2
    <3>2. PICK k \in DOMAIN Pending(x)' : IsOf(Pending(x)[k], b, p, f)'  BY <3>1
    <3>3. CASE x # o
      <4>1. Pending(x)' = Pending(x)  BY <1>1, <3>3, OthersHold
      <4> QED  BY <3>2, <4>1 DEF MessageIs, IsOf, Face
    <3>4. CASE x = o
      <4>1. PICK out, e : out = op[o].out /\ e = Envelope(s, d, q)  OBVIOUS
      <4>2. Pending(o)' = Append(out, e) /\ Pending(o) = out /\ out \in Seq(EnvelopeType)
        BY <1>5, <4>1, PendingIs DEF EncryptDoes, Pending, SendPc
      <4>3. \/ Append(out, e)[k] = e
            \/ k \in DOMAIN out /\ Append(out, e)[k] = out[k]
        BY <3>2, <3>4, <4>2
      <4>4. IsOf(Append(out, e)[k], b, p, f)  BY <3>2, <3>4, <4>2 DEF IsOf, Face
      <4>5. CASE Append(out, e)[k] = e
        <5>1. IsOf(e, b, p, f)  BY <4>4, <4>5
        <5>2. /\ e.by = d /\ e.to = q /\ e.tag = s.tag /\ e.pre = s.pre /\ e.owner = s.owner /\ e.chain = s.send
              /\ e.answers = s.answers
          BY <4>1 DEF Envelope
        <5>3. Face(e) = Shows(Gist(s))  BY <5>2 DEF Face, Shows, Gist
        <5> QED  BY <5>1, <5>2, <5>3 DEF IsOf
      <4>6. CASE k \in DOMAIN out /\ Append(out, e)[k] = out[k]
        <5>1. IsOf(Pending(o)[k], b, p, f)  BY <4>2, <4>4, <4>6
        <5> QED  BY <4>2, <4>6, <5>1 DEF MessageIs
      <4> QED  BY <4>3, <4>5, <4>6
    <3> QED  BY <3>3, <3>4
  <2> QED  BY <1>10, <2>1, <2>2 DEF MessageIs
<1>11. Keeps(b, p) => Keeps(b, p)'  BY <1>3, <1>8 DEF Keeps, NoSession
<1> QED  BY <1>9, <1>10, <1>11

\* A step of o that leaves the store and makes one copy.
LEMMA CopiesOne ==
    ASSUME MessagesInv, NEW o \in Op, OneOp(o), UNCHANGED <<store, sent>>,
           Pending(o)' = Pending(o) \/ Pending(o)' = <<>>,
           NEW d, NEW q, NEW s, \A b, p : Holder(o, b, p)' => b = d /\ p = q /\ op'[o].sess = s
    PROVE  Copied(d, q, Gist(s))
<1>1. \A b, p, f : MessageIs(b, p, f)' => MessageIs(b, p, f)  BY OthersPending, MessagesCalm
<1>2. ASSUME NEW b, NEW p, NEW x \in Op, Holder(x, b, p)'
      PROVE  CopyIs(b, p, Gist(op'[x].sess)) \/ (b = d /\ p = q /\ Gist(op'[x].sess) = Gist(s))
  <2>1. CASE x = o  BY <1>2, <2>1
  <2>2. CASE x # o  BY <1>2, <2>2, OthersCopy DEF CopyIs
  <2> QED  BY <2>1, <2>2
<1>3. \A b, p : Keeps(b, p)' => CopyIs(b, p, Gist(store'[b][p]))  BY DEF CopyIs, Keeps, NoSession
<1> QED  BY <1>1, <1>2, <1>3, NextCopy DEF Copied

LEMMA FetchCopies ==
    ASSUME MessagesInv, NEW o \in Op, NEW d, NEW q, NEW s, FetchDoes(o, d, q, s)
    PROVE  Copied(d, q, Gist(s))
<1>1. \A b, p : Holder(o, b, p)' => b = d /\ p = q /\ op'[o].sess = s  BY DEF FetchDoes, Holder, Loaded, OpAt
<1> QED  BY <1>1, CopiesOne DEF FetchDoes

\* The copy z that a handler of b has of the session with p when it has decrypted m.
Receives(b, p, m, z) ==
    /\ ~Keeps(b, p) /\ m.pre /\ z.tag = m.tag /\ z.answers = m.chain
    /\ z.recv = [k \in {m.chain} |-> {m.n}]
Rereads(y, m, z) ==
    /\ m.chain \in DOMAIN y.recv /\ Shows(z) = Shows(y) /\ z.send = y.send /\ z.answers = y.answers /\ z.pre = y.pre
    /\ z.owner = y.owner /\ z.recv = [y.recv EXCEPT ![m.chain] = @ \cup {m.n}]
Reads(y, m, z) ==
    /\ m.chain \notin DOMAIN y.recv /\ m.answers = y.send /\ z.tag = y.tag /\ z.answers = m.chain
    /\ z.recv = [k \in DOMAIN y.recv \cup {m.chain} |-> IF k = m.chain THEN {m.n} ELSE y.recv[k]]

OpenReads(o, d, q, m, z) ==
    /\ op[o].pc = "open" /\ d = op[o].by /\ op[o].msg \in DOMAIN sent /\ m = sent[op[o].msg] /\ m.from = q
    /\ d \in Browser /\ q \in User
    /\ OneOp(o) /\ op'[o].pc = "keep" /\ op'[o].msg = op[o].msg
    /\ UNCHANGED <<store, sent>> /\ Spoil(Tangled(d, q, FALSE), d, q)
    /\ Copied(d, q, z)
    /\ \/ Receives(d, q, m, z) /\ ~z.pre
       \/ Keeps(d, q) /\ \E y : y = Gist(store[d][q]) /\ (Rereads(y, m, z) \/ (Reads(y, m, z) /\ ~z.pre))

LEMMA GistOfReading ==
    ASSUME NEW s, IsSession(s), NEW m, Readable(s, m), NEW y, y = Gist(s), NEW z, z = Gist(Reading(s, m))
    PROVE  Rereads(y, m, z) \/ (Reads(y, m, z) /\ ~z.pre)
<1>1. PICK t : t = Reading(s, m)  OBVIOUS
<1>2. /\ y.tag = s.tag /\ y.send = s.send /\ y.answers = s.answers /\ y.pre = s.pre /\ y.owner = s.owner
      /\ y.recv = s.recv
  BY DEF Gist
<1>3. /\ z.tag = t.tag /\ z.send = t.send /\ z.answers = t.answers /\ z.pre = t.pre /\ z.owner = t.owner
      /\ z.recv = t.recv
  BY <1>1 DEF Gist
<1>4. CASE m.chain \in DOMAIN s.recv
  <2>1. PICK recv : recv = [s.recv EXCEPT ![m.chain] = @ \cup {m.n}]  OBVIOUS
  <2>2. t = [s EXCEPT !.recv = recv]  BY <1>1, <1>4, <2>1 DEF Reading
  <2>3. /\ t.tag = s.tag /\ t.send = s.send /\ t.answers = s.answers /\ t.pre = s.pre /\ t.owner = s.owner
        /\ t.recv = recv
    BY <2>2 DEF IsSession
  <2>4. Shows(z) = Shows(y)  BY <1>2, <1>3, <2>3 DEF Shows
  <2>5. z.recv = [y.recv EXCEPT ![m.chain] = @ \cup {m.n}]  BY <1>2, <1>3, <2>1, <2>3
  <2> QED  BY <1>2, <1>3, <1>4, <2>3, <2>4, <2>5 DEF Rereads
<1>5. CASE m.chain \notin DOMAIN s.recv
  <2>1. PICK recv : recv = [k \in DOMAIN s.recv \cup {m.chain} |-> IF k = m.chain THEN {m.n} ELSE s.recv[k]]
    OBVIOUS
  <2>2. t = [s EXCEPT !.send = chains + 1, !.answers = m.chain, !.n = 0, !.pre = FALSE, !.recv = recv]
    BY <1>1, <1>5, <2>1 DEF Reading, IsSession
  <2>3. t.tag = s.tag /\ t.answers = m.chain /\ t.recv = recv /\ t.pre = FALSE  BY <2>2 DEF IsSession
  <2>4. z.pre = FALSE  BY <1>3, <2>3
  <2>5. z.recv = [k \in DOMAIN y.recv \cup {m.chain} |-> IF k = m.chain THEN {m.n} ELSE y.recv[k]]
    BY <1>2, <1>3, <2>1, <2>3
  <2>6. m.answers = y.send  BY <1>2, <1>5 DEF Readable
  <2>7. Reads(y, m, z)  BY <1>2, <1>3, <1>5, <2>3, <2>5, <2>6 DEF Reads
  <2> QED  BY <2>4, <2>7
<1> QED  BY <1>4, <1>5

LEMMA OpenIs ==
    ASSUME MessagesInv, NEW o \in Op, OpenMessage(o), ~End(o)
    PROVE  \E d, q, m, z : OpenReads(o, d, q, m, z)
<1>1. UNCHANGED <<store, sent>> /\ op[o].pc = "open" /\ IsOp(op[o])
  BY DEF OpenMessage, OpAt, MessagesInv, SessionsInv, OpsInv
<1>2. PICK d, m, q : d = op[o].by /\ m = sent[op[o].msg] /\ q = m.from  OBVIOUS
<1>3. d \in Browser /\ op[o].msg \in DOMAIN sent /\ m \in EnvelopeType /\ q \in User
  BY <1>1, <1>2 DEF IsOp, HandlePc, MessagesInv, SessionsInv, PostInv
<1>4. Spoil(Tangled(d, q, FALSE), d, q)  BY <1>2 DEF OpenMessage
<1>5. PICK s : s = store[d][q]  OBVIOUS
<1>6. s = NoSession \/ IsSession(s)  BY <1>3, <1>5 DEF MessagesInv, SessionsInv, StoreInv
<1>7. ASSUME NEW t, ToKeep(o, t)
      PROVE  /\ OneOp(o) /\ op'[o].pc = "keep" /\ op'[o].msg = op[o].msg
             /\ Copied(d, q, Gist(t))
  <2>1. OneOp(o)  BY <1>7 DEF ToKeep, OneOp, MessagesInv, SessionsInv, OpsInv
  <2>2. op'[o].pc = "keep" /\ op'[o].sess = t /\ op'[o].by = d /\ op'[o].msg = op[o].msg
    BY <1>1, <1>2, <1>7 DEF IsOp, HandlePc, ToKeep, MessagesInv, SessionsInv, OpsInv
  <2>3. \A b, p : Holder(o, b, p)' => b = d /\ p = q /\ op'[o].sess = t
    BY <1>1, <1>2, <2>2 DEF Holder, Loaded, OpAt
  <2>4. Pending(o)' = <<>>  BY <2>2, EndPending DEF SendPc
  <2> QED  BY <1>1, <2>1, <2>2, <2>3, <2>4, CopiesOne
<1>8. CASE s = NoSession /\ Opens(d, m) /\ ToKeep(o, Received(m))
  <2>1. PICK t : t = Received(m)  OBVIOUS
  <2>2. /\ t.tag = m.tag /\ t.answers = m.chain /\ t.pre = FALSE /\ t.recv = [k \in {m.chain} |-> {m.n}]
    BY <2>1 DEF Received
  <2>3. PICK z : z = Gist(t)  OBVIOUS
  <2>4. z.tag = t.tag /\ z.answers = t.answers /\ z.pre = t.pre /\ z.recv = t.recv  BY <2>3 DEF Gist
  <2>5. z.pre = FALSE  BY <2>2, <2>4
  <2>6. Receives(d, q, m, z)  BY <1>5, <1>8, <2>2, <2>4 DEF Receives, Keeps, Opens
  <2>7. ToKeep(o, t)  BY <1>8, <2>1
  <2>8. /\ OneOp(o) /\ op'[o].pc = "keep" /\ op'[o].msg = op[o].msg /\ Copied(d, q, z)  BY <1>7, <2>3, <2>7
  <2> QED  BY <1>1, <1>2, <1>3, <1>4, <2>5, <2>6, <2>8 DEF OpenReads
<1>9. CASE s # NoSession /\ Readable(s, m) /\ ToKeep(o, Reading(s, m))
  <2>1. PICK y, z, t : y = Gist(s) /\ t = Reading(s, m) /\ z = Gist(t)  OBVIOUS
  <2>2. Rereads(y, m, z) \/ (Reads(y, m, z) /\ ~z.pre)  BY <1>6, <1>9, <2>1, GistOfReading
  <2>3. ToKeep(o, t)  BY <1>9, <2>1
  <2>4. /\ OneOp(o) /\ op'[o].pc = "keep" /\ op'[o].msg = op[o].msg /\ Copied(d, q, z)  BY <1>7, <2>1, <2>3
  <2>5. Keeps(d, q) /\ y = Gist(store[d][q])  BY <1>5, <1>9, <2>1 DEF Keeps
  <2> QED  BY <1>1, <1>2, <1>3, <1>4, <2>2, <2>4, <2>5 DEF OpenReads
<1> QED  BY <1>2, <1>5, <1>8, <1>9 DEF OpenMessage

\* Every step is calm, encrypts, begins a session or reads.
LEMMA CopySteps ==
    ASSUME MessagesInv, SessionStep
    PROVE  \/ AllCalm
           \/ \E o \in Op : \E d, q, s : EncryptDoes(o, d, q, s) /\ UNCHANGED sent
           \/ \E o \in Op : \E d, q, s : FetchDoes(o, d, q, s)
           \/ \E o \in Op : \E d, q, m, z : OpenReads(o, d, q, m, z)
<1>1. ASSUME NEW o \in Op,
             \/ \E b \in Browser : SendGroupMessage(o, b) \/ \E p \in User : SendMessage(o, b, p)
             \/ GetGroup(o) \/ SkipMyself(o) \/ EmitLost(o) \/ \E c \in Call : Deliver(o, c)
             \/ SaveNewSession(o) \/ Load(o)
      PROVE  AllCalm
  BY <1>1, LoadsMove, MovesCalm
<1>2. ASSUME NEW o \in Op, KeepMessage(o)  PROVE AllCalm
  <2>1. UNCHANGED sent /\ End(o) /\ \E b, p : KeepDoes(o, b, p)  BY <1>2, KeepKept DEF KeepMessage
  <2> QED  BY <2>1, EndsMove, MovesCalm
<1>3. ASSUME NEW o \in Op, OpenMessage(o)
      PROVE  AllCalm \/ \E d, q, m, z : OpenReads(o, d, q, m, z)
  <2>1. UNCHANGED <<store, sent>>  BY <1>3 DEF OpenMessage
  <2> QED  BY <1>3, <2>1, OpenIs, EndsMove, MovesCalm
<1>4. ASSUME NEW o \in Op, FetchPrekey(o)
      PROVE  AllCalm \/ \E d, q, s : FetchDoes(o, d, q, s)
  <2>1. UNCHANGED <<store, sent>>  BY <1>4 DEF FetchPrekey
  <2> QED  BY <1>4, <2>1, FetchIs, EndsMove, MovesCalm
<1>5. ASSUME NEW o \in Op, Encrypt(o)  PROVE \E d, q, s : EncryptDoes(o, d, q, s) /\ UNCHANGED sent
  <2>1. UNCHANGED sent  BY <1>5 DEF Encrypt
  <2> QED  BY <1>5, <2>1, EncryptKept
<1> QED  BY <1>1, <1>2, <1>3, <1>4, <1>5, EmitCalm, OthersCalm DEF SessionStep

LEMMA SpoiledGrows ==
    ASSUME MessagesInv, SessionStep  PROVE spoiled \subseteq spoiled'
<1>1. ASSUME NEW o \in Op,
             \/ \E b \in Browser : SendGroupMessage(o, b) \/ \E p \in User : SendMessage(o, b, p)
             \/ GetGroup(o) \/ SkipMyself(o) \/ SaveNewSession(o) \/ Encrypt(o) \/ EmitLost(o) \/ Emit(o)
             \/ KeepMessage(o) \/ \E c \in Call : Deliver(o, c)
      PROVE  UNCHANGED spoiled
  BY <1>1 DEF SendGroupMessage, SendMessage, GetGroup, SkipMyself, SaveNewSession, Encrypt, EmitLost, Emit,
              KeepMessage, Deliver
<1>2. CASE UNCHANGED sessionVars \/ (\E b \in Browser : CreateGroup(b)) \/ Forgets \/ \E b \in Browser : ReloadsPage(b)
  BY <1>2 DEF sessionVars, CreateGroup, Forgets, ReloadsPage
<1> QED  BY <1>1, <1>2, LoadStep, FetchStep, OpenStep DEF SessionStep

\* A send that holds a session holds what is stored, unless the session is spoiled.
LoadedOk(x, b, p) ==
    (Loaded(x, b, p) /\ <<b, p>> \notin spoiled) =>
        /\ op[x].pc \in {"fetch", "init"} => store[b][p] = NoSession
        /\ op[x].pc = "encrypt" => store[b][p] = op[x].sess
LoadedInv == \A x \in Op : \A b, p : LoadedOk(x, b, p)

LEMMA LoadedOne ==
    ASSUME FreshInv, LoadedInv, NEW o \in Op, OneOp(o), spoiled \subseteq spoiled',
           \A i \in DOMAIN sent : sent'[i] = sent[i],
           \A b \in Browser, p \in User : store'[b][p] = store[b][p] \/ Loaded(o, b, p),
           \A b, p : LoadedOk(o, b, p)'
    PROVE  LoadedInv'
<1> SUFFICES ASSUME NEW x \in Op \ {o}, NEW b, NEW p, Loaded(x, b, p)', <<b, p>> \notin spoiled'
             PROVE  /\ op'[x].pc \in {"fetch", "init"} => store'[b][p] = NoSession
                    /\ op'[x].pc = "encrypt" => store'[b][p] = op'[x].sess
  BY DEF LoadedInv, LoadedOk, NoSession
<1> USE DEF FreshInv
<1>1. Loaded(x, b, p) /\ op'[x] = op[x] /\ <<b, p>> \notin spoiled  BY OthersHold DEF OneOp
<1>2. b \in Browser /\ p \in User  BY <1>1, LoadedIs
<1>3. CASE op[x].pc = "keep"  BY <1>1, <1>3
<1>4. CASE store'[b][p] = store[b][p]  BY <1>1, <1>4 DEF LoadedInv, LoadedOk
<1>5. CASE Loaded(o, b, p) /\ op[x].pc # "keep"  BY <1>1, <1>5 DEF ExclusiveInv, OpAt
<1> QED  BY <1>2, <1>3, <1>4, <1>5

LEMMA LoadedStep ==
    ASSUME FreshInv, LoadedInv, SessionStep  PROVE LoadedInv'
<1> USE DEF FreshInv
<1>1. spoiled \subseteq spoiled' /\ \A i \in DOMAIN sent : sent'[i] = sent[i]  BY SpoiledGrows, SentStays
<1>2. ASSUME NEW o \in Op, OneOp(o), op'[o].pc \notin {"fetch", "init", "encrypt"},
             UNCHANGED store \/ \E d, q, s : /\ d \in Browser /\ q \in User /\ Loaded(o, d, q)
                                             /\ store' = [store EXCEPT ![d][q] = s]
      PROVE  LoadedInv'
  <2>1. \A b, p : LoadedOk(o, b, p)'  BY <1>2 DEF LoadedOk
  <2>2. \A b \in Browser, p \in User : store'[b][p] = store[b][p] \/ Loaded(o, b, p)
    BY <1>2 DEF MessagesInv, SessionsInv, StoreInv
  <2> QED  BY <1>1, <1>2, <2>1, <2>2, LoadedOne
<1>3. ASSUME NEW o \in Op,
             \/ \E b \in Browser : SendGroupMessage(o, b) \/ \E p \in User : SendMessage(o, b, p)
             \/ GetGroup(o) \/ SkipMyself(o) \/ EmitLost(o) \/ \E c \in Call : Deliver(o, c)
      PROVE  LoadedInv'
  BY <1>2, <1>3, OutIs DEF LoadPc
<1>4. ASSUME NEW o \in Op, Emit(o)  PROVE LoadedInv'
  <2>1. UNCHANGED store /\ End(o)  BY <1>4 DEF Emit
  <2> QED  BY <1>2, <2>1, EndIsOne
<1>5. ASSUME NEW o \in Op, KeepMessage(o)  PROVE LoadedInv'
  <2>1. PICK d, q : KeepDoes(o, d, q)  BY <1>5, KeepKept
  <2>2. Loaded(o, d, q)  BY <2>1 DEF KeepDoes, Loaded, OpAt
  <2> QED  BY <1>2, <2>1, <2>2, EndIsOne DEF KeepDoes
<1>6. ASSUME NEW o \in Op, OpenMessage(o)  PROVE LoadedInv'
  <2>1. UNCHANGED store  BY <1>6 DEF OpenMessage
  <2>2. PICK d, q : OpenDoes(o, d, q)  BY <1>6, OpenKept
  <2> QED  BY <1>2, <2>1, <2>2 DEF OpenDoes
<1>7. ASSUME NEW o \in Op, Encrypt(o)  PROVE LoadedInv'
  <2>1. PICK d, q, s : EncryptDoes(o, d, q, s)  BY <1>7, EncryptKept
  <2>2. Loaded(o, d, q)  BY <2>1 DEF EncryptDoes, Loaded, OpAt
  <2> QED  BY <1>2, <2>1, <2>2 DEF EncryptDoes
<1>8. ASSUME NEW o \in Op, FetchPrekey(o)  PROVE LoadedInv'
  <2>1. UNCHANGED store  BY <1>8 DEF FetchPrekey
  <2>2. CASE End(o)  BY <1>2, <2>1, <2>2, EndIsOne
  <2>3. ASSUME NEW d, NEW q, NEW s, FetchDoes(o, d, q, s)  PROVE LoadedInv'
    <3>1. ASSUME NEW b, NEW p  PROVE LoadedOk(o, b, p)'
      <4>1. Loaded(o, b, p)' => Loaded(o, b, p)  BY <2>3 DEF FetchDoes, Loaded, OpAt
      <4>2. op[o].pc = "fetch" /\ op'[o].pc = "init"  BY <2>3 DEF FetchDoes
      <4>3. LoadedOk(o, b, p)  BY DEF LoadedInv
      <4> QED  BY <1>1, <2>1, <4>1, <4>2, <4>3 DEF LoadedOk, NoSession
    <3>2. OneOp(o)  BY <2>3 DEF FetchDoes
    <3> QED  BY <1>1, <2>1, <3>1, <3>2, LoadedOne
  <2> QED  BY <1>8, <2>2, <2>3, FetchIs
<1>9. ASSUME NEW o \in Op, Load(o)  PROVE LoadedInv'
  <2>1. PICK d, q : LoadDoes(o, d, q)  BY <1>9, LoadIs
  <2>2. ASSUME NEW b, NEW p  PROVE LoadedOk(o, b, p)'
    <3>1. Loaded(o, b, p)' => b = d /\ p = q /\ op'[o].pc \in {"fetch", "encrypt"}
      BY <2>1 DEF LoadDoes, Loaded, LoadPc, OpAt
    <3>2. store' = store  BY <2>1 DEF LoadDoes
    <3>3. op'[o].pc = "fetch" => store[d][q] = NoSession  BY <2>1 DEF LoadDoes
    <3>4. op'[o].pc = "encrypt" => store[d][q] = op'[o].sess  BY <2>1 DEF LoadDoes, HoldPc
    <3> QED  BY <3>1, <3>2, <3>3, <3>4 DEF LoadedOk, NoSession
  <2>3. OneOp(o) /\ UNCHANGED store  BY <2>1 DEF LoadDoes
  <2> QED  BY <1>1, <2>2, <2>3, LoadedOne
<1>10. ASSUME NEW o \in Op, SaveNewSession(o)  PROVE LoadedInv'
  <2>1. PICK d, q, s : SaveNewDoes(o, d, q, s)  BY <1>10, SaveNewIs
  <2>2. Loaded(o, d, q)  BY <2>1 DEF SaveNewDoes, Loaded, OpAt
  <2>3. store'[d][q] = s  BY <2>1 DEF SaveNewDoes, MessagesInv, SessionsInv, StoreInv
  <2>4. ASSUME NEW b, NEW p  PROVE LoadedOk(o, b, p)'
    <3>1. Loaded(o, b, p)' => b = d /\ p = q  BY <2>1 DEF SaveNewDoes, Loaded, OpAt
    <3>2. op'[o].pc = "encrypt" /\ op'[o].sess = s  BY <2>1 DEF SaveNewDoes
    <3> QED  BY <2>3, <3>1, <3>2 DEF LoadedOk
  <2>5. \A b \in Browser, p \in User : store'[b][p] = store[b][p] \/ Loaded(o, b, p)
    BY <2>1, <2>2 DEF SaveNewDoes, MessagesInv, SessionsInv, StoreInv
  <2>6. OneOp(o)  BY <2>1 DEF SaveNewDoes
  <2> QED  BY <1>1, <2>4, <2>5, <2>6, LoadedOne
<1>11. CASE UNCHANGED sessionVars \/ (\E b \in Browser : CreateGroup(b)) \/ Forgets \/ \E b \in Browser : ReloadsPage(b)
  <2>1. UNCHANGED <<store, sent, spoiled>>  BY <1>11 DEF sessionVars, CreateGroup, Forgets, ReloadsPage
  <2>2. ASSUME NEW x \in Op
        PROVE  \A b, p : Loaded(x, b, p)' =>
                   /\ Loaded(x, b, p) /\ op'[x].pc = op[x].pc
                   /\ op[x].pc = "encrypt" => op'[x].sess = op[x].sess
    <3>1. CASE op'[x] = op[x]  BY <2>1, <3>1 DEF Loaded, OpAt, To
    <3>2. CASE op'[x] = Idle  BY <3>2 DEF Idle, Loaded
    <3>3. CASE Forgets /\ op[x].pc \in SendPc  BY <2>1, <3>3, ForgetIs DEF Loaded, OpAt, To, SendPc
    <3>4. CASE Forgets /\ op[x].pc \notin SendPc  BY <3>1, <3>4, ForgetIs
    <3> QED  BY <1>11, <3>1, <3>2, <3>3, <3>4 DEF sessionVars, CreateGroup, ReloadsPage
  <2> QED  BY <2>1, <2>2 DEF LoadedInv, LoadedOk, NoSession
<1> QED  BY <1>3, <1>4, <1>5, <1>6, <1>7, <1>8, <1>9, <1>10, <1>11 DEF SessionStep

-----------------------------------------------------------------------------
(* Messages: what is known of every copy and every message *)

\* The handler of i has decrypted it.
Taken(i) == i \in read \cup dropped \/ \E o \in Op : op[o].pc = "keep" /\ op[o].msg = i

LEMMA TakenStays ==
    ASSUME MessagesInv, SessionStep, NEW i, Taken(i)  PROVE Taken(i)'
<1>1. read \subseteq read' /\ dropped \subseteq dropped'
  BY DEF SessionStep, SendGroupMessage, SendMessage, GetGroup, SkipMyself, SaveNewSession, Encrypt, EmitLost,
         Load, FetchPrekey, OpenMessage, KeepMessage, Emit, Deliver, sessionVars, CreateGroup, Forgets, ReloadsPage
<1>2. CASE i \in read \cup dropped  BY <1>1, <1>2 DEF Taken
<1>3. ASSUME NEW x \in Op, op[x].pc = "keep", op[x].msg = i  PROVE Taken(i)'
  <2>1. CASE op'[x] = op[x]  BY <1>3, <2>1 DEF Taken
  <2>2. ASSUME NEW o \in Op, OneOp(o), o = x => op[o].pc # "keep"  PROVE Taken(i)'
    <3>1. x # o  BY <1>3, <2>2
    <3> QED  BY <2>1, <2>2, <3>1 DEF OneOp
  <2>3. ASSUME NEW o \in Op,
               \/ \E b \in Browser : SendGroupMessage(o, b) \/ \E p \in User : SendMessage(o, b, p)
               \/ GetGroup(o) \/ SkipMyself(o) \/ SaveNewSession(o) \/ Encrypt(o) \/ EmitLost(o)
               \/ Load(o) \/ FetchPrekey(o)
        PROVE  Taken(i)'
    <3>1. op[o].pc # "keep"
      BY <2>3 DEF SendGroupMessage, SendMessage, Starts, GetGroup, SkipMyself, SaveNewSession, Encrypt, EmitLost,
                  Load, FetchPrekey, OpAt
    <3>2. OneOp(o)  BY <2>3, SendTurns
    <3> QED  BY <2>2, <3>1, <3>2
  <2>4. ASSUME NEW o \in Op, OpenMessage(o) \/ Emit(o) \/ \E c \in Call : Deliver(o, c)  PROVE Taken(i)'
    <3>1. op[o].pc # "keep"  BY <2>4 DEF OpenMessage, Emit, Deliver, Starts, OpAt
    <3>2. OneOp(o)  BY <2>4, HandleTurns
    <3> QED  BY <2>2, <3>1, <3>2
  <2>5. ASSUME NEW o \in Op, KeepMessage(o)  PROVE Taken(i)'
    <3>1. CASE o = x  BY <1>3, <2>5, <3>1 DEF KeepMessage, Taken
    <3>2. CASE o # x
      <4>1. OneOp(o)  BY <2>5, HandleTurns
      <4> QED  BY <2>2, <3>2, <4>1
    <3> QED  BY <3>1, <3>2
  <2>6. CASE UNCHANGED sessionVars \/ \E b \in Browser : CreateGroup(b)
    BY <2>1, <2>6 DEF sessionVars, CreateGroup
  <2>7. CASE Forgets  BY <1>3, <2>1, <2>7, ForgetIs DEF SendPc
  <2>8. ASSUME NEW b \in Browser, ReloadsPage(b)  PROVE Taken(i)'
    <3>1. CASE x \in TornBy(b)  BY <1>3, <2>8, <3>1 DEF ReloadsPage, Taken
    <3>2. CASE x \notin TornBy(b)  BY <2>1, <2>8, <3>2 DEF ReloadsPage
    <3> QED  BY <3>1, <3>2
  <2> QED  BY <2>3, <2>4, <2>5, <2>6, <2>7, <2>8 DEF SessionStep
<1> QED  BY <1>2, <1>3 DEF Taken

\* A copy is of a browser with an identity, a session nobody has answered is with the browser
\* that offered the prekey, a chain answers one that was read, and what a copy has read was
\* decrypted by a handler.
CopyOk(b, p, x) ==
    /\ \E n \in ident : n.by = b
    /\ x.pre => Name(x.owner, p) \in ident
    /\ x.answers = 0 \/ x.answers \in DOMAIN x.recv
    /\ \A c \in DOMAIN x.recv : \A n \in x.recv[c] :
           \E i \in DOMAIN sent : sent[i].chain = c /\ sent[i].n = n /\ Taken(i)
CopyInv == \A b \in Browser, p \in User : \A x : CopyIs(b, p, x) => CopyOk(b, p, x)

\* What was said of a session was said by who keeps it.
SaidInv ==
    \A b \in Browser, p \in User : \A f : MessageIs(b, p, f) =>
        Keeps(b, p) /\ (f.pre => Name(f.owner, p) \in ident)

\* Who has read a message keeps the session with its sender.
ReadersInv == \A i \in read : \E n \in ident : n.user = sent[i].to /\ n.by \in Browser /\ Keeps(n.by, sent[i].from)

LEMMA CopyOkStays ==
    ASSUME PeopleInv, AccountStep, SessionStep, NEW b, NEW p, NEW x, CopyOk(b, p, x)  PROVE CopyOk(b, p, x)'
<1> USE DEF PeopleInv
<1>1. ident \subseteq ident'  BY IdentGrows DEF PrekeyInv
<1>2. \A i \in DOMAIN sent : i \in DOMAIN sent' /\ sent'[i] = sent[i]  BY SentStays
<1>3. \A i : Taken(i) => Taken(i)'  BY TakenStays
<1>4. ASSUME NEW c \in DOMAIN x.recv, NEW n \in x.recv[c]
      PROVE  \E i \in DOMAIN sent' : sent'[i].chain = c /\ sent'[i].n = n /\ Taken(i)'
  <2>1. PICK i \in DOMAIN sent : sent[i].chain = c /\ sent[i].n = n /\ Taken(i)  BY DEF CopyOk
  <2> QED  BY <1>2, <1>3, <2>1
<1> QED  BY <1>1, <1>4 DEF CopyOk, Name

LEMMA FetchedOk ==
    ASSUME PeopleInv, NEW o \in Op, NEW d, NEW q, NEW s, FetchDoes(o, d, q, s)  PROVE CopyOk(d, q, Gist(s))
<1>1. Name(d, op[o].user) \in ident /\ Name(bundle[q].by, q) \in ident
  BY DEF FetchDoes, PeopleInv, WhoInv, SendPc
<1>2. PICK x : x = Gist(s)  OBVIOUS
<1>3. x.owner = bundle[q].by /\ x.answers = 0 /\ x.recv = <<>>  BY <1>2 DEF FetchDoes, NewSession, Gist
<1>4. DOMAIN x.recv = {}  BY <1>3
<1>5. \E n \in ident : n.by = d  BY <1>1 DEF Name
<1>6. CopyOk(d, q, x)  BY <1>1, <1>3, <1>4, <1>5 DEF CopyOk
<1> QED  BY <1>2, <1>6

LEMMA OpenedOk ==
    ASSUME PeopleInv, CopyInv, AccountStep, SessionStep,
           NEW o \in Op, NEW d, NEW q, NEW m, NEW z, OpenReads(o, d, q, m, z)
    PROVE  CopyOk(d, q, z)'
<1> USE DEF PeopleInv
<1>1. ident \subseteq ident'  BY IdentGrows DEF PrekeyInv
<1>2. \E n \in ident' : n.by = d
  <2>1. Name(d, m.to) \in ident  BY DEF OpenReads, WhoInv, HandlePc
  <2> QED  BY <1>1, <2>1 DEF Name
<1>3. PICK i \in DOMAIN sent : sent[i].chain = m.chain /\ sent[i].n = m.n /\ Taken(i)'
  BY DEF OpenReads, Taken
<1>4. i \in DOMAIN sent' /\ sent'[i] = sent[i]  BY <1>3 DEF OpenReads
<1>5. CASE Receives(d, q, m, z) /\ ~z.pre
  <2>1. \A c \in DOMAIN z.recv : c = m.chain /\ z.recv[c] = {m.n}  BY <1>5 DEF Receives
  <2>2. z.answers \in DOMAIN z.recv  BY <1>5 DEF Receives
  <2> QED  BY <1>2, <1>3, <1>4, <1>5, <2>1, <2>2 DEF CopyOk
<1>6. ASSUME Keeps(d, q), NEW y, y = Gist(store[d][q]), Rereads(y, m, z) \/ (Reads(y, m, z) /\ ~z.pre)
      PROVE  CopyOk(d, q, z)'
  <2>1. CopyOk(d, q, y)  BY <1>6 DEF OpenReads, CopyInv, CopyIs
  <2>2. CopyOk(d, q, y)'  BY <2>1, CopyOkStays
  <2>3. \A c \in DOMAIN z.recv : \A n \in z.recv[c] :
            (c = m.chain /\ n = m.n) \/ (c \in DOMAIN y.recv /\ n \in y.recv[c])
    <3>1. CASE Rereads(y, m, z)  BY <3>1 DEF Rereads
    <3>2. CASE Reads(y, m, z)  BY <3>2 DEF Reads
    <3> QED  BY <1>6, <3>1, <3>2
  <2>4. z.answers = 0 \/ z.answers \in DOMAIN z.recv
    <3>1. CASE Rereads(y, m, z)  BY <2>1, <3>1 DEF Rereads, CopyOk
    <3>2. CASE Reads(y, m, z)  BY <3>2 DEF Reads
    <3> QED  BY <1>6, <3>1, <3>2
  <2>5. z.pre => Name(z.owner, q) \in ident'  BY <1>1, <1>6, <2>1 DEF Rereads, CopyOk
  <2> QED  BY <1>2, <1>3, <1>4, <2>2, <2>3, <2>4, <2>5 DEF CopyOk
<1> QED  BY <1>5, <1>6 DEF OpenReads

\* All that is known of sessions, whoever talks to whom.
KnowInv == PeopleInv /\ FreshInv /\ LoadedInv /\ CopyInv /\ SaidInv /\ ReadersInv

LEMMA CopyStep ==
    ASSUME KnowInv, AccountStep, SessionStep  PROVE CopyInv'
<1> USE DEF KnowInv
<1>1. MessagesInv  BY DEF FreshInv
<1>2. ASSUME NEW b \in Browser, NEW p \in User, NEW x, CopyIs(b, p, x)'
      PROVE  CopyOk(b, p, x)'
  <2>1. CASE CopyIs(b, p, x)
    <3>1. CopyOk(b, p, x)  BY <2>1 DEF CopyInv
    <3> QED  BY <3>1, CopyOkStays
  <2>2. CASE AllCalm  BY <1>2, <2>1, <2>2 DEF AllCalm, Calm
  <2>3. ASSUME NEW o \in Op, NEW d, NEW q, NEW s, EncryptDoes(o, d, q, s) /\ UNCHANGED sent
        PROVE  CopyOk(b, p, x)'
    <3>1. Told(d, q, Shows(Gist(s)))  BY <1>1, <2>3, EncryptTells
    <3> QED  BY <1>2, <2>1, <3>1 DEF Told
  <2>4. ASSUME NEW o \in Op, NEW d, NEW q, NEW s, FetchDoes(o, d, q, s)  PROVE CopyOk(b, p, x)'
    <3>1. Copied(d, q, Gist(s))  BY <1>1, <2>4, FetchCopies
    <3>2. CopyOk(d, q, Gist(s))  BY <2>4, FetchedOk
    <3>3. PICK z : z = Gist(s)  OBVIOUS
    <3>4. CopyOk(d, q, z)'  BY <3>2, <3>3, CopyOkStays
    <3>5. CopyIs(b, p, x) \/ (b = d /\ p = q /\ x = z)  BY <1>2, <3>1, <3>3 DEF Copied
    <3> QED  BY <2>1, <3>4, <3>5
  <2>5. ASSUME NEW o \in Op, NEW d, NEW q, NEW m, NEW z, OpenReads(o, d, q, m, z)  PROVE CopyOk(b, p, x)'
    <3>1. CopyOk(d, q, z)'  BY <2>5, OpenedOk
    <3>2. CopyIs(b, p, x) \/ (b = d /\ p = q /\ x = z)  BY <1>2, <2>5 DEF OpenReads, Copied
    <3> QED  BY <2>1, <3>1, <3>2
  <2> QED  BY <1>1, <2>2, <2>3, <2>4, <2>5, CopySteps
<1> QED  BY <1>2 DEF CopyInv

LEMMA KeepsStay ==
    ASSUME MessagesInv, SessionStep, NEW b \in Browser, NEW p \in User, Keeps(b, p)  PROVE Keeps(b, p)'
<1>1. CASE AllCalm  BY <1>1 DEF AllCalm, Calm
<1>2. CASE UNCHANGED store  BY <1>2 DEF Keeps, NoSession
<1>3. ASSUME NEW o \in Op, NEW d, NEW q, NEW s, EncryptDoes(o, d, q, s) /\ UNCHANGED sent  PROVE Keeps(b, p)'
  <2>1. Told(d, q, Shows(Gist(s)))  BY <1>3, EncryptTells
  <2> QED  BY <2>1 DEF Told
<1>4. ASSUME NEW o \in Op, NEW d, NEW q, NEW s, FetchDoes(o, d, q, s)  PROVE Keeps(b, p)'
  BY <1>2, <1>4 DEF FetchDoes
<1>5. ASSUME NEW o \in Op, NEW d, NEW q, NEW m, NEW z, OpenReads(o, d, q, m, z)  PROVE Keeps(b, p)'
  BY <1>2, <1>5 DEF OpenReads
<1> QED  BY <1>1, <1>3, <1>4, <1>5, CopySteps

LEMMA SaidStep ==
    ASSUME KnowInv, AccountStep, SessionStep  PROVE SaidInv'
<1> USE DEF KnowInv
<1>1. MessagesInv /\ ident \subseteq ident'  BY IdentGrows DEF FreshInv, PeopleInv, PrekeyInv
<1>2. ASSUME NEW b \in Browser, NEW p \in User, NEW f, MessageIs(b, p, f)'
      PROVE  Keeps(b, p)' /\ (f.pre => Name(f.owner, p) \in ident')
  <2>1. CASE MessageIs(b, p, f)
    <3>1. Keeps(b, p) /\ (f.pre => Name(f.owner, p) \in ident)  BY <2>1 DEF SaidInv
    <3> QED  BY <1>1, <3>1, KeepsStay
  <2>2. CASE AllCalm  BY <1>2, <2>1, <2>2 DEF AllCalm, Calm
  <2>3. ASSUME NEW o \in Op, NEW d, NEW q, NEW s, EncryptDoes(o, d, q, s) /\ UNCHANGED sent
        PROVE  Keeps(b, p)' /\ (f.pre => Name(f.owner, p) \in ident')
    <3>1. Told(d, q, Shows(Gist(s))) /\ Keeps(d, q)' /\ Holder(o, d, q)  BY <1>1, <2>3, EncryptTells
    <3>2. CASE b = d /\ p = q /\ f = Shows(Gist(s))
      <4>1. s = op[o].sess /\ d \in Browser /\ q \in User  BY <2>3 DEF EncryptDoes
      <4>2. CopyIs(d, q, Gist(s))  BY <3>1, <4>1 DEF CopyIs
      <4>3. CopyOk(d, q, Gist(s))  BY <4>1, <4>2 DEF CopyInv
      <4> QED  BY <1>1, <3>1, <3>2, <4>3 DEF CopyOk, Shows
    <3> QED  BY <1>2, <2>1, <3>1, <3>2 DEF Told
  <2>4. ASSUME NEW d, NEW q, NEW z, Copied(d, q, z)
        PROVE  Keeps(b, p)' /\ (f.pre => Name(f.owner, p) \in ident')
    BY <1>2, <2>1, <2>4 DEF Copied
  <2>5. ASSUME NEW o \in Op, NEW d, NEW q, NEW s, FetchDoes(o, d, q, s)
        PROVE  Keeps(b, p)' /\ (f.pre => Name(f.owner, p) \in ident')
    <3>1. Copied(d, q, Gist(s))  BY <1>1, <2>5, FetchCopies
    <3>2. PICK z : z = Gist(s)  OBVIOUS
    <3>3. Copied(d, q, z)  BY <3>1, <3>2
    <3> QED  BY <2>4, <3>3
  <2>6. ASSUME NEW o \in Op, NEW d, NEW q, NEW m, NEW z, OpenReads(o, d, q, m, z)
        PROVE  Keeps(b, p)' /\ (f.pre => Name(f.owner, p) \in ident')
    <3>1. Copied(d, q, z)  BY <2>6 DEF OpenReads
    <3> QED  BY <2>4, <3>1
  <2> QED  BY <1>1, <2>2, <2>3, <2>5, <2>6, CopySteps
<1> QED  BY <1>2 DEF SaidInv

LEMMA ReadersStep ==
    ASSUME KnowInv, AccountStep, SessionStep  PROVE ReadersInv'
<1> USE DEF KnowInv
<1>1. MessagesInv /\ ident \subseteq ident'  BY IdentGrows DEF FreshInv, PeopleInv, PrekeyInv
<1>2. \A i \in DOMAIN sent : i \in DOMAIN sent' /\ sent'[i] = sent[i] /\ sent[i].from \in User
  BY <1>1, SentStays DEF MessagesInv, SessionsInv, PostInv
<1>3. read \subseteq DOMAIN sent  BY <1>1 DEF MessagesInv, SessionsInv, MailInv
<1>4. ASSUME NEW i \in read
      PROVE  \E n \in ident' : n.user = sent'[i].to /\ n.by \in Browser /\ store'[n.by][sent'[i].from] # NoSession
  <2>1. PICK n \in ident : n.user = sent[i].to /\ n.by \in Browser /\ Keeps(n.by, sent[i].from)
    BY DEF ReadersInv
  <2>2. PICK b, p, m : b = n.by /\ m = sent[i] /\ p = m.from  OBVIOUS
  <2>3. Keeps(b, p)'  BY <1>1, <1>2, <1>3, <2>1, <2>2, KeepsStay
  <2>4. sent'[i] = m  BY <1>2, <1>3, <2>2
  <2>5. store'[b][p] # NoSession  BY <2>3 DEF Keeps, NoSession
  <2>6. n \in ident' /\ n.user = sent'[i].to /\ n.by \in Browser /\ store'[n.by][sent'[i].from] # NoSession
    BY <1>1, <2>1, <2>2, <2>4, <2>5
  <2> QED  BY <2>6
<1>5. ASSUME NEW o \in Op, KeepMessage(o)
      PROVE  /\ read' = read \cup {op[o].msg}
             /\ \E n \in ident' : /\ n.user = sent'[op[o].msg].to /\ n.by \in Browser
                                  /\ store'[n.by][sent'[op[o].msg].from] # NoSession
  <2>1. PICK d, q : KeepDoes(o, d, q)  BY <1>1, <1>5, KeepKept
  <2>2. d = op[o].by /\ op[o].pc = "keep" /\ d \in Browser /\ q \in User /\ q = sent[op[o].msg].from
    BY <2>1 DEF KeepDoes
  <2>3. op[o].msg \in DOMAIN sent /\ sent'[op[o].msg] = sent[op[o].msg]
    BY <1>1, <1>2, <2>2, HandlerIs DEF HandlePc
  <2>4. PICK w : w = sent[op[o].msg].to  OBVIOUS
  <2>5. Name(d, w) \in ident  BY <2>2, <2>4 DEF PeopleInv, WhoInv, HandlePc
  <2>6. PICK s : s = op[o].sess  OBVIOUS
  <2>7. IsSession(s)  BY <1>1, <2>2, <2>6 DEF MessagesInv, SessionsInv, OpsInv, IsOp, HoldPc
  <2>8. store'[d][q] = s  BY <1>1, <2>1, <2>2, <2>6 DEF KeepDoes, MessagesInv, SessionsInv, StoreInv
  <2>9. store'[d][q] # NoSession  BY <2>7, <2>8, SessionIs
  <2>10. PICK n \in ident : n.by = d /\ n.user = w  BY <2>5 DEF Name
  <2>11. read' = read \cup {op[o].msg}  BY <1>5 DEF KeepMessage
  <2>12. store'[n.by][sent'[op[o].msg].from] # NoSession  BY <2>2, <2>3, <2>9, <2>10
  <2>13. n \in ident' /\ n.user = sent'[op[o].msg].to /\ n.by \in Browser  BY <1>1, <2>2, <2>3, <2>4, <2>10
  <2> QED  BY <2>11, <2>12, <2>13
<1>6. UNCHANGED read \/ \E o \in Op : KeepMessage(o)
  BY DEF SessionStep, SendGroupMessage, SendMessage, GetGroup, SkipMyself, SaveNewSession, Encrypt, EmitLost,
         Load, FetchPrekey, OpenMessage, Emit, Deliver, sessionVars, CreateGroup, Forgets, ReloadsPage
<1>7. \A i \in read' : \E n \in ident' : n.user = sent'[i].to /\ n.by \in Browser /\ store'[n.by][sent'[i].from] # NoSession
  BY <1>4, <1>5, <1>6
<1> QED  BY <1>7 DEF ReadersInv, Keeps, NoSession

LEMMA KnowStep == KnowInv /\ [Next]_vars => KnowInv'
<1> SUFFICES ASSUME KnowInv, [Next]_vars  PROVE KnowInv'  OBVIOUS
<1>1. AccountStep /\ SessionStep  BY StepIsAccountStep, StepIsSessionStep
<1>2. PeopleInv' /\ FreshInv'  BY PeopleStep, FreshStep DEF KnowInv
<1>3. LoadedInv'  BY <1>1, LoadedStep DEF KnowInv
<1> QED  BY <1>1, <1>2, <1>3, CopyStep, SaidStep, ReadersStep DEF KnowInv

LEMMA KnowStart == Init => KnowInv
<1> SUFFICES ASSUME Init  PROVE KnowInv  OBVIOUS
<1>1. \A o \in Op : op[o].pc = "idle" /\ Pending(o) = <<>>  BY DEF Init, Idle, Pending, SendPc
<1>2. \A b \in Browser, p \in User : ~Keeps(b, p)  BY DEF Init, Keeps
<1>3. \A b \in Browser, p \in User : \A x : ~CopyIs(b, p, x)  BY <1>1, <1>2 DEF CopyIs, Holder, HoldPc
<1>4. \A b, p, f : ~MessageIs(b, p, f)  BY <1>1 DEF Init, MessageIs
<1>5. LoadedInv  BY <1>1 DEF LoadedInv, LoadedOk, Loaded
<1>6. ReadersInv  BY DEF Init, ReadersInv
<1> QED  BY <1>3, <1>4, <1>5, <1>6, PeopleStart, FreshStart DEF KnowInv, CopyInv, SaidInv

-----------------------------------------------------------------------------
(* Prekeys: where they went *)

\* Of the prekeys of an upload, a browser that took one keeps a session with their user, or is
\* about to, and no browser has taken two, unless an exception of PrekeysMatch applies.
Clean(n) == /\ n \in ident \ lacking /\ Alone(n) /\ Sent(n)
            /\ \A b \in Browser : <<b, n.user>> \notin spoiled

Takes(b, p) ==
    \/ store[b][p] # NoSession
    \/ \E o \in Op : op[o].pc = "init" /\ op[o].by = b /\ To(o) = p

Counted(p) ==
    /\ IsFiniteSet(takers[p])
    /\ bundle[p].left + Cardinality(takers[p]) = MaxPrekeys
    /\ \A b \in takers[p] : Takes(b, p)

TakersInv ==
    /\ TakersType
    /\ \A n : Clean(n) => Counted(n.user)

StockInv == PeopleInv /\ FreshInv /\ LoadedInv /\ TakersInv

LEMMA LackingGrows ==
    ASSUME AccountStep  PROVE lacking \subseteq lacking' \/ (lacking' = ident /\ UNCHANGED ident)
<1>1. CASE ServerRestart  BY <1>1 DEF ServerRestart, storeVars
<1>2. CASE ~ServerRestart
  BY <1>2 DEF AccountStep, ConnectStep, Connect, ReadIdentity, StoreIdentity, Proteus, Upload, Register, Challenge,
              SignChallenge, Verify, OpenSocket, SocketConnects, ConnectError, Drop, Disconnect, Reload, PageReloads,
              Aside, historyVars
<1> QED  BY <1>1, <1>2

\* Who has a new session either keeps it next, or is torn and the prekey lost.
LEMMA InitStays ==
    ASSUME MessagesInv, [Next]_vars, NEW o \in Op, OpAt(o, "init")
    PROVE  \/ OpAt(o, "init")' /\ op'[o].by = op[o].by /\ To(o)' = To(o)
           \/ SaveNewSession(o)
           \/ UNCHANGED ident /\ {n \in ident : n.user = To(o)} \subseteq lacking'
<1>1. ASSUME op'[o] = op[o]  PROVE OpAt(o, "init")' /\ op'[o].by = op[o].by /\ To(o)' = To(o)
  BY <1>1 DEF OpAt, To
<1>2. ASSUME NEW x \in Op,
             \/ \E b \in Browser : SendGroupMessage(x, b) \/ \E p \in User : SendMessage(x, b, p)
             \/ GetGroup(x) \/ SkipMyself(x) \/ SaveNewSession(x) \/ Encrypt(x) \/ EmitLost(x)
             \/ Load(x) \/ FetchPrekey(x) \/ OpenMessage(x) \/ KeepMessage(x) \/ Emit(x)
             \/ \E c \in Call : Deliver(x, c)
      PROVE  op'[o] = op[o] \/ SaveNewSession(o)
  <2>1. OneOp(x)  BY <1>2, SendTurns, HandleTurns
  <2>2. CASE x # o  BY <2>1, <2>2 DEF OneOp
  <2>3. CASE x = o
    BY <1>2, <2>3 DEF OpAt, SendGroupMessage, SendMessage, Starts, GetGroup, SkipMyself, Encrypt, EmitLost, Load,
                      FetchPrekey, OpenMessage, KeepMessage, Emit, Deliver
  <2> QED  BY <2>2, <2>3
<1>3. CASE UNCHANGED sessionVars \/ \E b \in Browser : CreateGroup(b)  BY <1>1, <1>3 DEF sessionVars, CreateGroup
<1>4. CASE Forgets  BY <1>4, ForgetIs DEF OpAt, To, SendPc
<1>5. ASSUME NEW b \in Browser,
             Reload(b, {n \in ident : \E x \in TornBy(b) : OpAt(x, "init") /\ n.user = To(x)}),
             op' = [x \in Op |-> IF x \in TornBy(b) THEN Idle ELSE op[x]]
      PROVE  \/ op'[o] = op[o]
             \/ UNCHANGED ident /\ {n \in ident : n.user = To(o)} \subseteq lacking'
  <2>1. CASE o \notin TornBy(b)  BY <1>5, <2>1
  <2>2. CASE o \in TornBy(b)  BY <1>5, <2>2 DEF Reload, storeVars
  <2> QED  BY <2>1, <2>2
<1>6. CASE \E b \in Browser : ReloadsPage(b)
  <2>1. ASSUME ~(\E b \in Browser :
                    /\ Reload(b, {n \in ident : \E x \in TornBy(b) : OpAt(x, "init") /\ n.user = To(x)})
                    /\ op' = [x \in Op |-> IF x \in TornBy(b) THEN Idle ELSE op[x]])
        PROVE  \/ UNCHANGED sessionVars \/ Forgets
               \/ Message
    BY <2>1 DEF Next, Account, Forgets, vars
  <2>2. CASE Message
    BY <1>1, <1>2, <1>3, <2>2 DEF Message, UserSends, OpStep, accountVars
  <2> QED  BY <1>1, <1>3, <1>4, <1>5, <2>1, <2>2
<1> QED  BY <1>1, <1>2, <1>3, <1>4, <1>6, StepIsSessionStep DEF SessionStep

LEMMA TakesStays ==
    ASSUME MessagesInv, [Next]_vars, NEW b \in Browser, NEW p \in User, Takes(b, p)
    PROVE  Takes(b, p)' \/ (UNCHANGED ident /\ {n \in ident : n.user = p} \subseteq lacking')
<1>1. CASE store[b][p] # NoSession
  <2>1. Keeps(b, p)'  BY <1>1, KeepsStay, StepIsSessionStep DEF Keeps
  <2> QED  BY <2>1 DEF Keeps, Takes
<1>2. ASSUME NEW o \in Op, op[o].pc = "init", op[o].by = b, To(o) = p
      PROVE  Takes(b, p)' \/ (UNCHANGED ident /\ {n \in ident : n.user = p} \subseteq lacking')
  <2>1. CASE OpAt(o, "init")' /\ op'[o].by = op[o].by /\ To(o)' = To(o)  BY <1>2, <2>1 DEF Takes, OpAt
  <2>2. CASE SaveNewSession(o)
    <3>1. store'[b][p] = op[o].sess
      BY <1>2, <2>2 DEF SaveNewSession, MessagesInv, SessionsInv, StoreInv
    <3>2. op[o].sess # NoSession
      BY <1>2, SessionIs DEF MessagesInv, SessionsInv, OpsInv, IsOp, HoldPc
    <3> QED  BY <3>1, <3>2 DEF Takes, NoSession
  <2> QED  BY <1>2, <2>1, <2>2, InitStays DEF OpAt
<1> QED  BY <1>1, <1>2 DEF Takes

\* A name that keeps its exceptions away had none before.
LEMMA CleanBefore ==
    ASSUME PeopleInv, [Next]_vars, NEW n, Clean(n)',
           bundle[n.user] # None, bundle[n.user].by = bundle'[n.user].by
    PROVE  Clean(n)
<1>1. AccountStep /\ SessionStep  BY StepIsAccountStep, StepIsSessionStep
<1>2. ident \subseteq ident' /\ n \in Names
  BY <1>1, IdentGrows, AccountsStep DEF PeopleInv, PrekeyInv, AccountsInv, BrowserInv, Clean
<1>3. n = Name(n.by, n.user) /\ n.user \in User  BY <1>2 DEF Names, Name
<1>4. bundle[n.user].by = n.by  BY DEF Clean, Sent
<1>5. n \in ident  BY <1>3, <1>4 DEF PeopleInv, WhoInv
<1>6. n \notin lacking  BY <1>1, <1>5, LackingGrows DEF Clean
<1>7. Alone(n)  BY <1>2 DEF Clean, Alone
<1>8. spoiled \subseteq spoiled'  BY <1>1, SpoiledGrows DEF PeopleInv
<1> QED  BY <1>4, <1>5, <1>6, <1>7, <1>8 DEF Clean, Sent

\* Nothing is taken or given: the count stays.
LEMMA CountStays ==
    ASSUME StockInv, [Next]_vars, NEW n, Clean(n)', Clean(n),
           bundle'[n.user] = bundle[n.user], takers'[n.user] = takers[n.user]
    PROVE  Counted(n.user)'
<1>1. Counted(n.user) /\ takers \in [User -> SUBSET Browser]  BY DEF StockInv, TakersInv, TakersType
<1>2. n.user \in User  BY DEF Clean, StockInv, PeopleInv, PrekeyInv, AccountsInv, BrowserInv, Names
<1>3. ASSUME NEW b \in takers[n.user]  PROVE Takes(b, n.user)'
  <2>1. b \in Browser /\ Takes(b, n.user)  BY <1>1, <1>2 DEF Counted
  <2>2. CASE UNCHANGED ident /\ {m \in ident : m.user = n.user} \subseteq lacking'  BY <2>2 DEF Clean
  <2> QED  BY <1>2, <2>1, <2>2, TakesStays DEF StockInv, PeopleInv
<1>4. PICK all, left : all = takers[n.user] /\ left = bundle[n.user].left  OBVIOUS
<1>5. IsFiniteSet(all) /\ left + Cardinality(all) = MaxPrekeys  BY <1>1, <1>4 DEF Counted
<1>6. takers'[n.user] = all /\ bundle'[n.user].left = left  BY <1>4
<1> QED  BY <1>3, <1>4, <1>5, <1>6 DEF Counted

\* A prekey goes to a browser that had none.
LEMMA CountTaken ==
    ASSUME StockInv, [Next]_vars, NEW o \in Op, FetchPrekey(o), TakenBy(o), NEW n, Clean(n)', n.user = To(o)
    PROVE  Counted(n.user)'
<1> DEFINE p == n.user
           b == op[o].by
<1>0. MessagesInv  BY DEF StockInv, PeopleInv
<1>1. b \in Browser /\ p \in User  BY <1>0, SenderIs DEF TakenBy, OpAt, SendPc
<1>2. /\ bundle[p] # None /\ bundle[p] \in [by : Browser, left : Nat] /\ bundle[p].left > 0
      /\ takers \in [User -> SUBSET Browser]
  BY <1>1 DEF TakenBy, Available, StockInv, PeopleInv, PrekeyInv, AccountsInv, ServerInv, TakersInv, TakersType
<1>3. PICK left : left = bundle[p].left  OBVIOUS
<1>4. left \in Nat /\ bundle'[p].by = bundle[p].by /\ bundle'[p].left = left - 1
  <2>1. PICK entry : entry = bundle[p]  OBVIOUS
  <2>2. entry \in [by : Browser, left : Nat]  BY <1>2, <2>1
  <2>3. bundle' = [bundle EXCEPT ![p] = [entry EXCEPT !.left = @ - 1]]  BY <2>1 DEF TakenBy
  <2>4. bundle'[p] = [entry EXCEPT !.left = @ - 1]
    BY <1>1, <2>3 DEF StockInv, PeopleInv, PrekeyInv, AccountsInv, ServerInv
  <2> QED  BY <1>3, <2>1, <2>2, <2>4
<1>5. Clean(n)  BY <1>2, <1>4, CleanBefore DEF StockInv
<1>6. Counted(p)  BY <1>5 DEF StockInv, TakersInv
<1>7. OpAt(o, "init")'  BY <1>5 DEF TakenBy, Clean
<1>8. PICK d, q, s : FetchDoes(o, d, q, s)
  <2>1. ~End(o)  BY <1>0, <1>7, EndIsOne DEF OpAt, Idle
  <2> QED  BY <1>0, <2>1, FetchIs
<1>9. /\ d = b /\ q = p /\ UNCHANGED <<store, sent>> /\ op[o].pc = "fetch"
      /\ op'[o].pc = "init" /\ op'[o].by = b /\ To(o)' = p
  BY <1>8 DEF FetchDoes
<1>10. Loaded(o, b, p)  BY <1>9 DEF Loaded, OpAt
<1>11. <<b, p>> \notin spoiled  BY <1>1, <1>5 DEF Clean
<1>12. b \notin takers[p]
  <2> SUFFICES ASSUME Takes(b, p)  PROVE FALSE  BY <1>6 DEF Counted
  <2>1. store[b][p] = NoSession  BY <1>9, <1>10, <1>11 DEF StockInv, LoadedInv, LoadedOk
  <2>2. PICK x \in Op : op[x].pc = "init" /\ op[x].by = b /\ To(x) = p  BY <2>1 DEF Takes
  <2>3. Loaded(x, b, p) /\ x # o  BY <1>9, <2>2 DEF Loaded, OpAt
  <2> QED  BY <1>9, <1>10, <1>11, <2>3 DEF StockInv, FreshInv, ExclusiveInv, OpAt
<1>13. PICK all : all = takers[p]  OBVIOUS
<1>14. takers'[p] = all \cup {b}  BY <1>1, <1>2, <1>13 DEF TakenBy
<1>15. IsFiniteSet(all) /\ left + Cardinality(all) = MaxPrekeys /\ b \notin all
  BY <1>3, <1>6, <1>12, <1>13 DEF Counted
<1>16. IsFiniteSet(all \cup {b}) /\ Cardinality(all \cup {b}) = Cardinality(all) + 1 /\ Cardinality(all) \in Nat
  BY <1>15, FS_AddElement, FS_CardinalityType
<1>17. left - 1 + Cardinality(all \cup {b}) = MaxPrekeys  BY <1>4, <1>15, <1>16, WebAssumption
<1>18. ASSUME NEW e \in all  PROVE Takes(e, p)'
  <2>1. e \in Browser /\ Takes(e, p)  BY <1>1, <1>2, <1>6, <1>13, <1>18 DEF Counted
  <2>2. CASE UNCHANGED ident /\ {m \in ident : m.user = p} \subseteq lacking'  BY <1>5, <2>2 DEF Clean
  <2> QED  BY <1>0, <1>1, <2>1, <2>2, TakesStays
<1>19. ASSUME NEW e, e = b  PROVE Takes(e, p)'
  <2>1. op'[o].pc = "init" /\ op'[o].by = e /\ To(o)' = p  BY <1>9, <1>19
  <2> QED  BY <2>1 DEF Takes
<1>20. \A e \in takers'[p] : Takes(e, p)'  BY <1>14, <1>18, <1>19
<1> QED  BY <1>4, <1>14, <1>16, <1>17, <1>20 DEF Counted

LEMMA TakersGo ==
    ASSUME StockInv, [Next]_vars  PROVE TakersInv'
<1>0. MessagesInv  BY DEF StockInv, PeopleInv
<1>1. TakersType'  BY <1>0, TakersStep DEF StockInv, TakersInv
<1> SUFFICES ASSUME NEW n, Clean(n)'  PROVE Counted(n.user)'  BY <1>1 DEF TakersInv
<1>2. AccountStep  BY StepIsAccountStep
<1>3. n \in Names /\ n.user \in User
  BY <1>2, AccountsStep DEF StockInv, PeopleInv, PrekeyInv, AccountsInv, BrowserInv, Clean, Names
<1>4. bundle \in [User -> [by : Browser, left : Nat] \cup {None}] /\ takers \in [User -> SUBSET Browser]
  BY DEF StockInv, PeopleInv, PrekeyInv, AccountsInv, ServerInv, TakersInv, TakersType
<1>a. ASSUME bundle'[n.user] = bundle[n.user], takers'[n.user] = takers[n.user]  PROVE Counted(n.user)'
  <2>1. bundle[n.user] # None /\ bundle[n.user].by = bundle'[n.user].by  BY <1>a DEF Clean, Sent
  <2>2. Clean(n)  BY <2>1, CleanBefore DEF StockInv
  <2> QED  BY <1>a, <2>2, CountStays
<1>5. CASE UNCHANGED <<bundle, takers>>  BY <1>5, <1>a
<1>6. ASSUME NEW c \in Call, Uploads(c)  PROVE Counted(n.user)'
  <2>1. CASE n.user # Of(c)  BY <1>3, <1>4, <1>6, <1>a, <2>1 DEF Uploads
  <2>2. CASE n.user = Of(c)
    <3>1. PICK new : new = [by |-> By(c), left |-> MaxPrekeys]  OBVIOUS
    <3>2. bundle'[n.user] = new /\ takers'[n.user] = {}  BY <1>3, <1>4, <1>6, <2>2, <3>1 DEF Uploads
    <3>3. IsFiniteSet({}) /\ Cardinality({}) = 0  BY FS_EmptySet
    <3>4. MaxPrekeys + 0 = MaxPrekeys  BY WebAssumption
    <3> QED  BY <3>1, <3>2, <3>3, <3>4 DEF Counted
  <2> QED  BY <2>1, <2>2
<1>7. ASSUME NEW o \in Op, FetchPrekey(o), TakenBy(o)  PROVE Counted(n.user)'
  <2>1. CASE n.user = To(o)  BY <1>7, <2>1, CountTaken
  <2>2. CASE n.user # To(o)  BY <1>3, <1>4, <1>7, <1>a, <2>2 DEF TakenBy
  <2> QED  BY <2>1, <2>2
<1>8. CASE ServerRestart  BY <1>8 DEF ServerRestart, storeVars, Clean
<1> QED  BY <1>0, <1>5, <1>6, <1>7, <1>8, StockMoves

\* A connected user has prekeys for MaxPrekeys browsers, or they are on their way, and of
\* those no browser takes two, for any browsers, calls and sends (connectTransport, POST
\* /prekeys, ensureSession).
THEOREM PrekeysCorrect == Spec => []PrekeysMatch
<1>1. Init => StockInv
  <2> SUFFICES ASSUME Init  PROVE StockInv  OBVIOUS
  <2>1. KnowInv  BY KnowStart
  <2>2. TakersType /\ \A n : ~Clean(n)  BY DEF Init, AccountsInit, TakersType, Clean
  <2> QED  BY <2>1, <2>2 DEF KnowInv, StockInv, TakersInv
<1>2. StockInv /\ [Next]_vars => StockInv'
  BY TakersGo, PeopleStep, FreshStep, LoadedStep, StepIsSessionStep DEF StockInv
<1>3. StockInv => PrekeysMatch
  <2> SUFFICES ASSUME StockInv, NEW c \in Call, sock[c] = "open", NameOf(c) \notin lacking,
                      \A n \in ident : n.user = Of(c) => n.by = By(c),
                      \A b \in Browser : <<b, Of(c)>> \notin spoiled
               PROVE \/ \E d \in Call : NameOf(d) = NameOf(c) /\ At(d, "upload")
                     \/ /\ bundle[Of(c)] # None /\ bundle[Of(c)].by = By(c)
                        /\ bundle[Of(c)].left + Cardinality(takers[Of(c)]) = MaxPrekeys
    BY DEF PrekeysMatch
  <2>1. PICK n : n = NameOf(c)  OBVIOUS
  <2>2. n.by = By(c) /\ n.user = Of(c)  BY <2>1 DEF NameOf
  <2>3. n \in ident /\ Alone(n)  BY <2>1, <2>2 DEF StockInv, PeopleInv, PrekeyInv, NamedInv, Alone
  <2>4. Sent(n) \/ Sending(n)  BY <2>1, <2>3 DEF StockInv, PeopleInv, PrekeyInv, SentInv
  <2>5. CASE Sending(n)  BY <2>1, <2>5 DEF Sending
  <2>6. CASE Sent(n)
    <3>1. Clean(n)  BY <2>1, <2>2, <2>3, <2>6 DEF Clean
    <3>2. Counted(n.user)  BY <3>1 DEF StockInv, TakersInv
    <3> QED  BY <2>2, <2>6, <3>2 DEF Counted, Sent
  <2> QED  BY <2>4, <2>5, <2>6
<1> QED  BY <1>1, <1>2, <1>3, PTL DEF Spec

-----------------------------------------------------------------------------
(* Messages: the two ends of a session *)

Copies(b, p) ==
    {Gist(s) : s \in (IF Keeps(b, p) THEN {store[b][p]} ELSE {})
                        \cup {op[o].sess : o \in {x \in Op : Holder(x, b, p)}}}
Messages(b, p) ==
    {Face(sent[i]) : i \in {j \in DOMAIN sent : sent[j].by = b /\ sent[j].to = p}}
        \cup UNION {{Face(Pending(o)[k]) : k \in {l \in DOMAIN Pending(o) : /\ Pending(o)[l].by = b
                                                                             /\ Pending(o)[l].to = p}} : o \in Op}

LEMMA CopiesAre ==
    ASSUME NEW b, NEW p
    PROVE  /\ \A x : x \in Copies(b, p) <=> CopyIs(b, p, x)
           /\ \A x : x \in Copies(b, p)' <=> CopyIs(b, p, x)'
<1>1. \A x : x \in Copies(b, p) <=> CopyIs(b, p, x)  BY DEF Copies, CopyIs
<1>2. \A x : x \in Copies(b, p)' <=> CopyIs(b, p, x)'  BY DEF Copies, CopyIs, Gist
<1> QED  BY <1>1, <1>2

LEMMA MessagesAre ==
    ASSUME NEW b, NEW p
    PROVE  /\ \A f : f \in Messages(b, p) <=> MessageIs(b, p, f)
           /\ \A f : f \in Messages(b, p)' <=> MessageIs(b, p, f)'
<1>1. \A f : f \in Messages(b, p) <=> MessageIs(b, p, f)  BY DEF Messages, MessageIs, IsOf
<1>2. \A f : f \in Messages(b, p)' <=> MessageIs(b, p, f)'  BY DEF Messages, MessageIs, IsOf, Face
<1> QED  BY <1>1, <1>2

\* The user u has the browser b, which has no other.
Only(u, b) == \A n \in ident : n.user = u <=> n.by = b

\* A in the browser a and B in the browser d, whose session nothing has spoiled.
Pair(a, A, d, B) ==
    A # B /\ Only(A, a) /\ Only(B, d) /\ <<a, B>> \notin spoiled /\ <<d, A>> \notin spoiled
Heard(a, A, d, B) ==
    Talk(Copies(a, B), Messages(a, B), Keeps(a, B), Copies(d, A), Messages(d, A), Keeps(d, A))
PairInv == \A a, d \in Browser, A, B \in User : Pair(a, A, d, B) => Heard(a, A, d, B)

LEMMA PairTurns ==
    ASSUME NEW a, NEW A, NEW d, NEW B
    PROVE  /\ Pair(a, A, d, B)' => Pair(d, B, a, A)'
           /\ Heard(a, A, d, B) => Heard(d, B, a, A)
           /\ Heard(d, B, a, A)' => Heard(a, A, d, B)'
<1>1. Heard(a, A, d, B) => Heard(d, B, a, A)  BY TalkTurns DEF Heard
<1>2. Heard(d, B, a, A)' => Heard(a, A, d, B)'
  <2>1. Heard(d, B, a, A)' =>
            Talk(Copies(d, A)', Messages(d, A)', Keeps(d, A)', Copies(a, B)', Messages(a, B)', Keeps(a, B)')
    BY DEF Heard
  <2>2. Talk(Copies(a, B)', Messages(a, B)', Keeps(a, B)', Copies(d, A)', Messages(d, A)', Keeps(d, A)') =>
            Heard(a, A, d, B)'
    BY DEF Heard
  <2> QED  BY <2>1, <2>2, TalkTurns
<1> QED  BY <1>1, <1>2 DEF Pair

LEMMA PairBefore ==
    ASSUME KnowInv, AccountStep, SessionStep, NEW a, NEW A, NEW d, NEW B, Pair(a, A, d, B)'
    PROVE  Pair(a, A, d, B)
<1>1. ident \subseteq ident'  BY IdentGrows DEF KnowInv, PeopleInv, PrekeyInv
<1>2. spoiled \subseteq spoiled'  BY SpoiledGrows DEF KnowInv, FreshInv
<1> QED  BY <1>1, <1>2 DEF Pair, Only

LEMMA CalmIs ==
    ASSUME NEW b, NEW p, Calm(b, p)
    PROVE  /\ Copies(b, p)' \subseteq Copies(b, p) /\ Messages(b, p)' \subseteq Messages(b, p)
           /\ Keeps(b, p) => Keeps(b, p)'
BY CopiesAre, MessagesAre DEF Calm

LEMMA PairCalm ==
    ASSUME NEW a, NEW A, NEW d, NEW B, Heard(a, A, d, B), Calm(a, B), Calm(d, A)
    PROVE  Heard(a, A, d, B)'
<1>1. Talk(Copies(a, B)', Messages(a, B)', Keeps(a, B)', Copies(d, A)', Messages(d, A)', Keeps(d, A)')
  BY CalmIs, TalkStays DEF Heard
<1> QED  BY <1>1 DEF Heard

\* A copy or a message of the one is of the browser with the name.
LEMMA PairPeople ==
    ASSUME KnowInv, NEW a \in Browser, NEW A \in User, NEW d \in Browser, NEW B \in User, Pair(a, A, d, B)
    PROVE  /\ \A o \in Op : op[o].pc \in SendPc /\ op[o].by = a => op[o].user = A
           /\ \A o \in Op : op[o].pc \in HandlePc /\ op[o].by = a => sent[op[o].msg].to = A
           /\ \A i \in DOMAIN sent : sent[i].from = A => sent[i].by = a
           /\ Keeps(a, B) => \E n \in ident : n.user = A /\ n.by = a
<1>1. \A u : Name(a, u) \in ident => u = A  BY DEF Pair, Only, Name
<1>2. \A o \in Op : op[o].pc \in SendPc /\ op[o].by = a => op[o].user = A
  BY <1>1 DEF KnowInv, PeopleInv, WhoInv
<1>3. \A o \in Op : op[o].pc \in HandlePc /\ op[o].by = a => sent[op[o].msg].to = A
  BY <1>1 DEF KnowInv, PeopleInv, WhoInv
<1>4. ASSUME NEW i \in DOMAIN sent, sent[i].from = A  PROVE sent[i].by = a
  <2>1. Name(sent[i].by, sent[i].from) \in ident  BY DEF KnowInv, PeopleInv, WhoInv
  <2>2. PICK x : x = sent[i].by  OBVIOUS
  <2>3. Name(x, A) \in ident  BY <1>4, <2>1, <2>2
  <2>4. Name(x, A).by = x /\ Name(x, A).user = A  BY DEF Name
  <2>5. x = a  BY <2>3, <2>4 DEF Pair, Only
  <2> QED  BY <2>2, <2>5
<1>5. ASSUME Keeps(a, B)  PROVE \E n \in ident : n.user = A /\ n.by = a
  <2>1. PICK x : x = Gist(store[a][B])  OBVIOUS
  <2>2. CopyIs(a, B, x)  BY <1>5, <2>1 DEF CopyIs
  <2>3. PICK n \in ident : n.by = a  BY <2>2 DEF KnowInv, CopyInv, CopyOk
  <2>4. n.user = A  BY <2>3 DEF Pair, Only
  <2> QED  BY <2>3, <2>4
<1> QED  BY <1>2, <1>3, <1>4, <1>5

\* An end encrypts.
LEMMA PairEncrypts ==
    ASSUME KnowInv, AccountStep, SessionStep,
           NEW a \in Browser, NEW A \in User, NEW d \in Browser, NEW B \in User, Pair(a, A, d, B)', Heard(a, A, d, B),
           NEW o \in Op, NEW s, EncryptDoes(o, a, B, s), UNCHANGED sent
    PROVE  Heard(a, A, d, B)'
<1>1. MessagesInv /\ Pair(a, A, d, B)  BY PairBefore DEF KnowInv, FreshInv
<1>2. PICK x : x = Gist(s)  OBVIOUS
<1>3. /\ Told(a, B, Shows(x)) /\ Holder(o, a, B) /\ ~Holder(o, a, B)' /\ store'[a][B] = Stepped(s)
  BY <1>1, <1>2, EncryptTells
<1>4. IsSession(s) /\ s = op[o].sess /\ op[o].pc = "encrypt" /\ OneOp(o)  BY DEF EncryptDoes
<1>5. PICK t : t = Stepped(s)  OBVIOUS
<1>6. Gist(t) = x
  <2>1. t = [s EXCEPT !.n = @ + 1]  BY <1>5 DEF Stepped
  <2>2. /\ t.tag = s.tag /\ t.send = s.send /\ t.answers = s.answers /\ t.pre = s.pre /\ t.owner = s.owner
        /\ t.recv = s.recv
    BY <1>4, <2>1 DEF IsSession
  <2> QED  BY <1>2, <2>2 DEF Gist
<1>7. CopyIs(a, B, x)  BY <1>2, <1>3, <1>4 DEF CopyIs
<1>8. x \in Copies(a, B) /\ (x.answers = 0 \/ x.answers \in DOMAIN x.recv)
  BY <1>7, CopiesAre DEF KnowInv, CopyInv, CopyOk
<1>9. Copies(a, B)' \subseteq {x}
  <2>1. ASSUME NEW y \in Op, Holder(y, a, B)'  PROVE FALSE
    <3>1. y # o  BY <1>3, <2>1
    <3>2. Holder(y, a, B)  BY <1>1, <1>4, <2>1, <3>1, OthersCopy
    <3> QED  BY <1>1, <1>3, <1>4, <3>1, <3>2 DEF Pair, KnowInv, FreshInv, ExclusiveInv, Holder, OpAt
  <2>2. \A y : CopyIs(a, B, y)' => y = x  BY <1>3, <1>5, <1>6, <2>1, NextCopy
  <2> QED  BY <2>2, CopiesAre
<1>10. Messages(a, B)' \subseteq Messages(a, B) \cup {Shows(x)}
  <2>1. \A f : MessageIs(a, B, f)' => MessageIs(a, B, f) \/ f = Shows(x)  BY <1>3 DEF Told
  <2> QED  BY <2>1, MessagesAre
<1>11. Keeps(a, B) => Keeps(a, B)'  BY <1>3 DEF Told
<1>12. Calm(d, A)  BY <1>1, <1>3 DEF Told, Calm, Pair
<1>13. Talk({x}, Messages(a, B) \cup {Shows(x)}, Keeps(a, B), Copies(d, A), Messages(d, A), Keeps(d, A))
  BY <1>8, TalkEncrypts DEF Heard
<1>14. Talk(Copies(a, B)', Messages(a, B)', Keeps(a, B)', Copies(d, A)', Messages(d, A)', Keeps(d, A)')
  BY <1>9, <1>10, <1>11, <1>12, <1>13, CalmIs, TalkStays
<1> QED  BY <1>14 DEF Heard

\* An end begins a session: it keeps none, and the other neither has one nor said anything.
LEMMA PairFetches ==
    ASSUME KnowInv, AccountStep, SessionStep,
           NEW a \in Browser, NEW A \in User, NEW d \in Browser, NEW B \in User, Pair(a, A, d, B)',
           NEW o \in Op, NEW s, FetchDoes(o, a, B, s)
    PROVE  Heard(a, A, d, B)'
<1>1. MessagesInv /\ Pair(a, A, d, B) /\ Pair(d, B, a, A)
  <2>1. MessagesInv /\ Pair(a, A, d, B)  BY PairBefore DEF KnowInv, FreshInv
  <2> QED  BY <2>1 DEF Pair
<1>2. Copied(a, B, Gist(s))  BY <1>1, FetchCopies
<1>3. op[o].pc = "fetch" /\ op[o].by = a /\ To(o) = B /\ op[o].user = A /\ Loaded(o, a, B)
  <2>1. op[o].pc = "fetch" /\ op[o].by = a /\ To(o) = B  BY DEF FetchDoes
  <2>2. op[o].user = A  BY <1>1, <2>1, PairPeople DEF SendPc
  <2> QED  BY <2>1, <2>2 DEF Loaded, OpAt
<1>4. ~Crossing(A, B)  BY <1>3 DEF FetchDoes, Spoil, Pair
<1>5. ~Keeps(a, B)  BY <1>1, <1>3 DEF Pair, KnowInv, LoadedInv, LoadedOk, Keeps
<1>6. \A i \in read : ~(sent[i].from = B /\ sent[i].to = A)
  <2> SUFFICES ASSUME NEW i \in read, sent[i].from = B, sent[i].to = A  PROVE FALSE  OBVIOUS
  <2>1. PICK n \in ident : n.user = A /\ n.by \in Browser /\ Keeps(n.by, B)  BY DEF KnowInv, ReadersInv
  <2>2. n.by = a  BY <1>1, <2>1 DEF Pair, Only
  <2> QED  BY <1>5, <2>1, <2>2
<1>7. \A n \in ident : n.user = B => ~Keeps(n.by, A)  BY <1>4, <1>6 DEF Crossing, Keeps
<1>8. \A x \in Op : ~(op[x].pc \in {"init", "encrypt"} /\ op[x].user = B /\ To(x) = A)
  BY <1>4, <1>6 DEF Crossing
<1>9. ~Keeps(d, A)  BY <1>1, <1>7, PairPeople
<1>10. Messages(a, B) = {} /\ Messages(d, A) = {}
  <2>1. \A f : ~MessageIs(a, B, f)  BY <1>5 DEF KnowInv, SaidInv
  <2>2. \A f : ~MessageIs(d, A, f)  BY <1>9 DEF KnowInv, SaidInv
  <2> QED  BY <2>1, <2>2, MessagesAre
<1>11. \A x \in Op : ~Holder(x, d, A)
  <2> SUFFICES ASSUME NEW x \in Op, Holder(x, d, A)  PROVE FALSE  OBVIOUS
  <2>1. op[x].by = d /\ op[x].pc \in HoldPc  BY DEF Holder, Loaded
  <2>2. CASE op[x].pc \in {"init", "encrypt"}
    <3>1. op[x].user = B  BY <1>1, <2>1, <2>2, PairPeople DEF SendPc
    <3>2. To(x) = A  BY <2>2 DEF Holder, Loaded, OpAt
    <3> QED  BY <1>8, <2>2, <3>1, <3>2
  <2>3. CASE op[x].pc = "keep"
    <3>1. PICK i : i = op[x].msg  OBVIOUS
    <3>2. i \in DOMAIN sent /\ sent[i].from = A
      BY <2>3, <3>1 DEF Holder, Loaded, OpAt, MessagesInv, SessionsInv, OpsInv, IsOp, HandlePc, KnowInv, FreshInv
    <3>3. sent[i].to = B  BY <1>1, <2>1, <2>3, <3>1, PairPeople DEF HandlePc
    <3>4. sent[i].by = a  BY <1>1, <3>2, PairPeople
    <3>5. MessageIs(a, B, Face(sent[i]))  BY <3>2, <3>3, <3>4 DEF MessageIs, IsOf
    <3> QED  BY <1>10, <3>5, MessagesAre
  <2> QED  BY <2>1, <2>2, <2>3 DEF HoldPc
<1>12. Copies(d, A) = {}
  <2>1. \A x : ~CopyIs(d, A, x)  BY <1>9, <1>11 DEF CopyIs
  <2> QED  BY <2>1, CopiesAre
<1>13. PICK x : x = Gist(s)  OBVIOUS
<1>14. x.pre
  <2>1. s.pre = TRUE  BY DEF FetchDoes, NewSession
  <2> QED  BY <1>13, <2>1 DEF Gist
<1>15. Copies(a, B)' \subseteq {x}
  <2>1. ASSUME NEW y \in Op, Holder(y, a, B)  PROVE FALSE
    <3>1. y # o  BY <1>3, <2>1 DEF Holder, HoldPc
    <3> QED  BY <1>1, <1>3, <2>1, <3>1 DEF Pair, KnowInv, FreshInv, ExclusiveInv, Holder, OpAt
  <2>2. \A y : ~CopyIs(a, B, y)  BY <1>5, <2>1 DEF CopyIs
  <2>3. \A y : CopyIs(a, B, y)' => y = x  BY <1>2, <1>13, <2>2 DEF Copied
  <2> QED  BY <2>3, CopiesAre
<1>16. Messages(a, B)' = {} /\ Messages(d, A)' = {} /\ Copies(d, A)' = {}
  <2>1. \A f : ~MessageIs(a, B, f) /\ ~MessageIs(d, A, f)  BY <1>10, MessagesAre
  <2>2. \A f : ~MessageIs(a, B, f)' /\ ~MessageIs(d, A, f)'  BY <1>2, <2>1 DEF Copied
  <2>3. \A y : ~CopyIs(d, A, y)  BY <1>12, CopiesAre
  <2>4. \A y : ~CopyIs(d, A, y)'  BY <1>1, <1>2, <2>3 DEF Copied, Pair
  <2> QED  BY <2>2, <2>4, CopiesAre, MessagesAre
<1>17. Talk({x}, {}, Keeps(a, B)', {}, {}, Keeps(d, A)')  BY <1>14, TalkBegins
<1>18. Talk(Copies(a, B)', Messages(a, B)', Keeps(a, B)', Copies(d, A)', Messages(d, A)', Keeps(d, A)')
  BY <1>15, <1>16, <1>17, TalkStays
<1> QED  BY <1>18 DEF Heard

\* The end of B reads a message of A.
LEMMA PairReads ==
    ASSUME KnowInv, AccountStep, SessionStep,
           NEW a \in Browser, NEW A \in User, NEW d \in Browser, NEW B \in User, Pair(a, A, d, B)', Heard(a, A, d, B),
           NEW o \in Op, NEW m, NEW z, OpenReads(o, d, A, m, z)
    PROVE  Heard(a, A, d, B)'
<1>1. MessagesInv /\ Pair(a, A, d, B) /\ Pair(d, B, a, A)
  <2>1. MessagesInv /\ Pair(a, A, d, B)  BY PairBefore DEF KnowInv, FreshInv
  <2> QED  BY <2>1 DEF Pair
<1>2. PICK i : i = op[o].msg  OBVIOUS
<1>3. i \in DOMAIN sent /\ m = sent[i] /\ m.from = A /\ op[o].by = d /\ op[o].pc = "open"
  BY <1>2 DEF OpenReads
<1>4. m.by = a /\ m.to = B /\ OnChain(m)
  <2>1. sent[i].to = B  BY <1>1, <1>2, <1>3, PairPeople DEF HandlePc
  <2>2. sent[i].by = a  BY <1>1, <1>3, PairPeople
  <2> QED  BY <1>1, <1>3, <2>1, <2>2 DEF MessagesInv, SessionsInv, PostInv
<1>5. PICK f : f = Face(m)  OBVIOUS
<1>6. f.tag = m.tag /\ f.chain = m.chain /\ f.answers = m.answers /\ f.pre = m.pre  BY <1>5 DEF Face
<1>7. MessageIs(a, B, f)  BY <1>3, <1>4, <1>5 DEF MessageIs, IsOf
<1>8. f \in Messages(a, B) /\ Keeps(a, B)  BY <1>7, MessagesAre DEF KnowInv, SaidInv
<1>9. m.chain # 0  BY <1>1, <1>4 DEF OnChain, Chain, MessagesInv, SessionsInv, SpoiledInv
<1>10. ASSUME Receives(d, A, m, z)
       PROVE  Talk(Copies(a, B), Messages(a, B), Keeps(a, B), Gains(Copies(d, A), z), Messages(d, A), Keeps(d, A))
  <2>1. ~Keeps(d, A) /\ z.tag = f.tag /\ z.answers = f.chain /\ DOMAIN z.recv = {f.chain}
    BY <1>6, <1>10 DEF Receives
  <2>2. Messages(d, A) = {}
    <3>1. \A g : ~MessageIs(d, A, g)  BY <2>1 DEF KnowInv, SaidInv
    <3> QED  BY <3>1, MessagesAre
  <2>3. \A g \in Messages(a, B) : g.pre => g.chain = g.tag
    <3>1. ASSUME NEW e, OnChain(e), NEW g, g = Face(e), g.pre  PROVE g.chain = g.tag
      BY <3>1 DEF OnChain, Face
    <3>2. ASSUME NEW g, MessageIs(a, B, g), g.pre  PROVE g.chain = g.tag
      <4>1. CASE \E j \in DOMAIN sent : IsOf(sent[j], a, B, g)
        BY <1>1, <3>1, <3>2, <4>1 DEF IsOf, MessagesInv, SessionsInv, PostInv
      <4>2. CASE \E x \in Op : \E k \in DOMAIN Pending(x) : IsOf(Pending(x)[k], a, B, g)
        BY <1>1, <3>1, <3>2, <4>2 DEF IsOf, MessagesInv, SessionsInv, OpsInv, IsOp, Pending
      <4> QED  BY <3>2, <4>1, <4>2 DEF MessageIs
    <3> QED  BY <3>2, MessagesAre
  <2>4. \A x \in Copies(a, B) : x.pre => x.send = x.tag
    <3>1. ASSUME NEW s, IsSession(s), NEW x, x = Gist(s), x.pre  PROVE x.send = x.tag
      BY <3>1 DEF IsSession, Gist
    <3>2. \A x : CopyIs(a, B, x) => \E s : IsSession(s) /\ x = Gist(s)
      BY <1>1 DEF CopyIs, Keeps, Holder, MessagesInv, SessionsInv, StoreInv, OpsInv, IsOp
    <3> QED  BY <3>1, <3>2, CopiesAre
  <2>5. \A g \in Says(Copies(a, B), Messages(a, B)) : g.pre => g.chain = g.tag  BY <2>3, <2>4 DEF Says, Shows
  <2>6. Keeps(a, B) = TRUE /\ Keeps(d, A) = FALSE  BY <1>8, <2>1 DEF Keeps
  <2>7. Talk(Copies(a, B), Messages(a, B), TRUE, Copies(d, A), {}, FALSE)  BY <2>2, <2>6 DEF Heard
  <2>8. Talk(Copies(a, B), Messages(a, B), TRUE, Gains(Copies(d, A), z), {}, FALSE)
    BY <1>8, <2>1, <2>5, <2>7, TalkReceives
  <2> QED  BY <2>2, <2>6, <2>8
<1>11. ASSUME Keeps(d, A), NEW y, y = Gist(store[d][A]), Rereads(y, m, z) \/ Reads(y, m, z)
       PROVE  Talk(Copies(a, B), Messages(a, B), Keeps(a, B), Gains(Copies(d, A), z), Messages(d, A), Keeps(d, A))
  <2>1. y \in Copies(d, A)
    <3>1. CopyIs(d, A, y)  BY <1>11 DEF CopyIs
    <3> QED  BY <3>1, CopiesAre
  <2>2. CASE Rereads(y, m, z)
    <3>1. Shows(z) = Shows(y) /\ z.send = y.send /\ DOMAIN z.recv = DOMAIN y.recv  BY <2>2 DEF Rereads
    <3> QED  BY <2>1, <3>1, TalkRereads DEF Heard
  <2>3. CASE Reads(y, m, z)
    <3>1. /\ f.chain \notin DOMAIN y.recv /\ f.answers = y.send /\ f.chain # 0
          /\ z.tag = y.tag /\ z.answers = f.chain /\ DOMAIN z.recv = DOMAIN y.recv \cup {f.chain}
      BY <1>6, <1>9, <2>3 DEF Reads
    <3>2. Talk(Copies(a, B), Messages(a, B), TRUE, Copies(d, A), Messages(d, A), TRUE)
      BY <1>8, <1>11 DEF Heard
    <3>3. Talk(Copies(a, B), Messages(a, B), TRUE, Gains(Copies(d, A), z), Messages(d, A), TRUE)
      BY <1>8, <2>1, <3>1, <3>2, TalkReads
    <3> QED  BY <1>8, <1>11, <3>3
  <2> QED  BY <1>11, <2>2, <2>3
<1>12. Talk(Copies(a, B), Messages(a, B), Keeps(a, B), Gains(Copies(d, A), z), Messages(d, A), Keeps(d, A))
  BY <1>10, <1>11 DEF OpenReads
<1>13. Copied(d, A, z) /\ UNCHANGED store  BY DEF OpenReads, Copied
<1>14. Copies(d, A)' \subseteq Gains(Copies(d, A), z) /\ Messages(d, A)' \subseteq Messages(d, A)
  <2>1. \A x : CopyIs(d, A, x)' => CopyIs(d, A, x) \/ x = z  BY <1>13 DEF Copied
  <2>2. \A g : MessageIs(d, A, g)' => MessageIs(d, A, g)  BY <1>13 DEF Copied
  <2> QED  BY <2>1, <2>2, CopiesAre, MessagesAre DEF Gains
<1>15. Copies(a, B)' \subseteq Copies(a, B) /\ Messages(a, B)' \subseteq Messages(a, B)
  <2>1. \A x : CopyIs(a, B, x)' => CopyIs(a, B, x)  BY <1>1, <1>13 DEF Copied, Pair
  <2>2. \A g : MessageIs(a, B, g)' => MessageIs(a, B, g)  BY <1>13 DEF Copied
  <2> QED  BY <2>1, <2>2, CopiesAre, MessagesAre
<1>16. (Keeps(a, B) => Keeps(a, B)') /\ (Keeps(d, A) => Keeps(d, A)')  BY <1>13 DEF Keeps, NoSession
<1>17. Talk(Copies(a, B)', Messages(a, B)', Keeps(a, B)', Copies(d, A)', Messages(d, A)', Keeps(d, A)')
  BY <1>12, <1>14, <1>15, <1>16, TalkStays
<1> QED  BY <1>17 DEF Heard

\* A step that makes a copy or a message elsewhere.
LEMMA PairElse ==
    ASSUME NEW d, NEW q, NEW a \in Browser, NEW p \in User, ~(a = d /\ p = q)
    PROVE  /\ \A z : Copied(d, q, z) => Calm(a, p)
           /\ \A g : Told(d, q, g) => Calm(a, p)
<1>1. \A z : Copied(d, q, z) => Calm(a, p)  BY DEF Copied, Calm, Keeps, NoSession
<1>2. \A g : Told(d, q, g) => Calm(a, p)  BY DEF Told, Calm
<1> QED  BY <1>1, <1>2

LEMMA PairStep ==
    ASSUME KnowInv, PairInv, AccountStep, SessionStep  PROVE PairInv'
<1>1. SUFFICES ASSUME NEW a \in Browser, NEW A \in User, NEW d \in Browser, NEW B \in User, Pair(a, A, d, B)'
               PROVE  Heard(a, A, d, B)'
  BY DEF PairInv
<1>2. MessagesInv /\ Pair(a, A, d, B)  BY <1>1, PairBefore DEF KnowInv, FreshInv
<1>3. Heard(a, A, d, B) /\ Heard(d, B, a, A) /\ Pair(d, B, a, A)'  BY <1>1, <1>2, PairTurns DEF PairInv
<1>4. Heard(d, B, a, A)' => Heard(a, A, d, B)'  BY PairTurns
<1>5. CASE AllCalm  BY <1>3, <1>5, PairCalm DEF AllCalm
<1>6. ASSUME NEW x, NEW q, ~(a = x /\ B = q), ~(d = x /\ A = q),
             (\E z : Copied(x, q, z)) \/ (\E g : Told(x, q, g))
      PROVE  Heard(a, A, d, B)'
  <2>1. Calm(a, B) /\ Calm(d, A)  BY <1>6, PairElse
  <2> QED  BY <1>3, <2>1, PairCalm
<1>7. ASSUME NEW o \in Op, NEW x, NEW q, NEW s, EncryptDoes(o, x, q, s), UNCHANGED sent
      PROVE  Heard(a, A, d, B)'
  <2>1. Told(x, q, Shows(Gist(s)))  BY <1>2, <1>7, EncryptTells
  <2>2. CASE a = x /\ B = q  BY <1>1, <1>3, <1>7, <2>2, PairEncrypts
  <2>3. CASE d = x /\ A = q  BY <1>3, <1>4, <1>7, <2>3, PairEncrypts
  <2> QED  BY <1>6, <2>1, <2>2, <2>3
<1>8. ASSUME NEW o \in Op, NEW x, NEW q, NEW s, FetchDoes(o, x, q, s)  PROVE Heard(a, A, d, B)'
  <2>1. Copied(x, q, Gist(s))  BY <1>2, <1>8, FetchCopies
  <2>2. CASE a = x /\ B = q  BY <1>1, <1>8, <2>2, PairFetches
  <2>3. CASE d = x /\ A = q  BY <1>3, <1>4, <1>8, <2>3, PairFetches
  <2> QED  BY <1>6, <2>1, <2>2, <2>3
<1>9. ASSUME NEW o \in Op, NEW x, NEW q, NEW m, NEW z, OpenReads(o, x, q, m, z)  PROVE Heard(a, A, d, B)'
  <2>1. Copied(x, q, z)  BY <1>9 DEF OpenReads
  <2>2. CASE a = x /\ B = q  BY <1>3, <1>4, <1>9, <2>2, PairReads
  <2>3. CASE d = x /\ A = q  BY <1>1, <1>3, <1>9, <2>3, PairReads
  <2> QED  BY <1>6, <2>1, <2>2, <2>3
<1> QED  BY <1>2, <1>5, <1>7, <1>8, <1>9, CopySteps

-----------------------------------------------------------------------------
(* Messages: every message is read *)

ReadInv == KnowInv /\ PairInv /\ EveryMessageRead

\* A message that its handler cannot open though the page speaks for the user it is to.
GoesUnread(o) ==
    /\ op[o].pc = "open" /\ unread' = unread \cup {op[o].msg}
    /\ LET m == sent[op[o].msg]
           b == op[o].by
           s == store[b][m.from]
       IN  Speaks(b, m.to) /\ IF s = NoSession THEN ~Opens(b, m) ELSE localIdentity[b] = None \/ ~Readable(s, m)

LEMMA UnreadIs ==
    ASSUME SessionStep  PROVE UNCHANGED unread \/ \E o \in Op : GoesUnread(o)
<1>1. ASSUME NEW o \in Op, OpenMessage(o)  PROVE UNCHANGED unread \/ GoesUnread(o)
  BY <1>1 DEF OpenMessage, OpAt, GoesUnread
<1>2. ASSUME NEW o \in Op,
             \/ \E b \in Browser : SendGroupMessage(o, b) \/ \E p \in User : SendMessage(o, b, p)
             \/ GetGroup(o) \/ SkipMyself(o) \/ SaveNewSession(o) \/ Encrypt(o) \/ EmitLost(o) \/ Emit(o)
             \/ Load(o) \/ FetchPrekey(o) \/ KeepMessage(o) \/ \E c \in Call : Deliver(o, c)
      PROVE  UNCHANGED unread
  BY <1>2 DEF SendGroupMessage, SendMessage, GetGroup, SkipMyself, SaveNewSession, Encrypt, EmitLost, Emit,
              Load, FetchPrekey, KeepMessage, Deliver
<1>3. CASE \/ UNCHANGED sessionVars \/ \E b \in Browser : CreateGroup(b)
           \/ Forgets \/ \E b \in Browser : ReloadsPage(b)
  BY <1>3 DEF sessionVars, CreateGroup, Forgets, ReloadsPage
<1> QED  BY <1>1, <1>2, <1>3 DEF SessionStep

\* Between two ends that nothing has spoiled, no message fails.
LEMMA NothingFails ==
    ASSUME KnowInv, PairInv, NEW o \in Op, GoesUnread(o), NEW m, m = sent[op[o].msg], NEW d, d = op[o].by
    PROVE  ~Pair(m.by, m.from, d, m.to)
<1> SUFFICES ASSUME Pair(m.by, m.from, d, m.to)  PROVE FALSE  OBVIOUS
<1>1. PICK i, a, A, B : i = op[o].msg /\ a = m.by /\ A = m.from /\ B = m.to  OBVIOUS
<1>2. MessagesInv /\ op[o].pc = "open" /\ IsOp(op[o]) /\ m = sent[i]
  BY <1>1 DEF GoesUnread, KnowInv, FreshInv, MessagesInv, SessionsInv, OpsInv
<1>3. i \in DOMAIN sent /\ d \in Browser /\ m \in EnvelopeType /\ A \in User
  BY <1>1, <1>2 DEF IsOp, HandlePc, MessagesInv, SessionsInv, PostInv
<1>4. a \in Browser /\ B \in User  BY <1>1, <1>3 DEF EnvelopeType
<1>5. Pair(a, A, d, B)  BY <1>1
<1>6. Talk(Copies(a, B), Messages(a, B), Keeps(a, B), Copies(d, A), Messages(d, A), Keeps(d, A))
  BY <1>3, <1>4, <1>5 DEF PairInv, Heard
<1>7. PICK f : f = Face(m)  OBVIOUS
<1>8. MessageIs(a, B, f)  BY <1>1, <1>2, <1>3, <1>7 DEF MessageIs, IsOf
<1>9. f \in Says(Copies(a, B), Messages(a, B))
  <2>1. f \in Messages(a, B)  BY <1>8, MessagesAre
  <2> QED  BY <2>1 DEF Says
<1>10. f.tag = m.tag /\ f.chain = m.chain /\ f.answers = m.answers /\ f.pre = m.pre /\ f.owner = m.owner
  BY <1>7 DEF Face
<1>11. PICK s : s = store[d][A]  OBVIOUS
<1>12. Speaks(d, B) /\ IF s = NoSession THEN ~Opens(d, m) ELSE localIdentity[d] = None \/ ~Readable(s, m)
  BY <1>1, <1>2, <1>11 DEF GoesUnread
<1>13. CASE s = NoSession
  <2>1. ~Keeps(d, A)  BY <1>11, <1>13 DEF Keeps
  <2>2. m.pre  BY <1>6, <1>9, <1>10, <2>1 DEF Talk, Flow
  <2>3. Name(f.owner, B) \in ident  BY <1>4, <1>8, <1>10, <2>2 DEF KnowInv, SaidInv
  <2>4. m.owner = d
    <3>1. Name(f.owner, B).by = f.owner /\ Name(f.owner, B).user = B  BY DEF Name
    <3> QED  BY <1>5, <1>10, <2>3, <3>1 DEF Pair, Only
  <2> QED  BY <1>1, <1>12, <1>13, <2>2, <2>4 DEF Opens
<1>14. CASE s # NoSession
  <2>1. PICK y : y = Gist(s)  OBVIOUS
  <2>2. y.tag = s.tag /\ y.send = s.send /\ y.recv = s.recv  BY <2>1 DEF Gist
  <2>3. CopyIs(d, A, y)  BY <1>11, <1>14, <2>1 DEF CopyIs, Keeps
  <2>4. y \in Copies(d, A) /\ CopyOk(d, A, y)  BY <1>3, <2>3, CopiesAre DEF KnowInv, CopyInv
  <2>5. localIdentity[d] # None
    <3>1. localIdentity[d] = B /\ None \notin User  BY <1>12, WebAssumption DEF Speaks
    <3> QED  BY <1>4, <3>1
  <2>6. m.tag = s.tag
    <3>1. Shows(y) \in Says(Copies(d, A), Messages(d, A)) /\ Shows(y).tag = y.tag  BY <2>4 DEF Says, Shows
    <3>2. f.tag = Shows(y).tag  BY <1>6, <1>9, <3>1 DEF Talk
    <3> QED  BY <1>10, <2>2, <3>1, <3>2
  <2>7. m.chain \in DOMAIN s.recv \/ m.answers = s.send  BY <1>6, <1>9, <1>10, <2>2, <2>4 DEF Talk, Flow
  <2>8. m.chain \in DOMAIN s.recv /\ m.n \in s.recv[m.chain]
    BY <1>12, <1>14, <2>5, <2>6, <2>7 DEF Readable
  <2>9. PICK j \in DOMAIN sent : sent[j].chain = m.chain /\ sent[j].n = m.n /\ Taken(j)
    BY <2>2, <2>4, <2>8 DEF CopyOk
  <2>10. CASE j = i
    <3>1. i \notin read \cup dropped  BY <1>1, <1>2 DEF KnowInv, PeopleInv, HandlerInv, HandlePc, Handled
    <3>2. \A x \in Op : op[x].pc = "keep" => op[x].msg # i
      BY <1>1, <1>2 DEF KnowInv, PeopleInv, HandlerInv, HandlePc
    <3> QED  BY <2>9, <2>10, <3>1, <3>2 DEF Taken
  <2>11. CASE j # i
    <3>1. SameKey(sent[i], sent[j])  BY <1>2, <2>9 DEF SameKey
    <3>2. Burnt(sent[i])  BY <1>3, <2>9, <2>11, <3>1 DEF KnowInv, FreshInv, OnceInv
    <3> QED  BY <1>1, <1>2, <1>5, <3>2 DEF Burnt, Pair
  <2> QED  BY <2>10, <2>11
<1> QED  BY <1>13, <1>14

\* A message that failed is between two ends, unless they share browsers or are spoiled.
LEMMA FailsBetween ==
    ASSUME KnowInv, NEW o \in Op, op[o].pc = "open", NEW m, m = sent[op[o].msg], Plain(m.from), Plain(m.to),
           <<m.by, m.to>> \notin spoiled, \A n \in ident : n.user = m.to => <<n.by, m.from>> \notin spoiled
    PROVE  Pair(m.by, m.from, op[o].by, m.to)
<1>1. PICK i, d : i = op[o].msg /\ d = op[o].by  OBVIOUS
<1>2. MessagesInv /\ IsOp(op[o]) /\ i \in DOMAIN sent /\ m = sent[i]
  BY <1>1 DEF KnowInv, FreshInv, MessagesInv, SessionsInv, OpsInv, IsOp, HandlePc
<1>3. Name(m.by, m.from) \in ident /\ Name(d, m.to) \in ident
  BY <1>1, <1>2 DEF KnowInv, PeopleInv, WhoInv, HandlePc
<1>4. /\ Name(m.by, m.from).by = m.by /\ Name(m.by, m.from).user = m.from
      /\ Name(d, m.to).by = d /\ Name(d, m.to).user = m.to
  BY DEF Name
<1>5. Only(m.from, m.by)
  <2>1. PICK b \in Browser : \A n \in ident : n.user = m.from <=> n.by = b  BY DEF Plain
  <2>2. b = m.by  BY <1>3, <1>4, <2>1
  <2> QED  BY <2>1, <2>2 DEF Only
<1>6. Only(m.to, d)
  <2>1. PICK b \in Browser : \A n \in ident : n.user = m.to <=> n.by = b  BY DEF Plain
  <2>2. b = d  BY <1>3, <1>4, <2>1
  <2> QED  BY <2>1, <2>2 DEF Only
<1>7. m.from # m.to
  <2>1. Relay(i)  BY <1>1 DEF Relay, HandlePc
  <2> QED  BY <1>2, <2>1 DEF KnowInv, PeopleInv, SelfInv
<1> QED  BY <1>1, <1>3, <1>4, <1>5, <1>6, <1>7 DEF Pair

LEMMA ReadStep == ReadInv /\ [Next]_vars => ReadInv'
<1> SUFFICES ASSUME ReadInv, [Next]_vars  PROVE ReadInv'  OBVIOUS
<1> USE DEF ReadInv
<1>1. AccountStep /\ SessionStep  BY StepIsAccountStep, StepIsSessionStep
<1>2. KnowInv' /\ PairInv'  BY <1>1, KnowStep, PairStep
<1>3. MessagesInv /\ ident \subseteq ident' /\ spoiled \subseteq spoiled'
  BY <1>1, IdentGrows, SpoiledGrows DEF KnowInv, PeopleInv, PrekeyInv, FreshInv
<1>4. \A i \in DOMAIN sent : sent'[i] = sent[i]  BY <1>1, <1>3, SentStays
<1>5. \A u : Plain(u)' => Plain(u)  BY <1>3, PlainShrinks
<1>6. SUFFICES ASSUME NEW i \in unread', NEW m, m = sent'[i], Plain(m.from)', Plain(m.to)',
                      <<m.by, m.to>> \notin spoiled',
                      \A n \in ident' : n.user = m.to => <<n.by, m.from>> \notin spoiled'
               PROVE  FALSE
  BY <1>2 DEF EveryMessageRead, Plain
<1>7. CASE i \in unread
  <2>1. i \in DOMAIN sent  BY <1>3, <1>7 DEF MessagesInv, SessionsInv, MailInv
  <2>2. m = sent[i]  BY <1>4, <1>6, <2>1
  <2> QED  BY <1>3, <1>5, <1>6, <1>7, <2>2 DEF EveryMessageRead
<1>8. ASSUME NEW o \in Op, GoesUnread(o), i = op[o].msg  PROVE FALSE
  <2>1. op[o].pc = "open"  BY <1>8 DEF GoesUnread
  <2>2. i \in DOMAIN sent  BY <1>3, <1>8, <2>1 DEF MessagesInv, SessionsInv, OpsInv, IsOp, HandlePc
  <2>3. m = sent[i]  BY <1>4, <1>6, <2>2
  <2>4. Pair(m.by, m.from, op[o].by, m.to)  BY <1>3, <1>5, <1>6, <1>8, <2>1, <2>3, FailsBetween
  <2> QED  BY <1>8, <2>3, <2>4, NothingFails
<1> QED  BY <1>1, <1>7, <1>8, UnreadIs DEF GoesUnread

LEMMA ReadStart == Init => ReadInv
<1> SUFFICES ASSUME Init  PROVE ReadInv  OBVIOUS
<1>1. KnowInv /\ EveryMessageRead  BY KnowStart DEF Init, EveryMessageRead
<1>2. \A o \in Op : op[o].pc = "idle" /\ Pending(o) = <<>>  BY DEF Init, Idle, Pending, SendPc
<1>3. ASSUME NEW b \in Browser, NEW p \in User  PROVE Copies(b, p) = {} /\ Messages(b, p) = {}
  <2>1. \A x : ~CopyIs(b, p, x)  BY <1>2 DEF Init, CopyIs, Keeps, Holder, HoldPc
  <2>2. \A f : ~MessageIs(b, p, f)  BY <1>2 DEF Init, MessageIs
  <2> QED  BY <2>1, <2>2, CopiesAre, MessagesAre
<1>4. \A mine, yours : Talk({}, {}, mine, {}, {}, yours)  BY DEF Talk, Flow, Says
<1> QED  BY <1>1, <1>3, <1>4 DEF ReadInv, PairInv, Heard

\* Every message that reaches its handler is read, whoever of the two wrote first and however
\* messages, reloads, lost connections and restarts fall, unless both began a session at once,
\* a send overlapped another operation on the session, or the two share browsers with other
\* names (ensureSession, message:receive).
THEOREM ReadCorrect == Spec => []EveryMessageRead
<1>1. ReadInv => EveryMessageRead  BY DEF ReadInv
<1> QED  BY <1>1, ReadStart, ReadStep, PTL DEF Spec
=============================================================================
