---------------------------- MODULE WebAccounts ----------------------------
(***************************************************************************)
(* How a web client gets an account, prekeys and a socket: connectTransport *)
(* and disconnectTransport in a browser, the identity it keeps in IndexedDB,*)
(* and the accounts, challenges, sessions and prekeys that the server keeps *)
(* in memory.  A call of connectTransport is one element of Call; what it   *)
(* obtains (challenge, session, socket) is named by the call itself.        *)
(***************************************************************************)
EXTENDS Integers, Sequences, FiniteSets

CONSTANTS
    Browser, User, Call,
    None,          \* no call, no user, no key
    MaxPrekeys,    \* one-time prekeys of an upload (10)
    Scenarios      \* per behaviour: how often each event of Env, and each login, may happen

Env == {"overlap", "fail", "fetch", "drop", "disconnect", "reload", "restart", "send", "group"}

ASSUME WebAssumption ==
    /\ None \notin Browser \cup User \cup Call \cup [by : Browser, n : Nat] \cup [by : Browser, left : Nat]
    /\ MaxPrekeys \in Nat \ {0}
    /\ Scenarios \subseteq [budget : [Env -> Nat], logins : [Browser \X User -> Nat]]

VARIABLES
    users, challenges, sessions, bundle, \* the server
    takers,                             \* history: the browsers that prekeys of the bundle went to
    idb, ident,                          \* the browser's storage
    socket, localUsername, localIdentity, \* the module's variables
    call, sock,                          \* the calls and their sockets
    made, disturbed, twofold, doubled, \* history, see the properties
    lacking,                            \* history: names of which the server lost prekeys, or a
                                        \* call that failed took one
    budget, logins

serverVars  == <<users, challenges, sessions, bundle, takers>>
storeVars   == <<idb, ident, made>>
tabVars     == <<socket, localUsername, localIdentity>>
historyVars == <<disturbed, twofold, doubled, lacking>>
accountVars == <<serverVars, storeVars, tabVars, call, sock, historyVars, budget, logins>>

Key == [by : Browser, n : Nat]
Waiting  == {"crypto", "store", "proteus", "upload", "register", "challenge", "sign", "verify",
             "open", "connecting"}
Names == [by : Browser, user : User]

AccountsTypeOK ==
    /\ users \in [User -> Key \cup {None}]
    /\ challenges \in [User -> Call \cup {None}]
    /\ sessions \subseteq Call
    /\ \A u \in User : bundle[u] = None \/ bundle[u] \in [by : Browser, left : Nat]
    /\ takers \in [User -> SUBSET Browser]
    /\ idb \in [Browser -> Key \cup {None}]
    /\ {ident, lacking} \subseteq SUBSET Names
    /\ socket \in [Browser -> Call \cup {None}]
    /\ {localUsername, localIdentity} \subseteq [Browser -> User \cup {None}]
    /\ \A c \in Call : /\ call[c].pc \in Waiting \cup {"unused", "done", "failed"}
                       /\ sock[c] \in {"none", "connecting", "open", "out", "refused", "closed"}
                       /\ (sock[c] # "none") => call[c].pc \in {"connecting", "done", "failed"}
    /\ made \in [Browser -> Nat]
    /\ disturbed \subseteq Call /\ {twofold, doubled} \subseteq SUBSET Browser

AccountsInit ==
    /\ users = [u \in User |-> None] /\ challenges = [u \in User |-> None]
    /\ sessions = {} /\ bundle = [u \in User |-> None] /\ takers = [u \in User |-> {}]
    /\ idb = [b \in Browser |-> None] /\ ident = {} /\ made = [b \in Browser |-> 0]
    /\ socket = [b \in Browser |-> None]
    /\ localUsername = [b \in Browser |-> None] /\ localIdentity = [b \in Browser |-> None]
    /\ call = [c \in Call |-> [pc |-> "unused", by |-> None, user |-> None, key |-> None]]
    /\ sock = [c \in Call |-> "none"]
    /\ disturbed = {} /\ twofold = {} /\ doubled = {} /\ lacking = {}
    /\ \E s \in Scenarios : budget = s.budget /\ logins = s.logins

Spend(k) == budget[k] > 0 /\ budget' = [budget EXCEPT ![k] = @ - 1]

At(c, pc)   == call[c].pc = pc
Goto(c, pc) == call' = [call EXCEPT ![c].pc = pc]
By(c)       == call[c].by
Of(c)       == call[c].user
NameOf(c)   == [by |-> By(c), user |-> Of(c)]
Unfinished(b) == {c \in Call : By(c) = b /\ call[c].pc \in Waiting}
Live(b) == {c \in Call : By(c) = b /\ sock[c] \in {"connecting", "open", "out"}}
Connected(b) == socket[b] # None /\ sock[socket[b]] = "open"

-----------------------------------------------------------------------------
\* connectTransport, one step between two awaits.
Begin(c, pc, b, u) == call' = [call EXCEPT ![c] = [pc |-> pc, by |-> b, user |-> u, key |-> None]]

\* Which call of the unused ones begins does not matter.
Fresh(c) == At(c, "unused") /\ c = CHOOSE d \in Call : At(d, "unused")

\* Calls of any browsers that run at once are counted.
Overlap ==
    IF \E d \in Call : call[d].pc \in Waiting THEN Spend("overlap") ELSE UNCHANGED budget

Rivals(b, u) == {c \in Call : call[c].pc \in Waiting /\ (By(c) = b \/ Of(c) = u)}

\* Mutant: a connected socket is not looked at.
Connect_Again(c, b, u) ==
    /\ Fresh(c) /\ logins[<<b, u>>] > 0
    /\ logins' = [logins EXCEPT ![<<b, u>>] = @ - 1]
    /\ Overlap
    /\ localUsername' = [localUsername EXCEPT ![b] = u]
    /\ Begin(c, "crypto", b, u)
    /\ disturbed' = disturbed \cup (IF Rivals(b, u) = {} THEN {} ELSE Rivals(b, u) \cup {c})
    /\ doubled' = IF Unfinished(b) = {} THEN doubled ELSE doubled \cup {b}
    /\ UNCHANGED <<serverVars, storeVars, socket, localIdentity, sock, twofold, lacking>>

Connect(c, b, u) ==
    /\ Fresh(c) /\ logins[<<b, u>>] > 0
    /\ logins' = [logins EXCEPT ![<<b, u>>] = @ - 1]
    /\ Overlap
    /\ IF Connected(b)
       THEN Begin(c, "done", b, u) /\ UNCHANGED <<localUsername, disturbed, doubled>>
       ELSE /\ localUsername' = [localUsername EXCEPT ![b] = u]
            /\ Begin(c, "crypto", b, u)
            /\ disturbed' = disturbed \cup (IF Rivals(b, u) = {} THEN {} ELSE Rivals(b, u) \cup {c})
            /\ doubled' = IF Live(b) \cup Unfinished(b) = {} THEN doubled ELSE doubled \cup {b}
    /\ UNCHANGED <<serverVars, storeVars, socket, localIdentity, sock, twofold, lacking>>

Existing(c) == idb[By(c)]

\* getOrCreateIdentity reads the stored identity, or generates one.
ReadIdentity(c) ==
    /\ At(c, "crypto")
    /\ LET b == By(c)
           new == [by |-> b, n |-> made[b] + 1]
       IN  IF Existing(c) # None
           THEN /\ call' = [call EXCEPT ![c].pc = "proteus", ![c].key = Existing(c)]
                /\ UNCHANGED <<made, twofold>>
           ELSE /\ call' = [call EXCEPT ![c].pc = "store", ![c].key = new]
                /\ made' = [made EXCEPT ![b] = @ + 1]
                /\ twofold' = IF \E d \in Call : By(d) = b /\ At(d, "store")
                              THEN twofold \cup {b} ELSE twofold
    /\ UNCHANGED <<serverVars, idb, ident, tabVars, sock, disturbed, doubled, lacking, budget, logins>>

StoreIdentity(c) ==
    /\ At(c, "store")
    /\ idb' = [idb EXCEPT ![By(c)] = call[c].key]
    /\ Goto(c, "proteus")
    /\ UNCHANGED <<serverVars, ident, made, tabVars, sock, historyVars, budget, logins>>

\* Mutant: only a new identity is registered.
Generated_Once(c) == IF NameOf(c) \in ident THEN "challenge" ELSE "upload"

\* The requests to come after the identity: prekeys are sent when they are generated.
Generated(c) == IF NameOf(c) \in ident THEN "register" ELSE "upload"

\* The proteus identity of the user is read from local storage, or generated with its
\* prekeys and stored.
Proteus(c) ==
    /\ At(c, "proteus")
    /\ ident' = ident \cup {NameOf(c)}
    /\ localIdentity' = [localIdentity EXCEPT ![By(c)] = Of(c)]
    /\ Goto(c, Generated(c))
    /\ UNCHANGED <<serverVars, idb, made, socket, localUsername, sock, historyVars, budget, logins>>

\* A request is answered, or fails: it is lost, or its answer is.
Fails(c) == Spend("fail") /\ disturbed' = disturbed \cup {c}
Answered == UNCHANGED <<budget, disturbed>>

\* POST /prekeys; a failure fails the call.
Upload(c) ==
    LET Put == /\ bundle' = [bundle EXCEPT ![Of(c)] = [by |-> By(c), left |-> MaxPrekeys]]
               /\ takers' = [takers EXCEPT ![Of(c)] = {}]
    IN  /\ At(c, "upload")
        /\ \/ Put /\ Goto(c, "register") /\ Answered /\ UNCHANGED lacking
           \/ /\ Put \/ UNCHANGED <<bundle, takers>>
              /\ Goto(c, "failed") /\ Fails(c) /\ lacking' = lacking \cup {NameOf(c)}
        /\ UNCHANGED <<users, challenges, sessions, storeVars, tabVars, sock, twofold, doubled, logins>>

\* Mutant: a registration replaces the one before it.
Register_Replaces(c) ==
    /\ At(c, "register")
    /\ users' = [users EXCEPT ![Of(c)] = call[c].key]
    /\ Goto(c, "challenge") /\ Answered
    /\ UNCHANGED <<challenges, sessions, bundle, takers, storeVars, tabVars, sock, twofold, doubled, lacking, logins>>

\* POST /register; what it answers does not matter to the client.
Register(c) ==
    LET Add == users' = [users EXCEPT ![Of(c)] = IF @ = None THEN call[c].key ELSE @]
    IN  /\ At(c, "register")
        /\ \/ Add /\ Answered
           \/ (Add \/ UNCHANGED users) /\ Fails(c)
        /\ Goto(c, "challenge")
        /\ UNCHANGED <<challenges, sessions, bundle, takers, storeVars, tabVars, sock, twofold, doubled, lacking, logins>>

\* POST /auth/challenge; a new challenge of a user replaces the last.
Challenge(c) ==
    LET Make == challenges' = [challenges EXCEPT ![Of(c)] = c]
    IN  /\ At(c, "challenge")
        /\ \/ users[Of(c)] = None /\ UNCHANGED challenges /\ Goto(c, "failed") /\ Answered
           \/ users[Of(c)] # None /\ Make /\ Goto(c, "sign") /\ Answered
           \/ ((users[Of(c)] # None /\ Make) \/ UNCHANGED challenges) /\ Goto(c, "failed") /\ Fails(c)
        /\ UNCHANGED <<users, sessions, bundle, takers, storeVars, tabVars, sock, twofold, doubled, lacking, logins>>

\* signChallenge reads the stored identity again.
SignChallenge(c) ==
    /\ At(c, "sign")
    /\ call' = [call EXCEPT ![c].pc = "verify", ![c].key = idb[By(c)]]
    /\ UNCHANGED <<serverVars, storeVars, tabVars, sock, historyVars, budget, logins>>

Accepts(c) == users[Of(c)] # None /\ challenges[Of(c)] = c /\ users[Of(c)] = call[c].key

\* POST /auth/verify.
Verify(c) ==
    LET Admit == /\ Accepts(c)
                 /\ challenges' = [challenges EXCEPT ![Of(c)] = None]
                 /\ sessions' = sessions \cup {c}
    IN  /\ At(c, "verify")
        /\ \/ Admit /\ Goto(c, "open") /\ Answered
           \/ ~Accepts(c) /\ UNCHANGED <<challenges, sessions>> /\ Goto(c, "failed") /\ Answered
           \/ (Admit \/ UNCHANGED <<challenges, sessions>>) /\ Goto(c, "failed") /\ Fails(c)
        /\ UNCHANGED <<users, bundle, takers, storeVars, tabVars, sock, twofold, doubled, lacking, logins>>

OpenSocket(c) ==
    /\ At(c, "open")
    /\ socket' = [socket EXCEPT ![By(c)] = c]
    /\ sock' = [sock EXCEPT ![c] = "connecting"]
    /\ Goto(c, "connecting")
    /\ UNCHANGED <<serverVars, storeVars, localUsername, localIdentity, historyVars, budget, logins>>

Settle(c, pc) == IF At(c, "connecting") THEN Goto(c, pc) ELSE UNCHANGED call

\* The server looks the session up; socket.io connects again by itself until it is refused.
SocketConnects(c) ==
    /\ sock[c] \in {"connecting", "out"}
    /\ IF c \in sessions THEN sock' = [sock EXCEPT ![c] = "open"] /\ Settle(c, "done")
                         ELSE sock' = [sock EXCEPT ![c] = "refused"] /\ Settle(c, "failed")
    /\ UNCHANGED <<serverVars, storeVars, tabVars, historyVars, budget, logins>>

\* A first attempt that fails rejects the call; socket.io goes on trying.
ConnectError(c) ==
    /\ At(c, "connecting") /\ sock[c] = "connecting"
    /\ Fails(c) /\ Goto(c, "failed")
    /\ UNCHANGED <<serverVars, storeVars, tabVars, sock, twofold, doubled, lacking, logins>>

ConnectStep(c) ==
    \/ ReadIdentity(c) \/ StoreIdentity(c) \/ Proteus(c) \/ Upload(c) \/ Register(c) \/ Challenge(c)
    \/ SignChallenge(c) \/ Verify(c) \/ OpenSocket(c) \/ SocketConnects(c)

-----------------------------------------------------------------------------
\* disconnectTransport.
Disconnect(b) ==
    /\ Spend("disconnect")
    /\ sock' = [c \in Call |-> IF c = socket[b] THEN "closed" ELSE sock[c]]
    /\ socket' = [socket EXCEPT ![b] = None]
    /\ localUsername' = [localUsername EXCEPT ![b] = None]
    /\ localIdentity' = [localIdentity EXCEPT ![b] = None]
    /\ disturbed' = disturbed \cup Unfinished(b)
    /\ UNCHANGED <<serverVars, storeVars, call, twofold, doubled, lacking, logins>>

\* The page is loaded again; torn are the names of which a call under way holds a prekey.
Reload(b, torn) ==
    /\ Spend("reload")
    /\ sock' = [c \in Call |-> IF c \in Live(b) THEN "closed" ELSE sock[c]]
    /\ socket' = [socket EXCEPT ![b] = None]
    /\ localUsername' = [localUsername EXCEPT ![b] = None]
    /\ localIdentity' = [localIdentity EXCEPT ![b] = None]
    /\ call' = [c \in Call |-> IF c \in Unfinished(b) THEN [call[c] EXCEPT !.pc = "failed"] ELSE call[c]]
    /\ disturbed' = disturbed \cup Unfinished(b)
    /\ lacking' = lacking \cup {NameOf(c) : c \in {d \in Unfinished(b) : At(d, "upload")}} \cup torn
    /\ doubled' = doubled \ {b}
    /\ UNCHANGED <<serverVars, storeVars, twofold, logins>>

Drop(c) ==
    /\ sock[c] = "open" /\ Spend("drop")
    /\ sock' = [sock EXCEPT ![c] = "out"]
    /\ UNCHANGED <<serverVars, storeVars, tabVars, call, historyVars, logins>>

\* The server process restarts: everything it kept in memory is gone.
ServerRestart ==
    /\ Spend("restart")
    /\ users' = [u \in User |-> None] /\ challenges' = [u \in User |-> None]
    /\ sessions' = {} /\ bundle' = [u \in User |-> None] /\ takers' = [u \in User |-> {}]
    /\ sock' = [c \in Call |-> IF sock[c] = "open" THEN "out" ELSE sock[c]]
    /\ disturbed' = disturbed \cup {c \in Call : call[c].pc \in Waiting}
    /\ lacking' = ident
    /\ UNCHANGED <<storeVars, tabVars, call, twofold, doubled, logins>>

-----------------------------------------------------------------------------
\* An account stays with the browser that registered it: the sessions of the name are its
\* own, however many browsers ask for them and in whatever order, and it keeps the key it is
\* registered under, unless two first calls overlapped in it (register, verify,
\* getOrCreateIdentity).
AccountStaysWithOwner ==
    /\ \A c \in sessions : users[Of(c)] # None /\ users[Of(c)].by = By(c)
    /\ \A u \in User : users[u] # None =>
           (users[u].by \in twofold \/ idb[users[u].by] = users[u])

\* The module's variables describe the browser's sockets: after disconnectTransport none is
\* left, and a connected one speaks for the user whose name and identity the module has,
\* unless a call had begun while another was unfinished or a socket was not connected, or a
\* disconnect fell into the call.
TabMatchesSockets ==
    \A b \in Browser \ doubled :
        /\ socket[b] = None => Live(b) = {}
        /\ (Connected(b) /\ socket[b] \notin disturbed) =>
               localUsername[b] = Of(socket[b]) /\ localIdentity[b] = Of(socket[b])

\* A call that is not disturbed ends connected, also when the server has restarted before
\* it, unless the name is registered with a key the browser does not have.
Locked(c) == users[Of(c)] \notin {None, idb[By(c)]}

LoginSucceeds ==
    \A c \in Call :
        At(c, "crypto") ~> (At(c, "done") \/ c \in disturbed \/ (Of(c) # None /\ Locked(c)))
=============================================================================
