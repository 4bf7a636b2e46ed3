------------------------------ MODULE BleMesh ------------------------------
(***************************************************************************)
(* The Bluetooth transport: the SanketlyMesh module in Swift (iPhones) and *)
(* in Kotlin (Android), between the radios and the mesh engine.  A device  *)
(* is central of the peers it has found and peripheral of those that found *)
(* it; frames are cut into chunks that are written (central) or notified   *)
(* (peripheral) without an answer, and put together by link and frame id.  *)
(***************************************************************************)
EXTENDS Integers, Sequences, FiniteSets, Functions

CONSTANTS
    Device,
    ChunkSize,       \* bytes of a frame in a chunk (160)
    AnnounceLength,  \* bytes of an announcement
    DataLength,      \* bytes of any other frame
    Scenarios        \* platforms of the devices and how often each fault may happen, one per behaviour

\* Frames that lose a chunk, connections that break, stops and deaths, frames the application sends.
Faults == {"lost", "cut", "ends", "sent"}

ASSUME BleAssumption ==
    /\ Scenarios \subseteq [platform : [Device -> {"ios", "android"}], most : [Faults -> Nat]]
    /\ {ChunkSize, AnnounceLength, DataLength} \subseteq Nat \ {0}

VARIABLES
    platform, most,
    run,                  \* start has been called, stop has not
    found,                \* peers this scan has reported (iPhones)
    known, tx, subs,      \* gattByLink, txByLink, subscribedCentrals
    frameCounter,
    sending,              \* sendFrame of the application, when nextFrameId has read the counter
    assemblies,           \* chunks by link and frame id
    conn,                 \* state of the connection of a central to a peripheral
    ends,                 \* who has still to hear that a connection is gone
    down, up,             \* what is under way: to the peripheral, to the central
    view, seen,           \* the application: state of each peer, announcements handled
    starts, made, life,   \* history: starts, frames made, times the ids began again
    got, arrived, heard,  \* history: frames delivered, chunks received, links announced on
    spent                 \* faults and frames so far

moduleVars  == <<found, known, tx, subs>>
airVars     == <<conn, ends, down, up>>
appVars     == <<view, seen>>
historyVars == <<starts, life, heard>>
frameVars   == <<frameCounter, sending, made>>
takenVars   == <<assemblies, got, arrived>>
fixed == <<platform, most>>
vars == <<fixed, run, moduleVars, frameVars, takenVars, airVars, appVars, historyVars, spent>>

Pair == {k \in Device \X Device : k[1] # k[2]}      \* <<central, peripheral>>
Peers(d) == Device \ {d}
Other(k, d) == IF d = k[1] THEN k[2] ELSE k[1]
Data == 0                                           \* content of a frame that is no announcement
FrameLength(content) == IF content = Data THEN DataLength ELSE AnnounceLength

-----------------------------------------------------------------------------
(* Frames and chunks *)

\* Mutant: the last, shorter chunk is not counted.
ChunkCount_Floor(length) == length \div ChunkSize

ChunkCount(length) == (length + ChunkSize - 1) \div ChunkSize

\* A chunk carries the header's id, total, index and length and size bytes of the frame; of, n
\* and life are history: the sender, its frames counted, and the times its ids began again.
MakeChunks(d, id, content) ==
    LET length == FrameLength(content) IN
    [i \in 1..ChunkCount(length) |->
        [kind |-> "chunk", id |-> id, total |-> ChunkCount(length), index |-> i - 1, length |-> length,
         size |-> IF i * ChunkSize <= length THEN ChunkSize ELSE length - (i - 1) * ChunkSize,
         content |-> content, of |-> d, n |-> made[d] + 1, life |-> life[d]]]

NextFrameId(counter) == counter + 1

\* Where sendFrame puts a frame for p, given the centrals that are subscribed.
Route(d, p, subscribed) == CASE p \in known[d] \cap tx[d] -> "write"
                             [] p \notin known[d] \cap tx[d] /\ p \in subscribed -> "notify"
                             [] OTHER -> "none"

\* What may get onto the air: a full buffer refuses some chunks and nobody looks at the answer.
OnAir(chunks) ==
    {[i \in DOMAIN pick |-> chunks[pick[i]]] :
        pick \in {f \in UNION {[1..m -> DOMAIN chunks] : m \in 0..Len(chunks)} :
                    \A i, j \in DOMAIN f : i < j => f[i] < f[j]}}

\* d makes a frame for p and hands it to the radio; the counter was read before, as `read`;
\* downs, ups: the queues and conn's state before.
Transmit(d, p, via, content, state, downs, ups, read) ==
    LET chunks == MakeChunks(d, NextFrameId(read), content) IN
    \E onAir \in OnAir(chunks) :
        /\ Len(onAir) # Len(chunks) => spent.lost < most.lost
        /\ spent' = [spent EXCEPT !.lost = @ + IF Len(onAir) = Len(chunks) THEN 0 ELSE 1]
        /\ frameCounter' = [frameCounter EXCEPT ![d] = NextFrameId(read)]
        /\ made' = [made EXCEPT ![d] = @ + 1]
        /\ down' = IF via = "write" /\ state = "ready"
                   THEN [downs EXCEPT ![<<d, p>>] = @ \o onAir] ELSE downs
        /\ up' = IF via = "notify" /\ conn[<<p, d>>] = "ready"
                 THEN [ups EXCEPT ![<<p, d>>] = @ \o onAir] ELSE ups

\* A callback sends the announcement.  A call of the application that has read the counter on
\* another thread will use the id again, and the ids after it.
Announce(d, p, via, state, downs) ==
    /\ Transmit(d, p, via, starts[d], state, downs, up, frameCounter[d])
    /\ life' = IF sending[d] = {} THEN life ELSE [life EXCEPT ![d] = @ + 1]
    /\ UNCHANGED <<sending, starts, heard>>

-----------------------------------------------------------------------------
(* Receiving *)

\* The map f with v under x.
Put(f, x, v) == [y \in DOMAIN f \cup {x} |-> IF y = x THEN v ELSE f[y]]

Parts(d, key) == IF key \in DOMAIN assemblies[d] THEN assemblies[d][key] ELSE <<>>
Added(d, p, chunk) == Put(Parts(d, <<p, chunk.id>>), chunk.index, chunk)
IsWhole(parts, total) == DOMAIN parts = 0..total - 1
SizeOf(parts) == Cardinality(UNION {{i} \X (1..parts[i].size) : i \in DOMAIN parts})

\* consumeChunk gives the frame to the application when all its parts are there and their size is
\* right: the length of the header on Android, at least that length on an iPhone.
CompletesAndroid(parts, chunk) == IsWhole(parts, chunk.total) /\ SizeOf(parts) = chunk.length
CompletesIos(parts, chunk)     == IsWhole(parts, chunk.total) /\ SizeOf(parts) >= chunk.length

\* The parts are forgotten once they are complete, on Android not if they are too long.
ForgetsAndroid(parts, chunk) == IsWhole(parts, chunk.total) /\ SizeOf(parts) <= chunk.length
ForgetsIos(parts, chunk)     == IsWhole(parts, chunk.total)

Completes(d, parts, chunk) == IF platform[d] = "ios" THEN CompletesIos(parts, chunk)
                                                     ELSE CompletesAndroid(parts, chunk)
Forgets(d, parts, chunk)   == IF platform[d] = "ios" THEN ForgetsIos(parts, chunk)
                                                     ELSE ForgetsAndroid(parts, chunk)

\* The engine handles an announcement once, by its packet id; it verifies the link.
Announced(d, p, k, frame) ==
    LET id == <<p, frame[1].content>>
        new == /\ frame[1].content # Data /\ id \notin seen[d]
               /\ \A i \in DOMAIN frame : frame[i].content = frame[1].content
    IN
    /\ seen' = IF new THEN [seen EXCEPT ![d] = @ \cup {id}] ELSE seen
    /\ view' = IF new THEN [view EXCEPT ![d][p] = "verified"] ELSE view
    /\ heard' = IF new THEN heard \cup {<<d, k>>} ELSE heard

ConsumeChunk(d, p, k, chunk) ==
    LET key   == <<p, chunk.id>>
        parts == Added(d, p, chunk)
        frame == [i \in 1..Cardinality(DOMAIN parts) |-> parts[i - 1]]
    IN
    /\ arrived' = [arrived EXCEPT ![d] = @ \cup {chunk}]
    /\ assemblies' = [assemblies EXCEPT ![d] =
                         IF Forgets(d, parts, chunk) THEN Restrict(@, DOMAIN @ \ {key})
                                                     ELSE Put(@, key, parts)]
    /\ IF Completes(d, parts, chunk)
       THEN got' = [got EXCEPT ![d] = @ \cup {frame}] /\ Announced(d, p, k, frame)
       ELSE UNCHANGED <<got, view, seen, heard>>

-----------------------------------------------------------------------------
Init ==
    /\ \E scenario \in Scenarios : platform = scenario.platform /\ most = scenario.most
    /\ run = [d \in Device |-> FALSE]
    /\ frameCounter = [d \in Device |-> 0]
    /\ sending = [d \in Device |-> {}]
    /\ assemblies = [d \in Device |-> <<>>]
    /\ conn = [k \in Pair |-> "out"]
    /\ down = [k \in Pair |-> <<>>] /\ up = down
    /\ view = [d \in Device |-> [p \in Device |-> "none"]]
    /\ starts = frameCounter /\ made = frameCounter /\ life = frameCounter
    /\ found = [d \in Device |-> {}]
    /\ known = found /\ tx = found /\ subs = found
    /\ seen = found /\ got = found /\ arrived = found
    /\ ends = [k \in Pair |-> {}]
    /\ heard = {}
    /\ spent = [f \in Faults |-> 0]

\* Mutant: the frame counter starts again with the transport.
Start_Resets(d) ==
    /\ ~run[d]
    /\ run' = [run EXCEPT ![d] = TRUE]
    /\ starts' = [starts EXCEPT ![d] = @ + 1]
    /\ found' = [found EXCEPT ![d] = {}]
    /\ frameCounter' = [frameCounter EXCEPT ![d] = 0]
    /\ UNCHANGED <<fixed, known, tx, subs, sending, made, takenVars, airVars, appVars, life, heard,
                   spent>>

\* start: a new announcement, the scanner and the advertiser (the radio is on and allowed).
Start(d) ==
    /\ ~run[d]
    /\ run' = [run EXCEPT ![d] = TRUE]
    /\ starts' = [starts EXCEPT ![d] = @ + 1]
    /\ found' = [found EXCEPT ![d] = {}]
    /\ UNCHANGED <<fixed, known, tx, subs, frameVars, takenVars, airVars, appVars, life, heard, spent>>

\* Both ends of an earlier connection must have heard of its end.
Reachable(d, p) == run[d] /\ run[p] /\ conn[<<d, p>>] = "out" /\ ends[<<d, p>>] = {}

\* Mutant: the peer is not registered before the connection is asked for.
Ask_Unregistered(d, p) ==
    /\ conn' = [conn EXCEPT ![<<d, p>>] = "asked"]
    /\ view' = [view EXCEPT ![d][p] = "connecting"]
    /\ UNCHANGED <<fixed, run, known, tx, subs, frameVars, takenVars, ends, down, up, seen, historyVars, spent>>

Ask(d, p) ==
    /\ known' = [known EXCEPT ![d] = @ \cup {p}]
    /\ conn' = [conn EXCEPT ![<<d, p>>] = "asked"]
    /\ view' = [view EXCEPT ![d][p] = "connecting"]
    /\ UNCHANGED <<fixed, run, tx, subs, frameVars, takenVars, ends, down, up, seen, historyVars, spent>>

\* An iPhone hears of a peripheral once per scan.
DidDiscover(d, p) ==
    /\ platform[d] = "ios" /\ Reachable(d, p) /\ p \notin found[d]
    /\ found' = [found EXCEPT ![d] = @ \cup {p}]
    /\ Ask(d, p)

\* Android hears of it again and again and takes it if it has no GATT client for it.
OnScanResult(d, p) ==
    /\ platform[d] = "android" /\ Reachable(d, p) /\ p \notin known[d]
    /\ UNCHANGED found
    /\ Ask(d, p)

Connected(d, p) ==
    /\ conn[<<d, p>>] = "asked" /\ run[p]
    /\ conn' = [conn EXCEPT ![<<d, p>>] = "up"]
    /\ view' = [view EXCEPT ![d][p] = "connected"]
    /\ down' = [down EXCEPT ![<<d, p>>] = Append(@, [kind |-> "connect"])]
    /\ UNCHANGED <<fixed, run, moduleVars, frameVars, takenVars, ends, up, seen, historyVars, spent>>

\* An iPhone waits for the peripheral, Android is told that it is not there.
ConnectFails(d, p) ==
    /\ platform[d] = "android" /\ conn[<<d, p>>] = "asked" /\ ~run[p]
    /\ conn' = [conn EXCEPT ![<<d, p>>] = "out"]
    /\ known' = [known EXCEPT ![d] = @ \ {p}]
    /\ tx' = [tx EXCEPT ![d] = @ \ {p}]
    /\ view' = [view EXCEPT ![d][p] = "unavailable"]
    /\ UNCHANGED <<fixed, run, found, subs, frameVars, takenVars, ends, down, up, seen, historyVars, spent>>

\* Mutant: the announcement is sent before the characteristic is registered.
Discovered_Early(d, p, queues) ==
    /\ conn[<<d, p>>] = "up"
    /\ conn' = [conn EXCEPT ![<<d, p>>] = "ready"]
    /\ tx' = [tx EXCEPT ![d] = @ \cup {p}]
    /\ Announce(d, p, Route(d, p, subs[d]), "ready", queues)
    /\ UNCHANGED <<fixed, run, found, known, subs, takenVars, ends, appVars>>

\* The peripheral's characteristics are known: the central sends its announcement.
Discovered(d, p, queues) ==
    /\ conn[<<d, p>>] = "up"
    /\ conn' = [conn EXCEPT ![<<d, p>>] = "ready"]
    /\ tx' = [tx EXCEPT ![d] = @ \cup {p}]
    /\ Announce(d, p, "write", "ready", queues)
    /\ UNCHANGED <<fixed, run, found, known, subs, takenVars, ends, appVars>>

\* Mutant: an iPhone does not ask the peripheral for its notifications.
DidDiscoverCharacteristics_Mute(d, p) ==
    /\ platform[d] = "ios"
    /\ Discovered(d, p, down)

\* An iPhone subscribes to the peripheral's notifications before that.
DidDiscoverCharacteristics(d, p) ==
    /\ platform[d] = "ios"
    /\ Discovered(d, p, [down EXCEPT ![<<d, p>>] = Append(@, [kind |-> "subscribe"])])

\* Android enables them on its side only: it does not write the peripheral's descriptor.
OnServicesDiscovered(d, p) ==
    /\ platform[d] = "android"
    /\ Discovered(d, p, down)

-----------------------------------------------------------------------------
(* What arrives at a peripheral *)

Next1(k, kind) == down[k] # <<>> /\ Head(down[k]).kind = kind
Taken(k) == [down EXCEPT ![k] = Tail(@)]

\* Android hears of a central that connects, an iPhone does not.
CentralConnected(k) ==
    /\ Next1(k, "connect")
    /\ down' = Taken(k)
    /\ view' = IF platform[k[2]] = "android" THEN [view EXCEPT ![k[2]][k[1]] = "connected"] ELSE view
    /\ UNCHANGED <<fixed, run, moduleVars, frameVars, takenVars, conn, ends, up, seen, historyVars, spent>>

\* An iPhone shows a central that subscribes as connected and notifies its announcement to it.
DidSubscribe(k) ==
    LET d == k[2]  p == k[1] IN
    /\ platform[d] = "ios" /\ Next1(k, "subscribe")
    /\ subs' = [subs EXCEPT ![d] = @ \cup {p}]
    /\ view' = [view EXCEPT ![d][p] = "connected"]
    /\ Announce(d, p, "notify", conn[<<d, p>>], Taken(k))
    /\ UNCHANGED <<fixed, run, found, known, tx, takenVars, conn, ends, seen>>

\* Android sends it by sendFrame, which prefers its own connection to the central.
OnDescriptorWriteRequest(k) ==
    LET d == k[2]  p == k[1]  now == subs[d] \cup {p} IN
    /\ platform[d] = "android" /\ Next1(k, "subscribe")
    /\ subs' = [subs EXCEPT ![d] = now]
    /\ Announce(d, p, Route(d, p, now), conn[<<d, p>>], Taken(k))
    /\ UNCHANGED <<fixed, run, found, known, tx, takenVars, conn, ends, appVars>>

WriteArrives(k) ==
    /\ Next1(k, "chunk")
    /\ down' = Taken(k)
    /\ ConsumeChunk(k[2], k[1], k, Head(down[k]))
    /\ UNCHANGED <<fixed, run, moduleVars, frameVars, conn, ends, up, starts, life, spent>>

NotificationArrives(k) ==
    /\ up[k] # <<>>
    /\ up' = [up EXCEPT ![k] = Tail(@)]
    /\ ConsumeChunk(k[1], k[2], k, Head(up[k]))
    /\ UNCHANGED <<fixed, run, moduleVars, frameVars, conn, ends, down, starts, life, spent>>

\* The application sends a frame to a peer it shows as connected: until nextFrameId has read
\* the counter.
SendFrame(d, p) ==
    /\ spent.sent < most.sent /\ sending[d] = {}
    /\ view[d][p] \in {"connected", "verified"}
    /\ sending' = [sending EXCEPT ![d] = {[to |-> p, read |-> frameCounter[d]]}]
    /\ spent' = [spent EXCEPT !.sent = @ + 1]
    /\ UNCHANGED <<fixed, run, moduleVars, frameCounter, made, takenVars, airVars, appVars, historyVars>>

\* The counter is written, over what callbacks have counted meanwhile, and the frame is sent.
SendNumbered(d) ==
    \E s \in sending[d] :
        /\ Transmit(d, s.to, Route(d, s.to, subs[d]), Data, conn[<<d, s.to>>], down, up, s.read)
        /\ sending' = [sending EXCEPT ![d] = {}]
        /\ UNCHANGED <<fixed, run, moduleVars, takenVars, conn, ends, appVars, historyVars>>

-----------------------------------------------------------------------------
(* The end of connections *)

\* The connections of gone break; owed says who has to hear of it.
Break(gone, owed) ==
    /\ conn' = [k \in Pair |-> IF k \in gone THEN "out" ELSE conn[k]]
    /\ ends' = [k \in Pair |-> owed[k]]
    /\ down' = [k \in Pair |-> IF k \in gone THEN <<>> ELSE down[k]]
    /\ up' = [k \in Pair |-> IF k \in gone THEN <<>> ELSE up[k]]
    /\ heard' = {h \in heard : h[2] \notin gone}

Cut(k) ==
    /\ spent.cut < most.cut
    /\ conn[k] \in {"up", "ready"}
    /\ spent' = [spent EXCEPT !.cut = @ + 1]
    /\ Break({k}, [ends EXCEPT ![k] = {k[1], k[2]}])
    /\ UNCHANGED <<fixed, run, moduleVars, frameVars, takenVars, appVars, starts, life>>

\* The central hears of it; an iPhone keeps the peripheral, and will not hear of it again in this scan.
CentralLosesLink(k) ==
    LET d == k[1]  p == k[2] IN
    /\ d \in ends[k]
    /\ ends' = [ends EXCEPT ![k] = @ \ {d}]
    /\ tx' = [tx EXCEPT ![d] = @ \ {p}]
    /\ known' = IF platform[d] = "android" THEN [known EXCEPT ![d] = @ \ {p}] ELSE known
    /\ view' = [view EXCEPT ![d][p] = "unavailable"]
    /\ UNCHANGED <<fixed, run, found, subs, frameVars, takenVars, conn, down, up, seen, historyVars, spent>>

\* The peripheral hears of it; an iPhone does not tell the application.
PeripheralLosesLink(k) ==
    LET d == k[2]  p == k[1] IN
    /\ d \in ends[k]
    /\ ends' = [ends EXCEPT ![k] = @ \ {d}]
    /\ subs' = [subs EXCEPT ![d] = @ \ {p}]
    /\ view' = IF platform[d] = "android" THEN [view EXCEPT ![d][p] = "unavailable"] ELSE view
    /\ UNCHANGED <<fixed, run, found, known, tx, frameVars, takenVars, conn, down, up, seen, historyVars, spent>>

\* The connections a device takes down when it stops or dies, and those it still asks for.
Own(d) == {k \in Pair : d \in {k[1], k[2]} /\ (conn[k] \in {"up", "ready"} \/ (conn[k] = "asked" /\ d = k[1]))}

\* Who has still to hear when d ends; d itself hears of its connections in heardOf.
Owed(d, heardOf) ==
    [k \in Pair |-> IF d \notin {k[1], k[2]} THEN ends[k]
                    ELSE {e \in {k[1], k[2]} : /\ \/ e \in ends[k]
                                                  \/ k \in Own(d) /\ conn[k] # "asked"
                                               /\ e = d => k \in heardOf}]

\* The links of the transport are forgotten.
Forgotten(d) ==
    /\ known' = [known EXCEPT ![d] = {}]
    /\ tx' = [tx EXCEPT ![d] = {}]
    /\ subs' = [subs EXCEPT ![d] = {}]
    /\ assemblies' = [assemblies EXCEPT ![d] = <<>>]
    /\ arrived' = [arrived EXCEPT ![d] = {}]
    /\ run' = [run EXCEPT ![d] = FALSE]
    /\ view' = [view EXCEPT ![d] = [p \in Device |-> "none"]]
    /\ spent.ends < most.ends
    /\ spent' = [spent EXCEPT !.ends = @ + 1]

\* stop: an iPhone as central still hears that the connections it cancels are gone.
Stop(d) ==
    /\ run[d]
    /\ Forgotten(d)
    /\ Break(Own(d), Owed(d, {k \in Pair : platform[d] = "ios" /\ d = k[1]}))
    /\ UNCHANGED <<fixed, found, frameVars, got, seen, starts, life>>

\* The process dies: the counter and what the engine has seen go with it, a call does too.
Die(d) ==
    /\ run[d]
    /\ Forgotten(d)
    /\ Break(Own(d), Owed(d, {}))
    /\ frameCounter' = [frameCounter EXCEPT ![d] = 0]
    /\ sending' = [sending EXCEPT ![d] = {}]
    /\ seen' = [seen EXCEPT ![d] = {}]
    /\ life' = [life EXCEPT ![d] = @ + 1]
    /\ UNCHANGED <<fixed, found, got, starts, made>>

Callback(k) ==
    \/ Connected(k[1], k[2]) \/ ConnectFails(k[1], k[2])
    \/ DidDiscoverCharacteristics(k[1], k[2]) \/ OnServicesDiscovered(k[1], k[2])
    \/ CentralConnected(k) \/ DidSubscribe(k) \/ OnDescriptorWriteRequest(k)
    \/ CentralLosesLink(k) \/ PeripheralLosesLink(k)

\* What the radios and the systems do by themselves.
Radio ==
    \E k \in Pair :
        \/ DidDiscover(k[1], k[2]) \/ OnScanResult(k[1], k[2])
        \/ Callback(k)
        \/ WriteArrives(k) \/ NotificationArrives(k)

Next ==
    \/ \E d \in Device : \/ Start(d) \/ Stop(d) \/ Die(d) \/ SendNumbered(d)
                         \/ \E p \in Peers(d) : SendFrame(d, p)
    \/ Radio
    \/ \E k \in Pair : Cut(k)

Spec == Init /\ [][Next]_vars

\* A scan finds what advertises, the systems call back, what is on the air arrives: some of it
\* happens as long as there is any (no part of it can go on for ever while another waits).
FairSpec == Spec /\ WF_vars(Radio)

-----------------------------------------------------------------------------
Shown == {"none", "connecting", "connected", "unavailable", "verified"}

\* Every variable has its type, a frame is put together from chunks of the link it is filed under
\* alone, and a central can write only to a peripheral it has found (consumeChunk, sendFrame).
TypeOK ==
    /\ [platform |-> platform, most |-> most] \in Scenarios
    /\ \A f \in Faults : spent[f] \in 0..most[f]
    /\ run \in [Device -> BOOLEAN]
    /\ {found, known, tx, subs} \subseteq [Device -> SUBSET Device]
    /\ frameCounter \in [Device -> Nat] /\ \A d \in Device : frameCounter[d] <= made[d]
    /\ sending \in [Device -> SUBSET [to : Device, read : Nat]]
    /\ conn \in [Pair -> {"out", "asked", "up", "ready"}]
    /\ ends \in [Pair -> SUBSET Device]
    /\ view \in [Device -> [Device -> Shown]]
    /\ \A d \in Device, k \in Pair : conn[k] = "ready" /\ d = k[1] => k[2] \in known[d] \cap tx[d]
    /\ \A d \in Device : \A key \in DOMAIN assemblies[d] : \A i \in DOMAIN assemblies[d][key] :
           LET part == assemblies[d][key][i] IN part.of = key[1] /\ part.id = key[2] /\ part.index = i

\* A frame the application gets is one its peer sent, in order and complete, unless the peer has
\* used its id again in between: after its process had died, or because two threads numbered
\* frames at once (consumeChunk, nextFrameId).
FramesWhole ==
    \A d \in Device : \A f \in got[d] :
        (\A i, j \in DOMAIN f : f[i].life = f[j].life) =>
            /\ Len(f) = f[1].total
            /\ \A i \in DOMAIN f : f[i].n = f[1].n /\ f[i].index = i - 1
            /\ SizeOf(f) = f[1].length

\* A frame of which every chunk has arrived since the receiver started has been delivered, unless
\* chunks of another frame of the sender came under the same id.
CompleteIsDelivered ==
    \A d \in Device : \A c \in arrived[d] :
        LET own == {x \in arrived[d] : x.of = c.of /\ x.id = c.id} IN
        (/\ \A x \in own : x.n = c.n
         /\ {x.index : x \in own} = 0..c.total - 1)
            => \E f \in got[d] : \A i \in DOMAIN f : f[i].of = c.of /\ f[i].n = c.n

\* Whoever has heard an announcement can answer as long as the connection it came by holds: sendFrame
\* finds a way.  Only a central that is an Android device leaves its peripheral without one.
AnswerableLinks ==
    \A h \in heard : LET d == h[1]  k == h[2]  p == Other(k, d) IN
        d = k[1] \/ platform[p] = "ios" => Route(d, p, subs[d]) # "none"

\* Two devices that are in range, lose nothing and use no id twice hear each other's announcement in
\* the end, whoever finds the other first.
Undisturbed == spent.lost = 0 /\ spent.cut = 0 /\ spent.ends = 0 /\ \A d \in Device : life[d] = 0
HeardAtLast ==
    <>[](Undisturbed /\ (\A d \in Device : run[d])
            => \A d \in Device : \A p \in Peers(d) : <<p, starts[p]>> \in seen[d])

\* They also show each other as verified from then on.
VerifiedAtLast ==
    <>[](Undisturbed /\ (\A d \in Device : run[d])
            => \A d \in Device : \A p \in Peers(d) : view[d][p] = "verified")
=============================================================================
