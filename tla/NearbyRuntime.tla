--------------------------- MODULE NearbyRuntime ---------------------------
(***************************************************************************)
(* The Android Nearby runtime: SsaNearbyRuntime, its foreground service,   *)
(* its boot receiver and the Expo module, between a provider that attaches *)
(* and a system that kills and restarts the process.  The module's calls   *)
(* run in order on one thread (call); service intents, Nearby callbacks    *)
(* and task listeners run in order on the main thread (main, out).  The    *)
(* two threads share the fields of the runtime and the preferences.        *)
(***************************************************************************)
EXTENDS Integers, Sequences, FiniteSets

CONSTANTS
    Endpoint,      \* remote devices of Nearby
    NoEndpoint,    \* the endpoint of a message of the system
    MaxPending,    \* events kept for a detached application (100)
    Budgets        \* how often each event of Env may happen, one choice per behaviour

Env == {"open", "swipe", "start", "stop", "kill", "boot", "radio", "fail",
        "appear", "payload", "drop"}

ASSUME NearbyAssumption ==
    /\ NoEndpoint \notin Endpoint
    /\ MaxPending \in Nat \ {0}
    /\ Budgets \subseteq [Env -> Nat]

VARIABLES
    saved, pending,                      \* the preferences: configuration, pendingEvents
    running, adv, disc, discovered,      \* fields of the runtime; adv, disc: started
    sink,                                \* eventSink is set
    service,                             \* the service object exists (lastContext)
    call,                                \* steps the module thread still has to run
    main,                                \* messages for the main thread, in order
    out,                                 \* the event the main thread's handler still emits
    copy,                                \* the list persistEvent has read, if it is under way
    up,                                  \* the system has the service as started
    tasks,                               \* listeners to come, of advertising and discovery
    requests,                            \* connection requests without an answer
    link,                                \* what Nearby knows of an endpoint
    radio,                               \* Bluetooth, Wi-Fi and permissions allow a start
    app, view,                           \* the provider: life cycle, state of each peer
    asked,                               \* the call that ended last
    crossed, failed, raced, late, blind, \* history, see the properties
    masked,                              \* history: endpoints of which discovery spoke last
    emitted, heard, lost,                \* events numbered in the order of their emission
    budget

prefVars    == <<saved, pending>>
runVars     == <<running, adv, disc, discovered>>
nearbyVars  == <<tasks, requests, link>>
eventVars   == <<emitted, heard, lost, view, blind>>
historyVars == <<asked, crossed, failed, raced, late, masked>>
vars == <<prefVars, runVars, sink, service, call, main, out, copy, up, nearbyVars, radio, app,
          eventVars, historyVars, budget>>

Intent   == {"start", "stop"}
Messages == [kind : Intent \cup {"create", "sticky", "destroy", "removed"}, of : {NoEndpoint}]
       \cup [kind : {"found", "initiated", "result", "refused", "payload", "disconnected", "gone"},
             of : Endpoint]
PeerState == {"discovered", "connecting", "connected", "rejected", "disconnected"}
Events    == [kind : {"payload"} \cup PeerState, of : Endpoint]
Stored    == [event : Events, n : Nat]

TypeOK ==
    /\ {saved, running, adv, disc, sink, service, up, radio, crossed, failed, raced} \subseteq BOOLEAN
    /\ pending \in Seq(Stored) /\ Len(pending) <= MaxPending
    /\ copy \in Seq(Seq(Stored)) /\ Len(copy) <= Len(out) /\ Len(out) <= 1
    /\ call \in Seq({"sink", "drain", "save", "run", "begin", "halt", "clear"})
    /\ main \in Seq(Messages) /\ out \in Seq(Events)
    /\ {discovered, requests, late, blind, masked} \subseteq SUBSET Endpoint
    /\ tasks \in [{"adv", "disc"} -> Nat]
    /\ link \in [Endpoint -> {"away", "near", "asked", "offered", "accepted", "open"}]
    /\ app \in {"closed", "created", "listening"}
    /\ view \in [Endpoint -> PeerState \cup {"none"}]
    /\ asked \in Intent \cup {"none"}
    /\ emitted \in Nat /\ heard \in Seq(Nat) /\ lost \subseteq Nat
    /\ budget \in [Env -> Nat]

Init ==
    /\ saved = FALSE /\ pending = <<>>
    /\ running = FALSE /\ adv = FALSE /\ disc = FALSE /\ discovered = {}
    /\ sink = FALSE /\ service = FALSE /\ up = FALSE /\ radio = TRUE
    /\ call = <<>> /\ main = <<>> /\ out = <<>> /\ copy = <<>>
    /\ tasks = [k \in {"adv", "disc"} |-> 0] /\ requests = {}
    /\ link = [e \in Endpoint |-> "away"]
    /\ app = "closed" /\ view = [e \in Endpoint |-> "none"]
    /\ asked = "none" /\ crossed = FALSE /\ failed = FALSE /\ raced = FALSE
    /\ late = {} /\ blind = {} /\ masked = {}
    /\ emitted = 0 /\ heard = <<>> /\ lost = {}
    /\ budget \in Budgets

Spend(k) == budget[k] > 0 /\ budget' = [budget EXCEPT ![k] = @ - 1]

-----------------------------------------------------------------------------
\* Events.  A sink that is set takes an event whether or not JavaScript listens: the
\* module's sink swallows what goes wrong.
Numbers(s) == {s[i].n : i \in DOMAIN s}
Owners(s)  == {s[i].event.of : i \in DOMAIN s}

Forget(s) == lost' = lost \cup Numbers(s) /\ blind' = blind \cup Owners(s)

\* The provider's last word on an endpoint.
About(s, e) == {i \in DOMAIN s : s[i].event.of = e /\ s[i].event.kind \in PeerState}
Seen(s) == [e \in Endpoint |->
               IF About(s, e) = {} THEN view[e]
               ELSE s[CHOOSE i \in About(s, e) : \A j \in About(s, e) : j <= i].event.kind]

ToSink(s) ==
    IF app = "listening"
    THEN /\ heard' = heard \o [i \in DOMAIN s |-> s[i].n]
         /\ view' = Seen(s)
         /\ blind' = {e \in blind : About(s, e) = {}}
         /\ UNCHANGED lost
    ELSE Forget(s) /\ UNCHANGED <<heard, view>>

-----------------------------------------------------------------------------
\* The transport.  Callbacks, answers and events that a stop leaves behind.
Stale == {main[i].of : i \in {j \in DOMAIN main : main[j].of # NoEndpoint}}
            \cup {out[i].of : i \in DOMAIN out} \cup requests

Halt ==
    /\ running' = FALSE /\ adv' = FALSE /\ disc' = FALSE /\ discovered' = {}
    /\ link' = [e \in Endpoint |-> "away"]

\* The transport is stopped, then started if the radios allow it.
BeginTransport ==
    /\ adv' = FALSE /\ disc' = FALSE /\ discovered' = {}
    /\ link' = [e \in Endpoint |-> "away"]
    /\ running' = radio /\ failed' = ~radio
    /\ tasks' = IF radio THEN [k \in DOMAIN tasks |-> tasks[k] + 1] ELSE tasks

\* startTransport on the main thread; nothing happens to a transport that runs.  What the
\* module thread does between its check of `running` and its start is the same as what it
\* does before the check: it halts, or it starts a transport that this one then replaces.
StartTransport ==
    IF running THEN UNCHANGED <<runVars, link, tasks, failed>> ELSE BeginTransport

\* Mutant: a service created without the application does not start the transport.
RestartFromService_Mutant == UNCHANGED <<runVars, link, tasks, failed>>

RestartFromService ==
    IF saved THEN StartTransport ELSE UNCHANGED <<runVars, link, tasks, failed>>

Message(k) == [kind |-> k, of |-> NoEndpoint]

\* A service the system has as started gets the intent; otherwise one is created first.
Issue(queue, k) ==
    /\ main' = queue \o (IF up THEN <<Message(k)>> ELSE <<Message("create"), Message(k)>>)
    /\ up' = TRUE

\* Intents in a queue for the service the system started last, in order.
Current(queue) ==
    {i \in DOMAIN queue : /\ queue[i].kind \in Intent
                         /\ \A j \in DOMAIN queue : j > i => queue[j].kind # "create"}

Nth(S, k) == CHOOSE i \in S : Cardinality({j \in S : j <= i}) = k

Intents(queue) ==
    [k \in 1 .. Cardinality(Current(queue)) |-> queue[Nth(Current(queue), k)]]

StopWaits == \E i \in Current(main) : main[i].kind = "stop"

-----------------------------------------------------------------------------
\* The module thread.
StepIs(k) == call # <<>> /\ Head(call) = k /\ call' = Tail(call)

AttachSteps == <<"sink", "drain">>

SetSink ==
    /\ StepIs("sink")
    /\ sink' = TRUE
    /\ UNCHANGED <<prefVars, runVars, service, main, out, copy, up, nearbyVars, radio, app,
                   eventVars, historyVars, budget>>

\* Mutant: the buffer is delivered and kept.
Drain_Mutant ==
    /\ StepIs("drain")
    /\ ToSink(pending)
    /\ raced' = (raced \/ copy # <<>>)
    /\ UNCHANGED <<prefVars, runVars, sink, service, main, out, copy, up, nearbyVars, radio, app,
                   emitted, asked, crossed, failed, late, masked, budget>>

Drain ==
    /\ StepIs("drain")
    /\ ToSink(pending)
    /\ pending' = <<>>
    /\ raced' = (raced \/ copy # <<>>)
    /\ UNCHANGED <<saved, runVars, sink, service, main, out, copy, up, nearbyVars, radio, app,
                   emitted, asked, crossed, failed, late, masked, budget>>

\* Mutant: the transport is started without its service.
Save_Mutant ==
    /\ StepIs("save")
    /\ saved' = TRUE /\ asked' = "start"
    /\ UNCHANGED <<pending, runVars, sink, service, main, out, copy, up, nearbyVars, radio, app,
                   eventVars, crossed, failed, raced, late, masked, budget>>

Save ==
    /\ StepIs("save")
    /\ saved' = TRUE /\ asked' = "start"
    /\ crossed' = (up /\ StopWaits)
    /\ Issue(main, "start")
    /\ UNCHANGED <<pending, runVars, sink, service, out, copy, nearbyVars, radio, app, eventVars,
                   failed, raced, late, masked, budget>>

\* startTransport on the module thread: `running` is read here and acted on in Begin.
Run ==
    /\ call # <<>> /\ Head(call) = "run"
    /\ call' = IF running THEN Tail(call) ELSE <<"begin">> \o Tail(call)
    /\ UNCHANGED <<prefVars, runVars, sink, service, main, out, copy, up, nearbyVars, radio, app,
                   eventVars, historyVars, budget>>

\* A transport the main thread has started since is stopped and started again.
Begin ==
    /\ StepIs("begin")
    /\ BeginTransport
    /\ late' = late \cup Stale \cup {e \in Endpoint : link[e] # "away"}
    /\ UNCHANGED <<prefVars, sink, service, main, out, copy, up, requests, radio, app, eventVars,
                   asked, crossed, raced, masked, budget>>

HaltTransport ==
    /\ StepIs("halt")
    /\ Halt
    /\ late' = late \cup Stale
    /\ UNCHANGED <<prefVars, sink, service, main, out, copy, up, tasks, requests, radio, app,
                   eventVars, asked, crossed, failed, raced, masked, budget>>

\* The preferences are cleared, with them what was kept for the application; the call
\* resolves and stopMesh empties its list of peers.
Clear ==
    /\ StepIs("clear")
    /\ saved' = FALSE /\ asked' = "stop"
    /\ pending' = <<>> /\ Forget(pending)
    /\ view' = [e \in Endpoint |-> "none"]
    /\ raced' = (raced \/ copy # <<>>)
    /\ Issue(main, "stop")
    /\ UNCHANGED <<runVars, sink, service, out, copy, nearbyVars, radio, app, emitted, heard,
                   crossed, failed, late, masked, budget>>

\* The user answers an offered link (acceptConnection, rejectConnection).
Answer(e) ==
    /\ app = "listening" /\ call = <<>> /\ running /\ link[e] = "offered"
    /\ link' \in {[link EXCEPT ![e] = "accepted"], [link EXCEPT ![e] = "near"]}
    /\ UNCHANGED <<prefVars, runVars, sink, service, call, main, out, copy, up, tasks, requests,
                   radio, app, eventVars, historyVars, budget>>

Module == SetSink \/ Drain \/ Save \/ Run \/ Begin \/ HaltTransport \/ Clear

-----------------------------------------------------------------------------
\* The main thread: one message at a time, then the event of its handler.
Take(k) == out = <<>> /\ main # <<>> /\ Head(main).kind = k

quietVars == <<call, copy, radio, app, eventVars, raced, asked>>

\* onCreate.
Create ==
    /\ Take("create")
    /\ main' = Tail(main) /\ service' = TRUE
    /\ RestartFromService
    /\ UNCHANGED <<prefVars, sink, out, up, requests, crossed, late, masked, quietVars, budget>>

\* onStartCommand with the configuration in the intent.
StartCommand ==
    /\ Take("start")
    /\ main' = Tail(main) /\ saved' = TRUE
    /\ StartTransport
    /\ UNCHANGED <<pending, sink, service, out, up, requests, crossed, late, masked, quietVars,
                   budget>>

\* onStartCommand without an intent.
StickyCommand ==
    /\ Take("sticky")
    /\ main' = Tail(main)
    /\ RestartFromService
    /\ UNCHANGED <<prefVars, sink, service, out, up, requests, crossed, late, masked, quietVars,
                   budget>>

\* The service that lives has been stopped; what was issued since is for another.
BroughtDown == \E i \in DOMAIN main : main[i].kind = "destroy"

\* onStartCommand with ACTION_STOP: the runtime stops, and stopSelf has the system destroy
\* this service after the intents that already wait.
StopCommand ==
    /\ Take("stop")
    /\ IF BroughtDown THEN main' = Tail(main) /\ UNCHANGED up
       ELSE main' = Append(Tail(main), Message("destroy")) /\ up' = FALSE
    /\ Halt
    /\ saved' = FALSE /\ pending' = <<>> /\ Forget(pending)
    /\ late' = late \cup Stale \cup {e \in Endpoint : link[e] # "away"}
    /\ UNCHANGED <<sink, service, call, out, copy, tasks, requests, radio, app, emitted, heard,
                   view, asked, crossed, failed, raced, masked, budget>>

Destroy ==
    /\ Take("destroy")
    /\ main' = Tail(main) /\ service' = FALSE
    /\ UNCHANGED <<prefVars, runVars, sink, out, up, nearbyVars, failed, crossed, late, masked,
                   quietVars, budget>>

\* Mutant: the start intent is issued again whether or not a configuration is saved.
TaskRemoved_Mutant ==
    /\ Take("removed")
    /\ Issue(Tail(main), "start") /\ crossed' = (crossed \/ (up /\ StopWaits))
    /\ UNCHANGED <<prefVars, runVars, sink, service, out, nearbyVars, failed, late, masked, quietVars,
                   budget>>

\* onTaskRemoved re-issues the start intent of a saved configuration.
TaskRemoved ==
    /\ Take("removed")
    /\ IF saved /\ service
       THEN Issue(Tail(main), "start") /\ crossed' = (crossed \/ (up /\ StopWaits))
       ELSE main' = Tail(main) /\ UNCHANGED <<up, crossed>>
    /\ UNCHANGED <<prefVars, runVars, sink, service, out, nearbyVars, failed, late, masked, quietVars,
                   budget>>

\* A callback of Nearby for endpoint e: its event, and what else it changes.
Callback(k, e, event) ==
    /\ Take(k) /\ Head(main).of = e
    /\ main' = Tail(main)
    /\ out' = event
    /\ UNCHANGED <<prefVars, running, adv, disc, sink, service, up, tasks, crossed, failed, late,
                   quietVars, budget>>

Tell(k, e) == <<[kind |-> k, of |-> e]>>

EndpointFound(e) ==
    IF running /\ e \notin discovered
    THEN /\ Callback("found", e, Tell("discovered", e))
         /\ discovered' = discovered \cup {e} /\ requests' = requests \cup {e}
         /\ masked' = masked \cup {e}
         /\ UNCHANGED link
    ELSE Callback("found", e, <<>>) /\ UNCHANGED <<discovered, requests, link, masked>>

EndpointLost(e) ==
    /\ Callback("gone", e, Tell("disconnected", e))
    /\ discovered' = discovered \ {e}
    /\ masked' = masked \cup {e}
    /\ UNCHANGED <<requests, link>>

\* The link is accepted; if that fails the user is asked.  requireClient throws when the
\* transport was stopped before the callback ran, see Crash.
ConnectionInitiated(e) ==
    /\ running
    /\ Callback("initiated", e, <<>>)
    /\ \E answer \in {"accepted", "offered"} :
           link' = [link EXCEPT ![e] = IF @ = "asked" THEN answer ELSE @]
    /\ UNCHANGED <<discovered, requests, masked>>

ConnectionResult(e) ==
    /\ Callback("result", e, Tell("connected", e)) \/ Callback("refused", e, Tell("rejected", e))
    /\ masked' = masked \ {e}
    /\ UNCHANGED <<discovered, requests, link>>

\* Mutant: a disconnection is not reported.
Disconnected_Mutant(e) ==
    /\ Callback("disconnected", e, <<>>)
    /\ masked' = masked \ {e}
    /\ UNCHANGED <<discovered, requests, link>>

Disconnected(e) ==
    /\ Callback("disconnected", e, Tell("disconnected", e))
    /\ masked' = masked \ {e}
    /\ UNCHANGED <<discovered, requests, link>>

PayloadReceived(e) ==
    Callback("payload", e, Tell("payload", e)) /\ UNCHANGED <<discovered, requests, link, masked>>

Callbacks(e) ==
    \/ EndpointFound(e) \/ EndpointLost(e) \/ ConnectionInitiated(e) \/ ConnectionResult(e)
    \/ Disconnected(e) \/ PayloadReceived(e)

\* Listeners of startAdvertising and startDiscovery; those of a transport that was stopped
\* meanwhile set the flags too.
TransportStarted(k) ==
    /\ out = <<>> /\ tasks[k] > 0
    /\ tasks' = [tasks EXCEPT ![k] = @ - 1]
    /\ adv' = (adv \/ k = "adv") /\ disc' = (disc \/ k = "disc")
    /\ UNCHANGED <<prefVars, running, discovered, sink, service, main, out, up, requests, link,
                   failed, crossed, late, masked, quietVars, budget>>

TransportFailed(k) ==
    /\ out = <<>> /\ tasks[k] > 0 /\ Spend("fail")
    /\ tasks' = [tasks EXCEPT ![k] = @ - 1]
    /\ failed' = TRUE
    /\ UNCHANGED <<prefVars, runVars, sink, service, main, out, up, requests, link, crossed, late,
                   masked, quietVars>>

\* Listeners of requestConnection; a failed request leaves the endpoint discovered.  The
\* request fails for an endpoint that has connected by itself.
RequestAnswered(e) ==
    /\ out = <<>> /\ e \in requests
    /\ requests' = requests \ {e}
    /\ \/ out' = Tell("connecting", e) /\ UNCHANGED budget
       \/ /\ out' = Tell("rejected", e)
          /\ IF link[e] \in {"away", "near"} THEN Spend("fail") ELSE UNCHANGED budget
    /\ masked' = masked \cup {e}
    /\ UNCHANGED <<prefVars, runVars, sink, service, main, up, tasks, link, failed, crossed,
                   late, quietVars>>

\* emit: to the sink, or to the preferences if a service lives; the list is read here and
\* written in Persist.
Numbered == [event |-> Head(out), n |-> emitted + 1]

Emit ==
    /\ out # <<>> /\ copy = <<>>
    /\ IF sink \/ ~service
       THEN /\ out' = Tail(out) /\ emitted' = emitted + 1
            /\ IF sink THEN ToSink(<<Numbered>>) /\ raced' = (raced \/ pending # <<>>)
               ELSE Forget(<<Numbered>>) /\ UNCHANGED <<heard, view, raced>>
            /\ UNCHANGED copy
       ELSE copy' = <<pending>> /\ UNCHANGED <<out, eventVars, raced>>
    /\ UNCHANGED <<prefVars, runVars, sink, service, call, main, up, nearbyVars, radio, app,
                   asked, crossed, failed, late, masked, budget>>

\* Mutant: the list is not cut.
Newest_Uncut(s) == s

\* The oldest event of a full list goes.
Newest(s) == IF Len(s) > MaxPending THEN Tail(s) ELSE s

Persist ==
    /\ copy # <<>>
    /\ LET list == Append(Head(copy), Numbered)
       IN  pending' = Newest(list) /\ Forget(IF Len(list) > MaxPending THEN <<Head(list)>> ELSE <<>>)
    /\ emitted' = emitted + 1 /\ out' = Tail(out) /\ copy' = <<>>
    /\ raced' = (raced \/ sink)
    /\ UNCHANGED <<saved, runVars, sink, service, call, main, up, nearbyVars, radio, app, heard,
                   view, asked, crossed, failed, late, masked, budget>>

Main ==
    \/ Create \/ StartCommand \/ StickyCommand \/ StopCommand \/ Destroy \/ TaskRemoved
    \/ \E e \in Endpoint : Callbacks(e)
    \/ Emit \/ Persist

Listeners ==
    \/ \E k \in {"adv", "disc"} : TransportStarted(k)
    \/ \E e \in Endpoint : RequestAnswered(e)

-----------------------------------------------------------------------------
\* The application.  OnCreate attaches unless React has no context yet; the provider
\* subscribes in its effect and attaches again.
appOnly == <<prefVars, runVars, service, out, copy, up, nearbyVars, radio, emitted, heard, lost,
             historyVars>>

Open ==
    /\ app = "closed" /\ call = <<>> /\ Spend("open")
    /\ app' = "created"
    /\ call' \in {AttachSteps, <<>>}
    /\ view' = [e \in Endpoint |-> "none"]
    /\ blind' = {e \in Endpoint : link[e] # "away"}
    /\ UNCHANGED <<appOnly, sink, main>>

Subscribe ==
    /\ app = "created"
    /\ app' = "listening"
    /\ call' = call \o AttachSteps
    /\ UNCHANGED <<appOnly, sink, main, view, blind, budget>>

CallStart ==
    /\ app = "listening" /\ Spend("start")
    /\ call' = call \o AttachSteps \o <<"save", "run">>
    /\ UNCHANGED <<appOnly, sink, main, view, blind, app>>

CallStop ==
    /\ app = "listening" /\ Spend("stop")
    /\ call' = call \o <<"halt", "clear">>
    /\ UNCHANGED <<appOnly, sink, main, view, blind, app>>

\* The task is swiped away: OnDestroy detaches, a living service is told.
Swipe ==
    /\ app # "closed" /\ call = <<>> /\ Spend("swipe")
    /\ app' = "closed" /\ sink' = FALSE
    /\ main' = IF service THEN Append(main, Message("removed")) ELSE main
    /\ UNCHANGED <<appOnly, call, view, blind>>

-----------------------------------------------------------------------------
\* The process dies; `queue` is what the system starts the next one with.  A call whose
\* intent is lost with it is forgotten.
Die(queue) ==
    /\ running' = FALSE /\ adv' = FALSE /\ disc' = FALSE /\ discovered' = {}
    /\ sink' = FALSE /\ service' = FALSE /\ app' = "closed"
    /\ call' = <<>> /\ out' = <<>> /\ copy' = <<>> /\ main' = queue
    /\ tasks' = [k \in DOMAIN tasks |-> 0] /\ requests' = {}
    /\ link' = [e \in Endpoint |-> "away"]
    /\ late' = Owners(pending) /\ masked' = {}
    /\ asked' = IF Intents(main) \in {<<>>, Intents(queue)} THEN asked ELSE "none"
    /\ UNCHANGED <<prefVars, radio, eventVars, crossed, failed, raced>>

\* A started service is restarted: with the intents it has not handled, or with none.
Revived ==
    IF ~up THEN <<>>
    ELSE <<Message("create")>> \o (IF Intents(main) = <<>> THEN <<Message("sticky")>> ELSE Intents(main))

Kill ==
    /\ service \/ app # "closed" \/ main # <<>>
    /\ Spend("kill") /\ Die(Revived) /\ UNCHANGED up

\* onConnectionInitiated after a stop: requireClient throws on the main thread.
Crash == Take("initiated") /\ ~running /\ Die(Revived) /\ UNCHANGED <<up, budget>>

\* The device restarts; SsaNearbyBootReceiver starts the service of a saved configuration.
Boot ==
    /\ Spend("boot")
    /\ Die(IF saved THEN <<Message("create"), Message("start")>> ELSE <<>>)
    /\ up' = saved

SwitchRadio ==
    /\ Spend("radio")
    /\ radio' = ~radio
    /\ UNCHANGED <<prefVars, runVars, sink, service, call, main, out, copy, up, nearbyVars, app,
                   eventVars, historyVars>>

\* What Nearby reports while the transport runs; the callback runs when its turn comes.
Post(k, e, from, to) ==
    /\ running /\ link[e] = from
    /\ link' = [link EXCEPT ![e] = to]
    /\ main' = Append(main, [kind |-> k, of |-> e])
    /\ UNCHANGED <<prefVars, runVars, sink, service, call, out, copy, up, tasks, requests, radio,
                   app, eventVars, historyVars>>

\* Discovery finds and loses endpoints whether or not they are connected; an endpoint may
\* connect before it is found.
Nearby(e) ==
    \/ Spend("appear") /\ Post("found", e, link[e], IF link[e] = "away" THEN "near" ELSE link[e])
    \/ Spend("drop") /\ Post("gone", e, link[e], IF link[e] = "near" THEN "away" ELSE link[e])
    \/ Spend("appear") /\ Post("initiated", e, "away", "asked")
    \/ UNCHANGED budget /\ Post("initiated", e, "near", "asked")
    \/ UNCHANGED budget /\ Post("result", e, "accepted", "open")
    \/ Spend("fail") /\ Post("refused", e, "accepted", "near")
    \/ Spend("payload") /\ Post("payload", e, "open", "open")
    \/ Spend("drop") /\ Post("disconnected", e, "open", "near")

Next ==
    \/ Module \/ Main \/ Listeners
    \/ \E k \in {"adv", "disc"} : TransportFailed(k)
    \/ \E e \in Endpoint : Answer(e)
    \/ Open \/ Subscribe \/ CallStart \/ CallStop \/ Swipe
    \/ Kill \/ Crash \/ Boot \/ SwitchRadio
    \/ \E e \in Endpoint : Nearby(e)

Spec == Init /\ [][Next]_vars

\* Both threads run what they have been given, and Nearby answers its tasks.  The user,
\* the system and the radio promise nothing.
Fairness == WF_vars(Module) /\ WF_vars(Main) /\ WF_vars(Listeners)

FairSpec == Spec /\ Fairness

-----------------------------------------------------------------------------
Quiet == call = <<>> /\ main = <<>> /\ out = <<>>

\* When both threads have come to rest, the call made last has won, whatever intents,
\* kills and restarts came between: after a stop nothing runs and nothing is saved, after a
\* start the configuration is saved, and what runs is saved.  A stop is outlived only if
\* a swiped task re-issued the start behind it (start, stop, onStartCommand).
LastCallWins ==
    Quiet => /\ (asked = "stop" /\ ~crossed) => ~running /\ ~saved
             /\ asked = "start" => saved
             /\ running => saved

\* A running transport has its foreground service, so the system can restart it, unless a
\* start was issued while a stop before it still waited (stopSelf in onStartCommand).
RunsInService ==
    (Quiet /\ running /\ ~crossed) => service /\ up

\* The provider hears events in the order they happened and none twice, across detached
\* phases and restarts, and the buffer of a detached provider ends with the newest event and
\* has no gaps but for events emitted while no service was alive; unless an event was emitted
\* while the buffer was being drained or cleared (attach, persistEvent).
HeardInOrder ==
    ~raced =>
        /\ \A i, j \in DOMAIN heard : i < j => heard[i] < heard[j]
        /\ (~sink /\ copy = <<>> /\ pending # <<>>) =>
               pending[1].n .. emitted \subseteq Numbers(pending) \cup lost

\* What the provider shows as connected is connected, if it has heard the endpoint's last
\* event and nothing about the endpoint was still to come when the transport stopped.  What is
\* connected is shown so too, unless discovery has spoken of the endpoint since: the view has
\* one state for both, and a find, a loss or a late answer to a request hides the link
\* (onEndpointFound, onEndpointLost).
ViewMatches ==
    (Quiet /\ app = "listening" /\ ~raced) =>
        \A e \in Endpoint \ (blind \cup late) :
            /\ view[e] = "connected" => link[e] = "open"
            /\ (link[e] = "open" /\ e \notin masked) => view[e] = "connected"

\* After a start the transport advertises and discovers, also when the process is killed
\* meanwhile, unless the radio or Nearby fails, the user stops it, or the start crossed a
\* stop (START_STICKY, SsaNearbyBootReceiver).
StartSucceeds ==
    (asked = "start" /\ radio /\ ~failed)
        ~> ((running /\ adv /\ disc) \/ failed \/ ~radio \/ asked # "start" \/ crossed)
=============================================================================
