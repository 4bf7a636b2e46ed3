--------------------------- MODULE DeviceRecords ---------------------------
(***************************************************************************)
(* The records one phone keeps (mobile/lib/storage.ts) under the calls     *)
(* that write them: queueMessage, handleAcknowledgement,                   *)
(* handleDecryptedMessage and the relay of a stranger's packet             *)
(* (mobile/lib/sanketly-provider.tsx, mobile/lib/mesh/mesh-engine.ts).     *)
(*                                                                         *)
(* A record is stored by reading the whole list of its key, changing it    *)
(* and writing it back, with an await in between and no lock.  A task is   *)
(* one such call; one step is one turn of it, up to its next await.  A     *)
(* storage command takes effect in the turn that issues it; its answer may *)
(* come any time later.  Nothing in the application calls                  *)
(* MeshEngine.drain or the stores' remove, so a record, once stored, goes  *)
(* only when it is overwritten or the relay queue is full.                 *)
(***************************************************************************)
EXTENDS Naturals, Sequences

CONSTANTS
    Outgoing,    \* alerts the user of this phone sends
    Incoming,    \* alerts addressed to this phone
    Foreign,     \* packets this phone is asked to relay
    MaxRelay,    \* MAX_RELAY_QUEUE_ITEMS, at least one
    MaxRestart   \* bound: restarts of the application

ASSUME RecordsAssumption ==
    /\ Outgoing \cap Incoming = {} /\ Outgoing \cap Foreign = {} /\ Incoming \cap Foreign = {}
    /\ MaxRelay \in Nat \ {0} /\ MaxRestart \in Nat

VARIABLES
    disk,      \* AsyncStorage: the list of records under each key
    pc,        \* where each task waits
    copy,      \* the list a task has read
    chat,      \* messages: the state shown for each outgoing message
    screen,    \* alerts: the state shown for each alert
    left,      \* outgoing messages the transport was given
    queued,    \* history: packets put in the relay queue, in order
    stale,     \* history: keys written from a copy that was no longer current
    early,     \* history: messages acknowledged while queueMessage was still running
    restarts

vars == <<disk, pc, copy, chat, screen, left, queued, stale, early, restarts>>

Key    == {"outbox", "alerts", "relay"}
Id     == Outgoing \cup Incoming \cup Foreign
Record == [id: Id, state: {"queued", "delivered"}]
Status == {"none", "queued", "delivered"}

\* queueMessage and handleAcknowledgement of a message, handleDecryptedMessage of an
\* alert, sendOrQueue of a packet of somebody else.
Task == ({"queue", "ack"} \X Outgoing) \cup ({"alert"} \X Incoming) \cup ({"relay"} \X Foreign)

Label == {"idle", "outboxListed", "outboxRead", "outboxWritten", "alertsListed", "alertsRead",
          "alertsWritten", "ready", "sending", "relayRead", "relayWritten", "done", "dead"}

Unique(list) == \A i, j \in DOMAIN list : list[i].id = list[j].id => i = j

\* A list holds one record for an id at most, and the relay queue its limit at most.
TypeOK ==
    /\ disk \in [Key -> Seq(Record)] /\ copy \in [Task -> Seq(Record)]
    /\ \A k \in Key : Unique(disk[k])
    /\ Len(disk["relay"]) <= MaxRelay
    /\ pc \in [Task -> Label]
    /\ chat \in [Outgoing -> Status] /\ screen \in [Outgoing \cup Incoming -> Status]
    /\ left \subseteq Id /\ queued \in Seq(Id)
    /\ stale \subseteq Key /\ early \subseteq Outgoing
    /\ restarts \in Nat

Init ==
    /\ disk = [k \in Key |-> <<>>] /\ copy = [t \in Task |-> <<>>]
    /\ pc = [t \in Task |-> "idle"]
    /\ chat = [m \in Outgoing |-> "none"] /\ screen = [m \in Outgoing \cup Incoming |-> "none"]
    /\ left = {} /\ queued = <<>> /\ stale = {} /\ early = {}
    /\ restarts = 0

-----------------------------------------------------------------------------
Has(list, id) == \E i \in DOMAIN list : list[i].id = id

Records(list) == {list[i] : i \in DOMAIN list}

StateIn(list, id) ==
    IF Has(list, id) THEN list[CHOOSE i \in DOMAIN list : list[i].id = id].state ELSE "none"

\* upsert: the record takes the place of the one with its id, or the end of the list.
\* Mutant: it always takes the end.
Put_Appends(list, r) == Append(list, r)

Put(list, r) ==
    IF Has(list, r.id) THEN [i \in DOMAIN list |-> IF list[i].id = r.id THEN r ELSE list[i]]
    ELSE Append(list, r)

\* saveRelayQueue: slice(-MAX_RELAY_QUEUE_ITEMS).  Mutant: slice(0, MAX_RELAY_QUEUE_ITEMS).
Newest_KeepsOldest(list) == SubSeq(list, 1, IF Len(list) > MaxRelay THEN MaxRelay ELSE Len(list))

Newest(list) ==
    IF Len(list) > MaxRelay THEN SubSeq(list, Len(list) - MaxRelay + 1, Len(list)) ELSE list

At(t, label) == pc[t] = label

Goto(t, label) == pc' = [pc EXCEPT ![t] = label] /\ UNCHANGED <<disk, copy, stale>>

\* getItem of a key, and setItem of the changed copy.
Read(t, key, label) ==
    /\ pc' = [pc EXCEPT ![t] = label]
    /\ copy' = [copy EXCEPT ![t] = disk[key]]
    /\ UNCHANGED <<disk, stale>>

Upsert(t, key, state, label) ==
    LET list == Put(copy[t], [id |-> t[2], state |-> state])
    IN  /\ disk' = [disk EXCEPT ![key] = IF key = "relay" THEN Newest(list) ELSE list]
        /\ stale' = IF copy[t] = disk[key] THEN stale ELSE stale \cup {key}
        /\ pc' = [pc EXCEPT ![t] = label]
        /\ copy' = [copy EXCEPT ![t] = <<>>]

-----------------------------------------------------------------------------
\* queueMessage, handleDecryptedMessage up to their first storage command.
QueueMessage(m) ==
    /\ At(<<"queue", m>>, "idle")
    /\ Read(<<"queue", m>>, "outbox", "outboxRead")
    /\ UNCHANGED <<chat, screen, left, queued, early, restarts>>

ReceiveAlert(i) ==
    /\ At(<<"alert", i>>, "idle")
    /\ Read(<<"alert", i>>, "alerts", "alertsRead")
    /\ UNCHANGED <<chat, screen, left, queued, early, restarts>>

\* outbox.upsert writes: queued by the author, delivered on an acknowledgement.
WriteOutbox(t) ==
    /\ At(t, "outboxRead")
    /\ Upsert(t, "outbox", IF t[1] = "ack" THEN "delivered" ELSE "queued", "outboxWritten")
    /\ UNCHANGED <<chat, screen, left, queued, early, restarts>>

\* engine.send or, for a stranger's packet, sendOrQueue: over a route if there is one,
\* into the relay queue otherwise (the record it looks up first decides about attempts,
\* which nothing here raises).  Mutant: the message does not wait for its outbox record.
Ready_BeforeOutbox(t) == \/ t[1] = "queue" /\ (At(t, "outboxRead") \/ At(t, "outboxWritten"))
                         \/ t[1] = "alert" /\ At(t, "ready")
                         \/ t[1] = "relay" /\ At(t, "idle")

Ready(t) == \/ t[1] = "queue" /\ At(t, "outboxWritten")
            \/ t[1] = "alert" /\ At(t, "ready")
            \/ t[1] = "relay" /\ At(t, "idle")

SendPacket(t) ==
    /\ Ready(t)
    /\ \/ Goto(t, "sending") /\ left' = left \cup {t[2]}
       \/ Read(t, "relay", "relayRead") /\ UNCHANGED left
    /\ UNCHANGED <<chat, screen, queued, early, restarts>>

\* What follows engine.send: the author shows the message and stores its alert.
AfterSend(t) ==
    IF t[1] = "queue"
    THEN /\ chat' = [chat EXCEPT ![t[2]] = "queued"]
         /\ Read(t, "alerts", "alertsRead")
    ELSE Goto(t, "done") /\ UNCHANGED chat

SendResolves(t) ==
    /\ At(t, "sending")
    /\ AfterSend(t)
    /\ UNCHANGED <<screen, left, queued, early, restarts>>

SendFails(t) ==
    /\ At(t, "sending")
    /\ Read(t, "relay", "relayRead")
    /\ UNCHANGED <<chat, screen, left, queued, early, restarts>>

WriteRelay(t) ==
    /\ At(t, "relayRead")
    /\ Upsert(t, "relay", "queued", "relayWritten")
    /\ queued' = Append(queued, t[2])
    /\ UNCHANGED <<chat, screen, left, early, restarts>>

RelayWritten(t) ==
    /\ At(t, "relayWritten")
    /\ AfterSend(t)
    /\ UNCHANGED <<screen, left, queued, early, restarts>>

WriteAlerts(t) ==
    /\ At(t, "alertsRead")
    /\ Upsert(t, "alerts", IF t[1] = "queue" THEN "queued" ELSE "delivered", "alertsWritten")
    /\ UNCHANGED <<chat, screen, left, queued, early, restarts>>

\* setAlerts: the author and the recipient add the record, an acknowledgement changes it
\* where it is shown.  The recipient goes on to its acknowledgement.
\* Mutant: an acknowledgement changes the stored record alone.
AlertsWritten_AckNotShown(t) ==
    /\ At(t, "alertsWritten")
    /\ Goto(t, IF t[1] = "alert" THEN "ready" ELSE "done")
    /\ screen' = [screen EXCEPT ![t[2]] = CASE t[1] = "queue" -> "queued"
                                            [] t[1] = "alert" -> "delivered"
                                            [] OTHER -> @]
    /\ UNCHANGED <<chat, left, queued, early, restarts>>

AlertsWritten(t) ==
    /\ At(t, "alertsWritten")
    /\ Goto(t, IF t[1] = "alert" THEN "ready" ELSE "done")
    /\ screen' = [screen EXCEPT ![t[2]] = CASE t[1] = "queue" -> "queued"
                                            [] t[1] = "alert" -> "delivered"
                                            [] OTHER -> IF @ = "none" THEN @ ELSE "delivered"]
    /\ UNCHANGED <<chat, left, queued, early, restarts>>

-----------------------------------------------------------------------------
\* handleAcknowledgement of a message that left this phone, turn by turn: outbox.list,
\* outbox.upsert, the shown message, alertStore.list, alertStore.upsert.
Acknowledgement(m) ==
    LET t == <<"ack", m>>
    IN  /\ At(t, "idle") /\ m \in left
        /\ Read(t, "outbox", "outboxListed")
        /\ early' = IF pc[<<"queue", m>>] \in {"done", "dead"} THEN early ELSE early \cup {m}
        /\ UNCHANGED <<chat, screen, left, queued, restarts>>

AckOutboxListed(m) ==
    LET t == <<"ack", m>>
    IN  /\ At(t, "outboxListed")
        /\ IF Has(copy[t], m) THEN Read(t, "outbox", "outboxRead") ELSE Goto(t, "done")
        /\ UNCHANGED <<chat, screen, left, queued, early, restarts>>

AckOutboxWritten(m) ==
    LET t == <<"ack", m>>
    IN  /\ At(t, "outboxWritten")
        /\ chat' = [chat EXCEPT ![m] = IF @ = "none" THEN @ ELSE "delivered"]
        /\ Read(t, "alerts", "alertsListed")
        /\ UNCHANGED <<screen, left, queued, early, restarts>>

\* Mutant: the alert's record is left to the next start.
AckAlertsListed_LeavesAlert(m) ==
    LET t == <<"ack", m>>
    IN  /\ At(t, "alertsListed")
        /\ Goto(t, "done")
        /\ UNCHANGED <<chat, screen, left, queued, early, restarts>>

AckAlertsListed(m) ==
    LET t == <<"ack", m>>
    IN  /\ At(t, "alertsListed")
        /\ IF Has(copy[t], m) THEN Read(t, "alerts", "alertsRead") ELSE Goto(t, "done")
        /\ UNCHANGED <<chat, screen, left, queued, early, restarts>>

\* The application dies and starts again: what was running is gone, messages are not
\* stored, and alerts are read from their key.
Restart ==
    /\ restarts < MaxRestart
    /\ restarts' = restarts + 1
    /\ pc' = [t \in Task |-> IF pc[t] \in {"idle", "done"} THEN pc[t] ELSE "dead"]
    /\ copy' = [t \in Task |-> <<>>]
    /\ chat' = [m \in Outgoing |-> "none"]
    /\ screen' = [m \in Outgoing \cup Incoming |-> StateIn(disk["alerts"], m)]
    /\ UNCHANGED <<disk, left, queued, stale, early>>

Next ==
    \/ \E m \in Outgoing : \/ QueueMessage(m) \/ Acknowledgement(m)
                           \/ AckOutboxListed(m) \/ AckOutboxWritten(m) \/ AckAlertsListed(m)
    \/ \E i \in Incoming : ReceiveAlert(i)
    \/ \E t \in Task : \/ WriteOutbox(t) \/ SendPacket(t) \/ SendResolves(t) \/ SendFails(t)
                       \/ WriteRelay(t) \/ RelayWritten(t) \/ WriteAlerts(t) \/ AlertsWritten(t)
    \/ Restart

Spec == Init /\ [][Next]_vars

-----------------------------------------------------------------------------
\* An acknowledgement that was handled is in the outbox, however early it came and
\* whatever crashed since: the outbox record is there before the packet leaves
\* (queueMessage stores, then sends), and no other call takes it back unless it wrote
\* from a copy that was no longer current.
AckRecorded == {"outboxWritten", "alertsListed", "alertsRead", "alertsWritten", "done"}

AckIsRecorded ==
    \A m \in Outgoing :
        (pc[<<"ack", m>>] \in AckRecorded /\ "outbox" \notin stale)
            => [id |-> m, state |-> "delivered"] \in Records(disk["outbox"])

\* Nothing says of a message that it was delivered before the outbox does, whatever crashed
\* in between.  And between its calls, before an acknowledgement as after one, the stored
\* alert, the shown alert and the shown message say what the outbox says; only that the
\* shown messages are gone after a restart.
StatusAgrees ==
    stale \cap {"outbox", "alerts"} = {}
        => \A m \in Outgoing \ early :
              LET sent   == StateIn(disk["outbox"], m)
                  stored == StateIn(disk["alerts"], m)
              IN  /\ "delivered" \in {stored, screen[m], chat[m]} => sent = "delivered"
                  /\ (pc[<<"queue", m>>] = "done" /\ pc[<<"ack", m>>] \in {"idle", "done"})
                        => /\ stored = sent /\ screen[m] = sent
                           /\ chat[m] = sent \/ (chat[m] = "none" /\ restarts > 0)

\* The alerts on the screen are the stored ones, between the calls that change them and
\* after a restart.
ScreenIsStored ==
    ("alerts" \notin stale /\ \A t \in Task : ~At(t, "alertsWritten"))
        => \A m \in (Outgoing \cup Incoming) \ early : screen[m] = StateIn(disk["alerts"], m)

\* The relay queue holds the packets queued last, all of them up to its limit, in order.
RelayKeepsNewest ==
    "relay" \notin stale
        => /\ Len(disk["relay"]) = (IF Len(queued) > MaxRelay THEN MaxRelay ELSE Len(queued))
           /\ \A i \in DOMAIN disk["relay"] :
                 disk["relay"][i].id = queued[Len(queued) - Len(disk["relay"]) + i]
=============================================================================
