------------------------ MODULE DeviceRecordsProofs ------------------------
(* What DeviceRecords promises for any number of alerts, packets and       *)
(* restarts, and for every interleaving of their tasks.                    *)
EXTENDS DeviceRecords, TLAPS

LEMMA PutType ==
    ASSUME NEW list \in Seq(Record), NEW r \in Record
    PROVE  Put(list, r) \in Seq(Record)
<1>1. CASE Has(list, r.id)
  <2>1. Put(list, r) = [i \in 1..Len(list) |-> IF list[i].id = r.id THEN r ELSE list[i]]
    BY <1>1 DEF Put
  <2>2. \A i \in 1..Len(list) : (IF list[i].id = r.id THEN r ELSE list[i]) \in Record
    OBVIOUS
  <2> QED  BY <2>1, <2>2
<1>2. CASE ~Has(list, r.id)  BY <1>2 DEF Put
<1> QED  BY <1>1, <1>2

\* upsert stores its record and leaves the others alone.
LEMMA PutKeeps ==
    ASSUME NEW list \in Seq(Record), NEW r \in Record
    PROVE  /\ r \in Records(Put(list, r))
           /\ \A x \in Records(list) : x.id # r.id => x \in Records(Put(list, r))
<1>1. CASE Has(list, r.id)
  <2> DEFINE new == [i \in 1..Len(list) |-> IF list[i].id = r.id THEN r ELSE list[i]]
  <2>1. Put(list, r) = new /\ DOMAIN new = 1..Len(list) /\ DOMAIN list = 1..Len(list)
    BY <1>1 DEF Put
  <2>2. PICK k \in 1..Len(list) : list[k].id = r.id  BY <1>1, <2>1 DEF Has
  <2>3. new[k] = r  BY <2>2
  <2>4. ASSUME NEW i \in 1..Len(list), list[i].id # r.id  PROVE  new[i] = list[i]
    BY <2>4
  <2> QED  BY <2>1, <2>2, <2>3, <2>4 DEF Records
<1>2. CASE ~Has(list, r.id)
  <2> DEFINE new == Append(list, r)
  <2>1. Put(list, r) = new  BY <1>2 DEF Put
  <2>2. DOMAIN list = 1..Len(list) /\ DOMAIN new = 1..(Len(list) + 1) /\ Len(list) \in Nat
    OBVIOUS
  <2>3. new[Len(list) + 1] = r /\ \A i \in 1..Len(list) : new[i] = list[i]
    OBVIOUS
  <2> QED  BY <2>1, <2>2, <2>3 DEF Records
<1> QED  BY <1>1, <1>2

LEMMA PutUnique ==
    ASSUME NEW list \in Seq(Record), NEW r \in Record, Unique(list)
    PROVE  Unique(Put(list, r))
<1>1. CASE Has(list, r.id)
  <2> DEFINE new == [i \in 1..Len(list) |-> IF list[i].id = r.id THEN r ELSE list[i]]
  <2>1. Put(list, r) = new /\ DOMAIN new = 1..Len(list) /\ DOMAIN list = 1..Len(list)
    BY <1>1 DEF Put
  <2>2. \A i \in 1..Len(list) : new[i].id = list[i].id  OBVIOUS
  <2> QED  BY <2>1, <2>2 DEF Unique
<1>2. CASE ~Has(list, r.id)
  <2> DEFINE new == Append(list, r)
  <2>1. Put(list, r) = new  BY <1>2 DEF Put
  <2>2. DOMAIN list = 1..Len(list) /\ DOMAIN new = 1..(Len(list) + 1) /\ Len(list) \in Nat
    OBVIOUS
  <2>3. new[Len(list) + 1] = r /\ \A i \in 1..Len(list) : new[i] = list[i]
    OBVIOUS
  <2>4. \A i \in 1..Len(list) : list[i].id # r.id  BY <1>2, <2>2 DEF Has
  <2> QED  BY <2>1, <2>2, <2>3, <2>4 DEF Unique
<1> QED  BY <1>1, <1>2

LEMMA NewestType ==
    ASSUME NEW list \in Seq(Record)
    PROVE  /\ Newest(list) \in Seq(Record) /\ Len(Newest(list)) <= MaxRelay
           /\ Unique(list) => Unique(Newest(list))
<1>0. MaxRelay \in Nat \ {0} /\ Len(list) \in Nat  BY RecordsAssumption
<1>1. CASE Len(list) > MaxRelay
  <2> DEFINE from == Len(list) - MaxRelay + 1
             new  == SubSeq(list, from, Len(list))
  <2>1. Newest(list) = new  BY <1>1 DEF Newest
  <2>2. from \in 1..Len(list)  BY <1>0, <1>1
  <2>3. new \in Seq(Record) /\ Len(new) = MaxRelay
    BY <1>0, <1>1, <2>2
  <2>4. \A i \in 1..Len(new) : new[i] = list[from + i - 1] /\ from + i - 1 \in 1..Len(list)
    BY <1>0, <1>1, <2>2, <2>3
  <2>5. ASSUME Unique(list)  PROVE  Unique(new)
    <3>1. DOMAIN new = 1..Len(new) /\ DOMAIN list = 1..Len(list)  BY <2>3
    <3> HIDE DEF new
    <3>2. ASSUME NEW i \in 1..Len(new), NEW j \in 1..Len(new), new[i].id = new[j].id  PROVE  i = j
      <4>1. from + i - 1 = from + j - 1  BY <2>4, <2>5, <3>1, <3>2 DEF Unique
      <4> QED  BY <1>0, <2>2, <4>1
    <3> QED  BY <3>1, <3>2 DEF Unique
  <2> QED  BY <1>0, <2>1, <2>3, <2>5
<1>2. CASE ~(Len(list) > MaxRelay)  BY <1>0, <1>2 DEF Newest
<1> QED  BY <1>1, <1>2

-----------------------------------------------------------------------------
\* The inductive type invariant: what a task has read is a list of one record for an id.
TypeInv == TypeOK /\ \A t \in Task : Unique(copy[t])

\* The part of the state that the storage commands change.
DiskOK ==
    /\ disk \in [Key -> Seq(Record)] /\ copy \in [Task -> Seq(Record)]
    /\ \A k \in Key : Unique(disk[k])
    /\ \A t \in Task : Unique(copy[t])
    /\ Len(disk["relay"]) <= MaxRelay
    /\ pc \in [Task -> Label] /\ stale \subseteq Key

RestOK ==
    /\ chat \in [Outgoing -> Status] /\ screen \in [Outgoing \cup Incoming -> Status]
    /\ left \subseteq Id /\ queued \in Seq(Id) /\ early \subseteq Outgoing
    /\ restarts \in Nat

LEMMA TypeParts == (TypeInv <=> DiskOK /\ RestOK) /\ (TypeInv' <=> DiskOK' /\ RestOK')
BY DEF TypeInv, TypeOK, DiskOK, RestOK

LEMMA EmptyUnique == Unique(<<>>)
BY DEF Unique

LEMMA GotoType ==
    ASSUME DiskOK, NEW t \in Task, NEW label \in Label, Goto(t, label)
    PROVE  DiskOK'
BY DEF DiskOK, Goto

LEMMA ReadType ==
    ASSUME DiskOK, NEW t \in Task, NEW key \in Key, NEW label \in Label, Read(t, key, label)
    PROVE  DiskOK'
BY DEF DiskOK, Read

\* A task is about one id, and what it stores is a record of that id.
LEMMA TaskType ==
    \A t \in Task : t[2] \in Id /\ t[1] \in {"queue", "ack", "alert", "relay"}
                   /\ (t[1] \in {"queue", "ack"} => t[2] \in Outgoing)
                   /\ (t[1] = "alert" => t[2] \in Incoming)
                   /\ (t[1] = "relay" => t[2] \in Foreign)
                   /\ t = <<t[1], t[2]>>
BY DEF Task, Id

LEMMA UpsertType ==
    ASSUME DiskOK, NEW t \in Task, NEW key \in Key, NEW state \in {"queued", "delivered"},
           NEW label \in Label, Upsert(t, key, state, label)
    PROVE  DiskOK'
<1> DEFINE r    == [id |-> t[2], state |-> state]
           list == Put(copy[t], r)
           new  == IF key = "relay" THEN Newest(list) ELSE list
<1>1. r \in Record  BY TaskType DEF Record
<1>2. copy[t] \in Seq(Record) /\ Unique(copy[t])  BY DEF DiskOK
<1>3. list \in Seq(Record) /\ Unique(list)  BY <1>1, <1>2, PutType, PutUnique
<1>4. /\ disk' = [disk EXCEPT ![key] = new]
      /\ stale' = IF copy[t] = disk[key] THEN stale ELSE stale \cup {key}
      /\ pc' = [pc EXCEPT ![t] = label]
      /\ copy' = [copy EXCEPT ![t] = <<>>]
  BY DEF Upsert
<1> HIDE DEF list, r
<1>5. new \in Seq(Record) /\ Unique(new) /\ (key = "relay" => Len(new) <= MaxRelay)
  BY <1>3, NewestType
<1> HIDE DEF new
<1>6. disk' \in [Key -> Seq(Record)] /\ Len(disk'["relay"]) <= MaxRelay
      /\ \A k \in Key : Unique(disk'[k])
  BY <1>4, <1>5 DEF DiskOK, Key
<1>7. copy' \in [Task -> Seq(Record)] /\ \A x \in Task : Unique(copy'[x])
  BY <1>4, EmptyUnique DEF DiskOK
<1> QED  BY <1>4, <1>6, <1>7 DEF DiskOK

LEMMA StateInType == ASSUME NEW list \in Seq(Record), NEW id  PROVE  StateIn(list, id) \in Status
<1>1. CASE Has(list, id)
  <2>1. \E i \in DOMAIN list : list[i].id = id  BY <1>1 DEF Has
  <2>2. DOMAIN list = 1..Len(list)  OBVIOUS
  <2> DEFINE k == CHOOSE i \in DOMAIN list : list[i].id = id
  <2>3. k \in 1..Len(list) /\ StateIn(list, id) = list[k].state  BY <1>1, <2>1, <2>2 DEF StateIn
  <2> HIDE DEF k
  <2>4. list[k] \in Record  BY <2>3
  <2> QED  BY <2>3, <2>4 DEF Record, Status
<1>2. CASE ~Has(list, id)  BY <1>2 DEF StateIn, Status
<1> QED  BY <1>1, <1>2

LEMMA TypeInit == Init => TypeInv
<1> SUFFICES ASSUME Init  PROVE  DiskOK /\ RestOK
  BY TypeParts
<1>1. disk \in [Key -> Seq(Record)] /\ copy \in [Task -> Seq(Record)] /\ pc \in [Task -> Label]
  BY DEF Init, Label
<1>2. (\A k \in Key : Unique(disk[k])) /\ (\A t \in Task : Unique(copy[t]))
  BY EmptyUnique DEF Init
<1>3. "relay" \in Key /\ disk["relay"] = <<>>  BY DEF Init, Key
<1>4. Len(disk["relay"]) <= MaxRelay  BY <1>3, RecordsAssumption
<1>5. RestOK  BY DEF Init, RestOK, Status
<1> QED  BY <1>1, <1>2, <1>4, <1>5 DEF DiskOK, Init

LEMMA AfterSendType ==
    ASSUME TypeInv, NEW t \in Task, AfterSend(t)
    PROVE  DiskOK' /\ chat' \in [Outgoing -> Status]
<1>1. DiskOK /\ chat \in [Outgoing -> Status]  BY TypeParts DEF RestOK
<1>2. CASE t[1] = "queue"
  <2>1. Read(t, "alerts", "alertsRead") /\ chat' = [chat EXCEPT ![t[2]] = "queued"]
    BY <1>2 DEF AfterSend
  <2>2. "alerts" \in Key /\ "alertsRead" \in Label  BY DEF Key, Label
  <2> QED  BY <1>1, <2>1, <2>2, ReadType DEF Status
<1>3. CASE t[1] # "queue"
  <2>1. Goto(t, "done") /\ "done" \in Label /\ chat' = chat  BY <1>3 DEF AfterSend, Label
  <2> QED  BY <1>1, <2>1, GotoType
<1> QED  BY <1>2, <1>3

THEOREM TypeStep == TypeInv /\ [Next]_vars => TypeInv'
<1> SUFFICES ASSUME TypeInv, [Next]_vars  PROVE  TypeInv'
  OBVIOUS
<1>0. DiskOK /\ RestOK  BY TypeParts
<1>l. /\ \A x \in {"outboxListed", "outboxRead", "outboxWritten", "alertsListed", "alertsRead",
                    "alertsWritten", "ready", "sending", "relayRead", "relayWritten", "done", "dead"} :
            x \in Label
      /\ "outbox" \in Key /\ "alerts" \in Key /\ "relay" \in Key
  BY DEF Label, Key
<1>1. ASSUME NEW m \in Outgoing, QueueMessage(m) \/ Acknowledgement(m) \/ AckOutboxListed(m)
                                \/ AckOutboxWritten(m) \/ AckAlertsListed(m)
      PROVE  TypeInv'
  <2>1. <<"queue", m>> \in Task /\ <<"ack", m>> \in Task  BY DEF Task
  <2>2. DiskOK'
    BY <1>0, <1>1, <1>l, <2>1, ReadType, GotoType
    DEF QueueMessage, Acknowledgement, AckOutboxListed, AckOutboxWritten, AckAlertsListed
  <2>3. RestOK'
    BY <1>0, <1>1 DEF RestOK, Status, QueueMessage, Acknowledgement, AckOutboxListed, AckOutboxWritten,
                      AckAlertsListed
  <2> QED  BY <2>2, <2>3, TypeParts
<1>2. ASSUME NEW i \in Incoming, ReceiveAlert(i)  PROVE  TypeInv'
  <2>1. <<"alert", i>> \in Task  BY DEF Task
  <2> QED  BY <1>0, <1>2, <1>l, <2>1, ReadType, TypeParts DEF ReceiveAlert, RestOK
<1>3. ASSUME NEW t \in Task, WriteOutbox(t) \/ WriteRelay(t) \/ WriteAlerts(t)  PROVE  TypeInv'
  <2>1. DiskOK'  BY <1>0, <1>3, <1>l, UpsertType DEF WriteOutbox, WriteRelay, WriteAlerts
  <2>2. queued \in Seq(Id) /\ t[2] \in Id  BY <1>0, TaskType DEF RestOK
  <2>3. Append(queued, t[2]) \in Seq(Id)  BY <2>2
  <2>4. RestOK'  BY <1>0, <1>3, <2>3 DEF RestOK, WriteOutbox, WriteRelay, WriteAlerts
  <2> QED  BY <2>1, <2>4, TypeParts
<1>4. ASSUME NEW t \in Task, SendPacket(t) \/ SendFails(t)  PROVE  TypeInv'
  <2>1. DiskOK'  BY <1>0, <1>4, <1>l, ReadType, GotoType DEF SendPacket, SendFails
  <2>2. RestOK'  BY <1>0, <1>4, TaskType DEF RestOK, SendPacket, SendFails
  <2> QED  BY <2>1, <2>2, TypeParts
<1>5. ASSUME NEW t \in Task, SendResolves(t) \/ RelayWritten(t)  PROVE  TypeInv'
  <2>1. AfterSend(t)  BY <1>5 DEF SendResolves, RelayWritten
  <2>2. DiskOK' /\ chat' \in [Outgoing -> Status]  BY <2>1, AfterSendType
  <2>3. RestOK'  BY <1>0, <1>5, <2>2 DEF RestOK, SendResolves, RelayWritten
  <2> QED  BY <2>2, <2>3, TypeParts
<1>6. ASSUME NEW t \in Task, AlertsWritten(t)  PROVE  TypeInv'
  <2>1. DiskOK'  BY <1>0, <1>6, <1>l, GotoType DEF AlertsWritten
  <2>2. RestOK'  BY <1>0, <1>6 DEF RestOK, AlertsWritten, Status
  <2> QED  BY <2>1, <2>2, TypeParts
<1>7. CASE Restart
  <2>1. DiskOK'  BY <1>0, <1>7, EmptyUnique DEF Restart, DiskOK, Label
  <2>2. \A m : StateIn(disk["alerts"], m) \in Status  BY <1>0, <1>l, StateInType DEF DiskOK
  <2>3. RestOK'  BY <1>0, <1>7, <2>2 DEF Restart, RestOK, Status
  <2> QED  BY <2>1, <2>3, TypeParts
<1>8. CASE UNCHANGED vars
  BY <1>8 DEF vars, TypeInv, TypeOK
<1> QED  BY <1>1, <1>2, <1>3, <1>4, <1>5, <1>6, <1>7, <1>8 DEF Next

\* Under any interleaving of tasks and restarts a stored list keeps one record for an id,
\* and the relay queue its limit.
THEOREM RecordsTypeCorrect == Spec => []TypeOK
<1>1. Spec => []TypeInv  BY TypeInit, TypeStep, PTL DEF Spec
<1>2. TypeInv => TypeOK  BY DEF TypeInv
<1> QED  BY <1>1, <1>2, PTL

-----------------------------------------------------------------------------
\* AckIsRecorded is not inductive: an acknowledgement finds the outbox record because a
\* message leaves only after queueMessage has written it, and keeps it because
\* queueMessage does not write the outbox again.
Stored(m) == Has(disk["outbox"], m)

QueueTask(m) == <<"queue", m>>
AckTask(m)   == <<"ack", m>>

\* The labels a task of a kind passes.
Path(kind) ==
    {"idle", "alertsRead", "alertsWritten", "done", "dead"} \cup
    CASE kind = "queue" -> {"outboxRead", "outboxWritten", "sending", "relayRead", "relayWritten"}
      [] kind = "ack"   -> {"outboxListed", "outboxRead", "outboxWritten", "alertsListed"}
      [] OTHER          -> {"ready", "sending", "relayRead", "relayWritten"}

PathInv == \A t \in Task : pc[t] \in Path(t[1])

OrderInv ==
    \A m \in Outgoing :
        /\ pc[QueueTask(m)] \in {"idle", "outboxRead"} => m \notin left
        /\ pc[AckTask(m)] # "idle" => m \in left

OutboxInv ==
    "outbox" \notin stale =>
        \A m \in Outgoing :
            /\ pc[QueueTask(m)] = "outboxWritten" \/ m \in left => Stored(m)
            /\ pc[AckTask(m)] = "outboxListed" => Has(copy[AckTask(m)], m)

AckInv == TypeInv /\ PathInv /\ OrderInv /\ OutboxInv /\ AckIsRecorded

LEMMA HasRecord ==
    ASSUME NEW list, NEW id
    PROVE  Has(list, id) <=> \E r \in Records(list) : r.id = id
BY DEF Has, Records

LEMMA TasksDiffer ==
    ASSUME NEW m \in Outgoing
    PROVE  /\ QueueTask(m) \in Task /\ AckTask(m) \in Task
           /\ QueueTask(m)[1] = "queue" /\ QueueTask(m)[2] = m
           /\ AckTask(m)[1] = "ack" /\ AckTask(m)[2] = m
           /\ QueueTask(m) # AckTask(m)
           /\ \A t \in Task : t[2] = m => t \in {QueueTask(m), AckTask(m)}
BY TaskType, RecordsAssumption DEF QueueTask, AckTask, Task

\* A task moves along its path, one label or a restart at a time.
LEMMA PathStep == TypeInv /\ PathInv /\ [Next]_vars => PathInv'
<1> SUFFICES ASSUME TypeInv, PathInv, [Next]_vars  PROVE  PathInv'
  OBVIOUS
<1>0. pc \in [Task -> Label]  BY DEF TypeInv, TypeOK
<1>1. ASSUME NEW t \in Task, NEW label \in Path(t[1]), pc' = [pc EXCEPT ![t] = label]
      PROVE  PathInv'
  BY <1>0, <1>1 DEF PathInv
<1>2. ASSUME NEW m \in Outgoing, QueueMessage(m) \/ Acknowledgement(m) \/ AckOutboxListed(m)
                                \/ AckOutboxWritten(m) \/ AckAlertsListed(m)
      PROVE  PathInv'
  <2>1. QueueTask(m) \in Task /\ AckTask(m) \in Task /\ QueueTask(m)[1] = "queue"
        /\ AckTask(m)[1] = "ack"
    BY TasksDiffer
  <2>2. /\ "outboxRead" \in Path("queue")
        /\ {"outboxListed", "outboxRead", "alertsListed", "alertsRead", "done"} \subseteq Path("ack")
    BY DEF Path
  <2>3. \/ pc' = [pc EXCEPT ![QueueTask(m)] = "outboxRead"]
        \/ \E x \in {"outboxListed", "outboxRead", "alertsListed", "alertsRead", "done"} :
              pc' = [pc EXCEPT ![AckTask(m)] = x]
    BY <1>2 DEF QueueMessage, Acknowledgement, AckOutboxListed, AckOutboxWritten, AckAlertsListed,
                Read, Goto, QueueTask, AckTask
  <2> QED  BY <1>1, <2>1, <2>2, <2>3
<1>3. ASSUME NEW i \in Incoming, ReceiveAlert(i)  PROVE  PathInv'
  <2>1. <<"alert", i>> \in Task /\ <<"alert", i>>[1] = "alert"  BY DEF Task
  <2>2. pc' = [pc EXCEPT ![<<"alert", i>>] = "alertsRead"]  BY <1>3 DEF ReceiveAlert, Read
  <2> QED  BY <1>1, <2>1, <2>2 DEF Path
<1>4. ASSUME NEW t \in Task,
             \/ WriteOutbox(t) \/ SendPacket(t) \/ SendResolves(t) \/ SendFails(t)
             \/ WriteRelay(t) \/ RelayWritten(t) \/ WriteAlerts(t) \/ AlertsWritten(t)
      PROVE  PathInv'
  <2>1. pc[t] \in Path(t[1]) /\ t[1] \in {"queue", "ack", "alert", "relay"}
    BY TaskType DEF PathInv
  <2>2. PICK x : /\ pc' = [pc EXCEPT ![t] = x]
                 /\ \/ pc[t] = "outboxRead" /\ x = "outboxWritten"
                    \/ t[1] # "ack" /\ x \in {"sending", "relayRead"}
                    \/ pc[t] = "sending" /\ x = "relayRead"
                    \/ pc[t] = "relayRead" /\ x = "relayWritten"
                    \/ x \in {"alertsRead", "alertsWritten", "done"}
                    \/ t[1] = "alert" /\ x = "ready"
    BY <1>4 DEF WriteOutbox, SendPacket, Ready, SendResolves, SendFails, WriteRelay, RelayWritten,
                WriteAlerts, AlertsWritten, AfterSend, Read, Goto, Upsert, At
  <2>3. x \in Path(t[1])  BY <2>1, <2>2 DEF Path
  <2> QED  BY <1>1, <2>2, <2>3
<1>5. CASE Restart
  BY <1>5 DEF Restart, PathInv, Path
<1>6. CASE UNCHANGED vars
  BY <1>6 DEF vars, PathInv
<1> QED  BY <1>2, <1>3, <1>4, <1>5, <1>6 DEF Next

\* A write to the outbox either takes its key for stale or adds its record to what is there.
LEMMA OutboxWrite ==
    ASSUME TypeInv, NEW t \in Task, WriteOutbox(t)
    PROVE  \/ "outbox" \in stale'
           \/ /\ [id |-> t[2], state |-> IF t[1] = "ack" THEN "delivered" ELSE "queued"]
                    \in Records(disk'["outbox"])
              /\ \A x \in Records(disk["outbox"]) : x.id # t[2] => x \in Records(disk'["outbox"])
<1> DEFINE state == IF t[1] = "ack" THEN "delivered" ELSE "queued"
           r     == [id |-> t[2], state |-> state]
           list  == Put(copy[t], r)
<1>1. r \in Record /\ r.id = t[2]  BY TaskType DEF Record
<1>2. copy[t] \in Seq(Record)  BY DEF TypeInv, TypeOK
<1>3. "outbox" \in Key /\ disk \in [Key -> Seq(Record)]  BY DEF Key, TypeInv, TypeOK
<1>4. disk'["outbox"] = list /\ (copy[t] = disk["outbox"] \/ "outbox" \in stale')
  <2>1. disk' = [disk EXCEPT !["outbox"] = IF "outbox" = "relay" THEN Newest(list) ELSE list]
    BY DEF WriteOutbox, Upsert
  <2>2. copy[t] = disk["outbox"] \/ "outbox" \in stale'  BY DEF WriteOutbox, Upsert
  <2> HIDE DEF list
  <2> QED  BY <1>3, <2>1, <2>2
<1>5. /\ r \in Records(list)
      /\ \A x \in Records(copy[t]) : x.id # r.id => x \in Records(list)
  BY <1>1, <1>2, PutKeeps
<1> QED  BY <1>1, <1>4, <1>5

\* A step that leaves the outbox alone and lets no message leave unstored: what it must
\* not do to the two tasks of a message.
Kept(m) ==
    /\ pc'[QueueTask(m)] \in {"idle", "outboxRead"} => m \notin left'
    /\ pc'[AckTask(m)] # "idle" => m \in left'
    /\ pc'[QueueTask(m)] = "outboxWritten" \/ m \in left'
          => pc[QueueTask(m)] = "outboxWritten" \/ m \in left
    /\ pc'[AckTask(m)] = "outboxListed"
          => \/ pc[AckTask(m)] = "outboxListed" /\ copy'[AckTask(m)] = copy[AckTask(m)]
             \/ m \in left /\ copy'[AckTask(m)] = disk["outbox"]
    /\ pc'[AckTask(m)] \in AckRecorded => pc[AckTask(m)] \in AckRecorded \/ "outbox" \in stale'

LEMMA OutboxKept ==
    ASSUME AckInv, disk'["outbox"] = disk["outbox"], stale \subseteq stale',
           \A m \in Outgoing : Kept(m)
    PROVE  OrderInv' /\ OutboxInv' /\ AckIsRecorded'
<1>1. OrderInv'  BY DEF OrderInv, AckTask, QueueTask, Kept
<1>2. OutboxInv'  BY DEF AckInv, OutboxInv, Stored, AckTask, QueueTask, Kept
<1>3. AckIsRecorded'  BY DEF AckInv, AckIsRecorded, AckTask, Kept
<1> QED  BY <1>1, <1>2, <1>3

LEMMA AckInit == Init => AckInv
<1> SUFFICES ASSUME Init  PROVE  AckInv
  OBVIOUS
<1>1. TypeInv  BY TypeInit
<1>2. \A m \in Outgoing : pc[QueueTask(m)] = "idle" /\ pc[AckTask(m)] = "idle"
  BY TasksDiffer DEF Init
<1>3. left = {}  BY DEF Init
<1>4. PathInv  BY DEF Init, PathInv, Path
<1>5. OrderInv /\ OutboxInv  BY <1>2, <1>3 DEF OrderInv, OutboxInv
<1>6. AckIsRecorded  BY <1>2 DEF AckIsRecorded, AckTask, AckRecorded
<1> QED  BY <1>1, <1>4, <1>5, <1>6 DEF AckInv

\* queueMessage and an acknowledgement write the outbox: the second cannot precede the
\* first, and neither touches another message.
LEMMA WriteKeepsAck ==
    ASSUME AckInv, NEW t \in Task, WriteOutbox(t)
    PROVE  OrderInv' /\ OutboxInv' /\ AckIsRecorded'
<1>1. pc \in [Task -> Label] /\ copy \in [Task -> Seq(Record)]  BY DEF AckInv, TypeInv, TypeOK
<1>2. /\ pc[t] = "outboxRead" /\ pc' = [pc EXCEPT ![t] = "outboxWritten"]
      /\ copy' = [copy EXCEPT ![t] = <<>>]
      /\ left' = left /\ stale \subseteq stale'
  BY DEF WriteOutbox, Upsert, At
<1>3. t[1] \in {"queue", "ack"} /\ t[2] \in Outgoing /\ t = <<t[1], t[2]>>
  <2>1. t[1] \in {"queue", "ack"}  BY <1>2, TaskType DEF AckInv, PathInv, Path
  <2> QED  BY <2>1, TaskType
<1>4. OrderInv'
  BY <1>1, <1>2, TasksDiffer DEF AckInv, OrderInv, QueueTask, AckTask
<1>5. CASE "outbox" \in stale'
  BY <1>4, <1>5 DEF OutboxInv, AckIsRecorded
<1>6. CASE "outbox" \notin stale'
  <2>1. "outbox" \notin stale  BY <1>2, <1>6
  <2> DEFINE r == [id |-> t[2], state |-> IF t[1] = "ack" THEN "delivered" ELSE "queued"]
  <2>2. /\ r \in Records(disk'["outbox"]) /\ r.id = t[2]
        /\ \A x \in Records(disk["outbox"]) : x.id # t[2] => x \in Records(disk'["outbox"])
    BY <1>6, OutboxWrite DEF AckInv
  <2>3. ASSUME NEW m \in Outgoing, pc'[QueueTask(m)] = "outboxWritten" \/ m \in left
        PROVE  Stored(m)'
    <3>1. CASE t[2] = m  BY <2>2, <3>1, HasRecord DEF Stored
    <3>2. CASE t[2] # m
      <4>1. pc'[QueueTask(m)] = pc[QueueTask(m)]  BY <1>1, <1>2, <3>2, TasksDiffer
      <4>2. Stored(m)  BY <2>1, <2>3, <4>1 DEF AckInv, OutboxInv
      <4> QED  BY <2>2, <3>2, <4>2, HasRecord DEF Stored
    <3> QED  BY <3>1, <3>2
  <2>4. ASSUME NEW m \in Outgoing, pc'[AckTask(m)] = "outboxListed"
        PROVE  Has(copy'[AckTask(m)], m)
    <3>1. AckTask(m) # t  BY <1>1, <1>2, <2>4
    <3>2. copy'[AckTask(m)] = copy[AckTask(m)] /\ pc[AckTask(m)] = "outboxListed"
      BY <1>1, <1>2, <2>4, <3>1, TasksDiffer
    <3> QED  BY <2>1, <3>2 DEF AckInv, OutboxInv
  <2>5. OutboxInv'
    BY <1>2, <2>3, <2>4 DEF OutboxInv, QueueTask, AckTask
  <2>6. ASSUME NEW m \in Outgoing, pc'[AckTask(m)] \in AckRecorded
        PROVE  [id |-> m, state |-> "delivered"] \in Records(disk'["outbox"])
    <3>1. CASE t = AckTask(m)  BY <2>2, <3>1, TasksDiffer
    <3>2. CASE t # AckTask(m)
      <4>1. pc[AckTask(m)] \in AckRecorded  BY <1>1, <1>2, <2>6, <3>2, TasksDiffer
      <4>2. [id |-> m, state |-> "delivered"] \in Records(disk["outbox"])
        BY <2>1, <4>1 DEF AckInv, AckIsRecorded, AckTask
      <4>3. m \in left
        BY <4>1 DEF AckInv, OrderInv, AckRecorded
      <4>4. t # QueueTask(m)  BY <1>2, <4>3 DEF AckInv, OrderInv
      <4>5. t[2] # m  BY <3>2, <4>4, TasksDiffer
      <4> QED  BY <2>2, <4>2, <4>5
    <3> QED  BY <3>1, <3>2
  <2> QED  BY <1>4, <2>5, <2>6 DEF AckIsRecorded, AckTask
<1> QED  BY <1>5, <1>6

\* The turns of an acknowledgement that only read.
LEMMA AckKeepsAck ==
    ASSUME AckInv, NEW m \in Outgoing,
           Acknowledgement(m) \/ AckOutboxListed(m) \/ AckOutboxWritten(m) \/ AckAlertsListed(m)
    PROVE  OrderInv' /\ OutboxInv' /\ AckIsRecorded'
<1>1. pc \in [Task -> Label] /\ copy \in [Task -> Seq(Record)]  BY DEF AckInv, TypeInv, TypeOK
<1>2. disk' = disk /\ stale' = stale /\ left' = left /\ m \in left
  <2>1. disk' = disk /\ stale' = stale /\ left' = left
    BY DEF Acknowledgement, AckOutboxListed, AckOutboxWritten, AckAlertsListed, Read, Goto
  <2>2. m \in left
    BY DEF Acknowledgement, AckOutboxListed, AckOutboxWritten, AckAlertsListed, At, AckInv, OrderInv,
           AckTask
  <2> QED  BY <2>1, <2>2
<1>3. PICK x \in Label :
        /\ pc' = [pc EXCEPT ![AckTask(m)] = x] /\ x # "idle"
        /\ x = "outboxListed" => copy' = [copy EXCEPT ![AckTask(m)] = disk["outbox"]]
        /\ x \in AckRecorded => pc[AckTask(m)] \in AckRecorded \/ "outbox" \in stale
        /\ \A t \in Task : t # AckTask(m) => copy'[t] = copy[t]
  <2>1. CASE Acknowledgement(m)
    BY <1>1, <2>1 DEF Acknowledgement, Read, AckTask, Label, AckRecorded
  <2>2. CASE AckOutboxListed(m)
    <3>1. CASE Has(copy[AckTask(m)], m)
      BY <1>1, <2>2, <3>1 DEF AckOutboxListed, Read, AckTask, Label, AckRecorded
    <3>2. CASE ~Has(copy[AckTask(m)], m)
      <4>1. "outbox" \in stale
        BY <2>2, <3>2 DEF AckOutboxListed, At, AckTask, AckInv, OutboxInv
      <4> QED  BY <1>1, <2>2, <3>2, <4>1 DEF AckOutboxListed, Goto, AckTask, Label
    <3> QED  BY <3>1, <3>2
  <2>3. CASE AckOutboxWritten(m)
    BY <1>1, <2>3 DEF AckOutboxWritten, At, Read, AckTask, Label, AckRecorded
  <2>4. CASE AckAlertsListed(m)
    BY <1>1, <2>4 DEF AckAlertsListed, At, Read, Goto, AckTask, Label, AckRecorded
  <2> QED  BY <2>1, <2>2, <2>3, <2>4
<1>4. ASSUME NEW n \in Outgoing  PROVE  Kept(n)
  <2>1. pc'[QueueTask(n)] = pc[QueueTask(n)]
    BY <1>1, <1>3, TasksDiffer
  <2>2. CASE n = m  BY <1>1, <1>2, <1>3, <2>1, <2>2, TasksDiffer DEF Kept, AckInv, OrderInv
  <2>3. CASE n # m
    <3>1. AckTask(n) # AckTask(m)  BY <2>3, TasksDiffer
    <3> QED  BY <1>1, <1>2, <1>3, <2>1, <3>1, TasksDiffer DEF Kept, AckInv, OrderInv
  <2> QED  BY <2>2, <2>3
<1> QED  BY <1>2, <1>4, OutboxKept

\* Any other turn of a task, of which only sending lets a message leave.
LEMMA TurnKeepsAck ==
    ASSUME AckInv, NEW t \in Task, NEW x \in Label, pc' = [pc EXCEPT ![t] = x],
           disk'["outbox"] = disk["outbox"], stale \subseteq stale',
           left' = left \/ (Ready(t) /\ left' = left \cup {t[2]}),
           t[1] = "queue" \/ t[2] \notin Outgoing
              \/ (pc[t] \in {"alertsRead", "alertsWritten"} /\ left' = left),
           x \in {"alertsRead", "sending", "relayRead", "relayWritten", "alertsWritten", "ready", "done"}
              \/ (x = "outboxRead" /\ pc[t] = "idle"),
           \A u \in Task : u # t => copy'[u] = copy[u]
    PROVE  OrderInv' /\ OutboxInv' /\ AckIsRecorded'
<1>1. pc \in [Task -> Label]  BY DEF AckInv, TypeInv, TypeOK
<1>2. ASSUME NEW m \in Outgoing  PROVE  Kept(m)
  <2>1. CASE t = QueueTask(m)
    <3>1. t[1] = "queue" /\ t[2] = m /\ t # AckTask(m)  BY <2>1, TasksDiffer
    <3>2. pc'[AckTask(m)] = pc[AckTask(m)] /\ copy'[AckTask(m)] = copy[AckTask(m)]
      BY <1>1, <3>1, TasksDiffer
    <3>3. pc'[t] = x /\ (left' # left => pc[t] = "outboxWritten")
      BY <1>1, <3>1 DEF Ready, At
    <3>4. x = "outboxRead" => left' = left  BY <3>3
    <3> QED  BY <2>1, <3>1, <3>2, <3>3, <3>4 DEF Kept, AckInv, OrderInv
  <2>2. CASE t = AckTask(m)
    <3>1. pc[t] \in {"alertsRead", "alertsWritten"} /\ left' = left  BY <2>2, TasksDiffer
    <3>2. pc'[QueueTask(m)] = pc[QueueTask(m)]  BY <1>1, <2>2, TasksDiffer
    <3>3. pc'[t] = x /\ x # "outboxListed"  BY <1>1
    <3> QED  BY <2>2, <3>1, <3>2, <3>3 DEF Kept, AckInv, OrderInv, AckRecorded
  <2>3. CASE t # QueueTask(m) /\ t # AckTask(m)
    <3>1. t[2] # m  BY <2>3, TasksDiffer
    <3>2. /\ pc'[QueueTask(m)] = pc[QueueTask(m)] /\ pc'[AckTask(m)] = pc[AckTask(m)]
          /\ copy'[AckTask(m)] = copy[AckTask(m)] /\ (m \in left' <=> m \in left)
      BY <1>1, <2>3, <3>1, TasksDiffer
    <3> QED  BY <3>2 DEF Kept, AckInv, OrderInv
  <2> QED  BY <2>1, <2>2, <2>3
<1> QED  BY <1>2, OutboxKept

THEOREM AckStep == AckInv /\ [Next]_vars => AckInv'
<1> SUFFICES ASSUME AckInv, [Next]_vars  PROVE  OrderInv' /\ OutboxInv' /\ AckIsRecorded'
  BY TypeStep, PathStep DEF AckInv
<1>0. pc \in [Task -> Label] /\ copy \in [Task -> Seq(Record)] /\ disk \in [Key -> Seq(Record)]
      /\ PathInv
  BY DEF AckInv, TypeInv, TypeOK
<1>1. ASSUME NEW m \in Outgoing, QueueMessage(m)  PROVE  OrderInv' /\ OutboxInv' /\ AckIsRecorded'
  <2>1. QueueTask(m) \in Task /\ QueueTask(m)[1] = "queue" /\ "outboxRead" \in Label
    BY TasksDiffer DEF Label
  <2>2. /\ pc[QueueTask(m)] = "idle" /\ pc' = [pc EXCEPT ![QueueTask(m)] = "outboxRead"]
        /\ copy' = [copy EXCEPT ![QueueTask(m)] = disk["outbox"]]
        /\ disk' = disk /\ stale' = stale /\ left' = left
    BY <1>1 DEF QueueMessage, Read, At, QueueTask
  <2>3. \A u \in Task : u # QueueTask(m) => copy'[u] = copy[u]  BY <1>0, <2>2
  <2> QED  BY <2>1, <2>2, <2>3, TurnKeepsAck
<1>2. ASSUME NEW m \in Outgoing, Acknowledgement(m) \/ AckOutboxListed(m) \/ AckOutboxWritten(m)
                                \/ AckAlertsListed(m)
      PROVE  OrderInv' /\ OutboxInv' /\ AckIsRecorded'
  BY <1>2, AckKeepsAck
<1>3. ASSUME NEW i \in Incoming, ReceiveAlert(i)  PROVE  OrderInv' /\ OutboxInv' /\ AckIsRecorded'
  <2> DEFINE t == <<"alert", i>>
  <2>1. t \in Task /\ t[2] \notin Outgoing /\ "alertsRead" \in Label
    BY RecordsAssumption DEF Task, Label
  <2>2. /\ pc' = [pc EXCEPT ![t] = "alertsRead"] /\ copy' = [copy EXCEPT ![t] = disk["alerts"]]
        /\ disk' = disk /\ stale' = stale /\ left' = left
    BY <1>3 DEF ReceiveAlert, Read
  <2> HIDE DEF t
  <2>3. \A u \in Task : u # t => copy'[u] = copy[u]  BY <1>0, <2>2
  <2> QED  BY <2>1, <2>2, <2>3, TurnKeepsAck
<1>4. ASSUME NEW t \in Task, WriteOutbox(t)  PROVE  OrderInv' /\ OutboxInv' /\ AckIsRecorded'
  BY <1>4, WriteKeepsAck
<1>5. ASSUME NEW t \in Task,
             \/ SendPacket(t) \/ SendResolves(t) \/ SendFails(t)
             \/ WriteRelay(t) \/ RelayWritten(t) \/ WriteAlerts(t) \/ AlertsWritten(t)
      PROVE  OrderInv' /\ OutboxInv' /\ AckIsRecorded'
  <2> DEFINE Next7 == {"alertsRead", "sending", "relayRead", "relayWritten", "alertsWritten",
                       "ready", "done"}
  <2>1. PICK x \in Next7 : pc' = [pc EXCEPT ![t] = x]
    BY <1>5 DEF SendPacket, SendResolves, SendFails, WriteRelay, RelayWritten, WriteAlerts,
                AlertsWritten, AfterSend, Read, Goto, Upsert
  <2>2. disk'["outbox"] = disk["outbox"]
    <3>1. disk' = disk \/ \E key \in {"relay", "alerts"} : \E list : disk' = [disk EXCEPT ![key] = list]
      BY <1>5 DEF SendPacket, SendResolves, SendFails, WriteRelay, RelayWritten, WriteAlerts,
                  AlertsWritten, AfterSend, Read, Goto, Upsert
    <3> QED  BY <1>0, <3>1 DEF Key
  <2>3. stale \subseteq stale'
    BY <1>5 DEF SendPacket, SendResolves, SendFails, WriteRelay, RelayWritten, WriteAlerts,
                AlertsWritten, AfterSend, Read, Goto, Upsert
  <2>4. left' = left \/ (Ready(t) /\ left' = left \cup {t[2]})
    BY <1>5 DEF SendPacket, SendResolves, SendFails, WriteRelay, RelayWritten, WriteAlerts,
                AlertsWritten
  <2>5. t[1] = "queue" \/ t[2] \notin Outgoing
          \/ (pc[t] \in {"alertsRead", "alertsWritten"} /\ left' = left)
    <3>1. CASE t[1] = "ack"
      <4>1. pc[t] \notin {"ready", "sending", "relayRead", "relayWritten"}
        BY <1>0, <3>1 DEF PathInv, Path
      <4>2. WriteAlerts(t) \/ AlertsWritten(t)
        BY <1>5, <3>1, <4>1 DEF SendPacket, Ready, SendResolves, SendFails, WriteRelay, RelayWritten, At
      <4> QED  BY <4>2 DEF WriteAlerts, AlertsWritten, At
    <3>2. CASE t[1] # "ack"  BY <3>2, TaskType, RecordsAssumption
    <3> QED  BY <3>1, <3>2
  <2>6. \A u \in Task : u # t => copy'[u] = copy[u]
    <3>1. copy' = copy \/ \E list : copy' = [copy EXCEPT ![t] = list]
      BY <1>5 DEF SendPacket, SendResolves, SendFails, WriteRelay, RelayWritten, WriteAlerts,
                  AlertsWritten, AfterSend, Read, Goto, Upsert
    <3> QED  BY <1>0, <3>1
  <2>7. Next7 \subseteq Label  BY DEF Label
  <2> QED  BY <2>1, <2>2, <2>3, <2>4, <2>5, <2>6, <2>7, TurnKeepsAck
<1>6. CASE Restart
  <2>1. disk' = disk /\ stale' = stale /\ left' = left
        /\ \A t \in Task : pc'[t] = (IF pc[t] \in {"idle", "done"} THEN pc[t] ELSE "dead")
    BY <1>6 DEF Restart
  <2>2. ASSUME NEW m \in Outgoing  PROVE  Kept(m)
    BY <2>1, TasksDiffer DEF Kept, AckInv, OrderInv, AckRecorded
  <2> QED  BY <2>1, <2>2, OutboxKept
<1>7. CASE UNCHANGED vars
  BY <1>7 DEF vars, AckInv, OrderInv, OutboxInv, AckIsRecorded, Stored
<1> QED  BY <1>1, <1>2, <1>3, <1>4, <1>5, <1>6, <1>7 DEF Next

\* Whatever the interleaving and the restarts, a handled acknowledgement is in the outbox
\* unless a call wrote the outbox from a copy that was no longer current.
THEOREM AckCorrect == Spec => []AckIsRecorded
<1>1. Spec => []AckInv  BY AckInit, AckStep, PTL DEF Spec
<1>2. AckInv => AckIsRecorded  BY DEF AckInv
<1> QED  BY <1>1, <1>2, PTL

-----------------------------------------------------------------------------
\* The relay queue under the turns that fill it.  The labels before a task of a kind has
\* put its packet in the relay queue, if it does:
BeforeRelay(kind) ==
    {"idle", "outboxRead", "outboxWritten", "ready", "sending", "relayRead"} \cup
    IF kind = "alert" THEN {"alertsRead", "alertsWritten"} ELSE {}

\* A packet is put in the relay queue once, so it is appended there and never replaced.
QueuedInv ==
    \A t \in Task : t[1] # "ack" /\ pc[t] \in BeforeRelay(t[1])
                       => \A i \in 1..Len(queued) : queued[i] # t[2]

RelayInv == TypeInv /\ PathInv /\ QueuedInv /\ RelayKeepsNewest

\* The records of a list are those of the ids put last.
EndOf(list, ids) ==
    /\ Len(list) = (IF Len(ids) > MaxRelay THEN MaxRelay ELSE Len(ids))
    /\ \A i \in DOMAIN list : list[i].id = ids[Len(ids) - Len(list) + i]

LEMMA RelayIsEnd ==
    /\ RelayKeepsNewest <=> ("relay" \notin stale => EndOf(disk["relay"], queued))
    /\ RelayKeepsNewest' <=> ("relay" \notin stale' => EndOf(disk'["relay"], queued'))
BY DEF RelayKeepsNewest, EndOf

\* One more record, and the oldest is dropped at the limit.
LEMMA NewestAppend ==
    ASSUME NEW list \in Seq(Record), NEW ids \in Seq(Id), NEW r \in Record, EndOf(list, ids)
    PROVE  EndOf(Newest(Append(list, r)), Append(ids, r.id))
<1> DEFINE long == Append(list, r)
           more == Append(ids, r.id)
           new  == Newest(long)
           n    == Len(list)
           k    == Len(ids)
<1>0. /\ MaxRelay \in Nat \ {0} /\ n \in Nat /\ k \in Nat
      /\ n = (IF k > MaxRelay THEN MaxRelay ELSE k)
      /\ DOMAIN list = 1..n /\ r.id \in Id
  BY RecordsAssumption DEF EndOf, Record
<1>1. long \in Seq(Record) /\ Len(long) = n + 1 /\ DOMAIN long = 1..(n + 1)
      /\ long[n + 1] = r /\ \A i \in 1..n : long[i] = list[i]
  OBVIOUS
<1>2. Len(more) = k + 1 /\ more[k + 1] = r.id /\ \A i \in 1..k : more[i] = ids[i]
  BY <1>0
<1>3. \A i \in 1..n : list[i].id = ids[k - n + i] /\ k - n + i \in 1..k
  <2>1. n <= k  BY <1>0
  <2>2. \A i \in 1..n : k - n + i \in 1..k  BY <1>0, <2>1
  <2>3. \A i \in 1..n : list[i].id = ids[k - n + i]  BY <1>0 DEF EndOf
  <2> QED  BY <2>2, <2>3
<1> HIDE DEF long, more, n, k
<1>4. ASSUME NEW i \in 1..(n + 1)  PROVE  long[i].id = more[k - n + i]
  <2>1. CASE i = n + 1  BY <1>0, <1>1, <1>2, <2>1
  <2>2. CASE i # n + 1
    <3>1. i \in 1..n  BY <1>0, <2>2
    <3> QED  BY <1>1, <1>2, <1>3, <3>1
  <2> QED  BY <2>1, <2>2
<1>5. CASE n + 1 > MaxRelay
  <2>1. n = MaxRelay  BY <1>0, <1>5
  <2>2. new = SubSeq(long, 2, n + 1)  BY <1>0, <1>1, <1>5, <2>1 DEF Newest
  <2>3. /\ new \in Seq(Record) /\ Len(new) = n
        /\ \A i \in 1..n : new[i] = long[i + 1]
    BY <1>0, <1>1, <2>2
  <2> HIDE DEF new
  <2>4. DOMAIN new = 1..n  BY <2>3
  <2>5. ASSUME NEW i \in 1..n  PROVE  new[i].id = more[k + 1 - n + i]
    <3>1. i + 1 \in 1..(n + 1) /\ k - n + (i + 1) = k + 1 - n + i  BY <1>0
    <3> QED  BY <1>4, <2>3, <3>1
  <2>6. k + 1 > MaxRelay  BY <1>0, <2>1
  <2>7. EndOf(new, more)
    <3>1. Len(new) = (IF Len(more) > MaxRelay THEN MaxRelay ELSE Len(more))
      BY <1>2, <2>1, <2>3, <2>6
    <3>2. ASSUME NEW i \in DOMAIN new  PROVE  new[i].id = more[Len(more) - Len(new) + i]
      <4>1. i \in 1..n  BY <2>4, <3>2
      <4>2. Len(more) - Len(new) + i = k + 1 - n + i  BY <1>0, <1>2, <2>3
      <4> QED  BY <2>5, <4>1, <4>2
    <3> QED  BY <3>1, <3>2 DEF EndOf
  <2> QED  BY <2>7 DEF new, long, more
<1>6. CASE ~(n + 1 > MaxRelay)
  <2>1. n = k /\ ~(k + 1 > MaxRelay)  BY <1>0, <1>6
  <2>2. new = long  BY <1>1, <1>6 DEF Newest
  <2>3. ASSUME NEW i \in 1..(n + 1)  PROVE  long[i].id = more[k + 1 - (n + 1) + i]
    <3>1. k - n + i = k + 1 - (n + 1) + i  BY <1>0
    <3> QED  BY <1>4, <3>1
  <2>4. EndOf(long, more)  BY <1>0, <1>1, <1>2, <2>1, <2>3 DEF EndOf
  <2> QED  BY <2>2, <2>4 DEF long, more
<1> QED  BY <1>5, <1>6

LEMMA RelayInit == Init => RelayInv
<1> SUFFICES ASSUME Init  PROVE  QueuedInv /\ RelayKeepsNewest /\ PathInv
  BY TypeInit DEF RelayInv
<1>1. queued = <<>> /\ disk["relay"] = <<>> /\ MaxRelay \in Nat \ {0}
  BY RecordsAssumption DEF Init, Key
<1>2. Len(queued) = 0 /\ Len(disk["relay"]) = 0 /\ DOMAIN disk["relay"] = {}  BY <1>1
<1>3. EndOf(disk["relay"], queued)  BY <1>1, <1>2 DEF EndOf
<1>4. QueuedInv  BY <1>2 DEF QueuedInv
<1>5. PathInv  BY DEF Init, PathInv, Path
<1> QED  BY <1>3, <1>4, <1>5, RelayIsEnd

\* A turn of one task that puts nothing in the queue and goes no step back.
LEMMA QueuedTurn ==
    ASSUME TypeInv, QueuedInv, NEW t \in Task, NEW x, pc' = [pc EXCEPT ![t] = x],
           t[1] = "ack" \/ (x \in BeforeRelay(t[1]) => pc[t] \in BeforeRelay(t[1])),
           queued' = queued
    PROVE  QueuedInv'
<1>1. pc \in [Task -> Label]  BY DEF TypeInv, TypeOK
<1> QED  BY <1>1 DEF QueuedInv

\* Two tasks that send are about different packets.
LEMMA SendersDiffer ==
    ASSUME NEW t \in Task, NEW u \in Task, t[1] # "ack", u[1] # "ack", t[2] = u[2]
    PROVE  t = u
BY TaskType, RecordsAssumption DEF Task

\* Every turn but the write of the relay queue leaves the queue alone.
LEMMA RelayKept ==
    ASSUME RelayKeepsNewest, disk'["relay"] = disk["relay"], stale \subseteq stale', queued' = queued
    PROVE  RelayKeepsNewest'
BY RelayIsEnd

LEMMA WriteRelayKeeps ==
    ASSUME RelayInv, NEW t \in Task, WriteRelay(t)
    PROVE  QueuedInv' /\ RelayKeepsNewest'
<1> DEFINE r    == [id |-> t[2], state |-> "queued"]
           list == Put(copy[t], r)
<1>1. /\ pc \in [Task -> Label] /\ copy \in [Task -> Seq(Record)] /\ disk \in [Key -> Seq(Record)]
      /\ queued \in Seq(Id) /\ "relay" \in Key
  BY DEF RelayInv, TypeInv, TypeOK, Key
<1>2. /\ pc[t] = "relayRead" /\ pc' = [pc EXCEPT ![t] = "relayWritten"]
      /\ queued' = Append(queued, t[2])
      /\ disk' = [disk EXCEPT !["relay"] = Newest(list)]
      /\ stale' = IF copy[t] = disk["relay"] THEN stale ELSE stale \cup {"relay"}
  BY DEF WriteRelay, Upsert, At
<1>3. t[1] # "ack"  BY <1>2 DEF RelayInv, PathInv, Path
<1>4. r \in Record /\ r.id = t[2] /\ t[2] \in Id  BY TaskType DEF Record
<1>5. QueuedInv'
  <2> SUFFICES ASSUME NEW u \in Task, u[1] # "ack", pc'[u] \in BeforeRelay(u[1]),
                      NEW i \in 1..Len(queued')
               PROVE  queued'[i] # u[2]
    BY DEF QueuedInv
  <2>1. u # t  BY <1>1, <1>2 DEF BeforeRelay
  <2>2. pc[u] \in BeforeRelay(u[1])  BY <1>1, <1>2, <2>1
  <2>3. u[2] # t[2]  BY <1>3, <2>1, SendersDiffer
  <2>4. CASE i \in 1..Len(queued)
    <3>1. queued'[i] = queued[i]  BY <1>1, <1>2, <1>4, <2>4
    <3> QED  BY <2>2, <2>4, <3>1 DEF RelayInv, QueuedInv
  <2>5. CASE i \notin 1..Len(queued)
    <3>1. i = Len(queued) + 1 /\ queued'[i] = t[2]  BY <1>1, <1>2, <1>4, <2>5
    <3> QED  BY <2>3, <3>1
  <2> QED  BY <2>4, <2>5
<1>6. ASSUME "relay" \notin stale'  PROVE  EndOf(disk'["relay"], queued')
  <2>1. copy[t] = disk["relay"] /\ "relay" \notin stale  BY <1>2, <1>6
  <2>2. EndOf(disk["relay"], queued)  BY <2>1, RelayIsEnd DEF RelayInv
  <2>3. ~Has(disk["relay"], t[2])
    <3> SUFFICES ASSUME NEW i \in DOMAIN disk["relay"]  PROVE  disk["relay"][i].id # t[2]
      BY DEF Has
    <3>1. DOMAIN disk["relay"] = 1..Len(disk["relay"]) /\ Len(queued) \in Nat
          /\ Len(disk["relay"]) \in Nat /\ MaxRelay \in Nat
      BY <1>1, RecordsAssumption
    <3>2. Len(queued) - Len(disk["relay"]) + i \in 1..Len(queued)  BY <2>2, <3>1 DEF EndOf
    <3>3. pc[t] \in BeforeRelay(t[1])  BY <1>2 DEF BeforeRelay
    <3> QED  BY <1>3, <2>2, <3>2, <3>3 DEF RelayInv, QueuedInv, EndOf
  <2>4. list = Append(disk["relay"], r)  BY <1>4, <2>1, <2>3 DEF Put
  <2>5. disk["relay"] \in Seq(Record)  BY <1>1
  <2>6. EndOf(Newest(Append(disk["relay"], r)), Append(queued, r.id))
    BY <1>1, <1>4, <2>2, <2>5, NewestAppend
  <2>7. disk'["relay"] = Newest(Append(disk["relay"], r))
    <3> HIDE DEF list
    <3> QED  BY <1>1, <1>2, <2>4
  <2> QED  BY <1>2, <1>4, <2>6, <2>7
<1> QED  BY <1>5, <1>6, RelayIsEnd

THEOREM RelayStep == RelayInv /\ [Next]_vars => RelayInv'
<1> SUFFICES ASSUME RelayInv, [Next]_vars  PROVE  QueuedInv' /\ RelayKeepsNewest'
  BY TypeStep, PathStep DEF RelayInv
<1>0. pc \in [Task -> Label] /\ disk \in [Key -> Seq(Record)] /\ TypeInv /\ PathInv /\ QueuedInv
      /\ RelayKeepsNewest
  BY DEF RelayInv, TypeInv, TypeOK
<1>1. ASSUME NEW m \in Outgoing, QueueMessage(m) \/ Acknowledgement(m) \/ AckOutboxListed(m)
                                \/ AckOutboxWritten(m) \/ AckAlertsListed(m)
      PROVE  QueuedInv' /\ RelayKeepsNewest'
  <2>1. QueueTask(m) \in Task /\ AckTask(m) \in Task /\ QueueTask(m)[1] = "queue"
        /\ AckTask(m)[1] = "ack"
    BY TasksDiffer
  <2>2. disk' = disk /\ stale' = stale /\ queued' = queued
    BY <1>1 DEF QueueMessage, Acknowledgement, AckOutboxListed, AckOutboxWritten, AckAlertsListed,
                Read, Goto
  <2>3. \/ pc[QueueTask(m)] = "idle" /\ pc' = [pc EXCEPT ![QueueTask(m)] = "outboxRead"]
        \/ \E x \in Label : pc' = [pc EXCEPT ![AckTask(m)] = x]
    BY <1>1 DEF QueueMessage, Acknowledgement, AckOutboxListed, AckOutboxWritten, AckAlertsListed,
                Read, Goto, At, QueueTask, AckTask, Label
  <2>4. QueuedInv'
    BY <1>0, <2>1, <2>2, <2>3, QueuedTurn DEF BeforeRelay
  <2> QED  BY <1>0, <2>2, <2>4, RelayKept
<1>2. ASSUME NEW i \in Incoming, ReceiveAlert(i)  PROVE  QueuedInv' /\ RelayKeepsNewest'
  <2>1. <<"alert", i>> \in Task /\ <<"alert", i>>[1] = "alert"  BY DEF Task
  <2>2. /\ disk' = disk /\ stale' = stale /\ queued' = queued
        /\ pc[<<"alert", i>>] = "idle" /\ pc' = [pc EXCEPT ![<<"alert", i>>] = "alertsRead"]
    BY <1>2 DEF ReceiveAlert, Read, At
  <2>3. QueuedInv'  BY <1>0, <2>1, <2>2, QueuedTurn DEF BeforeRelay
  <2> QED  BY <1>0, <2>2, <2>3, RelayKept
<1>3. ASSUME NEW t \in Task,
             \/ WriteOutbox(t) \/ SendPacket(t) \/ SendResolves(t) \/ SendFails(t)
             \/ RelayWritten(t) \/ WriteAlerts(t) \/ AlertsWritten(t)
      PROVE  QueuedInv' /\ RelayKeepsNewest'
  <2>1. queued' = queued /\ stale \subseteq stale'
    BY <1>3 DEF WriteOutbox, SendPacket, SendResolves, SendFails, RelayWritten, WriteAlerts,
                AlertsWritten, AfterSend, Read, Goto, Upsert
  <2>2. disk'["relay"] = disk["relay"]
    <3>1. disk' = disk \/ \E key \in {"outbox", "alerts"} : \E list : disk' = [disk EXCEPT ![key] = list]
      BY <1>3 DEF WriteOutbox, SendPacket, SendResolves, SendFails, RelayWritten, WriteAlerts,
                  AlertsWritten, AfterSend, Read, Goto, Upsert
    <3> QED  BY <1>0, <3>1 DEF Key
  <2>3. \E x : /\ pc' = [pc EXCEPT ![t] = x]
               /\ t[1] = "ack" \/ (x \in BeforeRelay(t[1]) => pc[t] \in BeforeRelay(t[1]))
    <3>1. CASE WriteOutbox(t)
      BY <3>1 DEF WriteOutbox, Upsert, At, BeforeRelay
    <3>2. CASE SendPacket(t)
      BY <3>2 DEF SendPacket, Ready, Read, Goto, At, BeforeRelay
    <3>3. CASE SendFails(t)
      BY <3>3 DEF SendFails, Read, At, BeforeRelay
    <3>4. CASE SendResolves(t) \/ RelayWritten(t)
      <4>1. AfterSend(t)  BY <3>4 DEF SendResolves, RelayWritten
      <4>2. CASE t[1] = "queue"
        BY <4>1, <4>2 DEF AfterSend, Read, BeforeRelay
      <4>3. CASE t[1] # "queue"
        BY <4>1, <4>3 DEF AfterSend, Goto, BeforeRelay
      <4> QED  BY <4>2, <4>3
    <3>5. CASE WriteAlerts(t)
      <4>1. pc' = [pc EXCEPT ![t] = "alertsWritten"] /\ pc[t] = "alertsRead"
        BY <3>5 DEF WriteAlerts, Upsert, At
      <4>2. "alertsWritten" \in BeforeRelay(t[1]) => "alertsRead" \in BeforeRelay(t[1])
        BY DEF BeforeRelay
      <4> QED  BY <4>1, <4>2
    <3>6. CASE AlertsWritten(t)
      <4> DEFINE x == IF t[1] = "alert" THEN "ready" ELSE "done"
      <4>1. pc' = [pc EXCEPT ![t] = x] /\ pc[t] = "alertsWritten"
        BY <3>6 DEF AlertsWritten, Goto, At
      <4>2. x \in BeforeRelay(t[1]) => "alertsWritten" \in BeforeRelay(t[1])
        BY DEF BeforeRelay
      <4> QED  BY <4>1, <4>2
    <3> QED  BY <1>3, <3>1, <3>2, <3>3, <3>4, <3>5, <3>6
  <2>4. QueuedInv'  BY <1>0, <2>1, <2>3, QueuedTurn
  <2> QED  BY <1>0, <2>1, <2>2, <2>4, RelayKept
<1>4. ASSUME NEW t \in Task, WriteRelay(t)  PROVE  QueuedInv' /\ RelayKeepsNewest'
  BY <1>4, WriteRelayKeeps
<1>5. CASE Restart
  <2>1. /\ disk' = disk /\ stale' = stale /\ queued' = queued
        /\ \A t \in Task : pc'[t] = (IF pc[t] \in {"idle", "done"} THEN pc[t] ELSE "dead")
    BY <1>5 DEF Restart
  <2>2. \A t \in Task : pc'[t] \in BeforeRelay(t[1]) => pc'[t] = pc[t]
    BY <2>1 DEF BeforeRelay
  <2>3. QueuedInv'  BY <1>0, <2>1, <2>2 DEF QueuedInv
  <2> QED  BY <1>0, <2>1, <2>3, RelayKept
<1>6. CASE UNCHANGED vars
  BY <1>0, <1>6, RelayKept DEF vars, QueuedInv
<1> QED  BY <1>1, <1>2, <1>3, <1>4, <1>5, <1>6 DEF Next

\* Whatever the interleaving and the restarts, the relay queue holds the packets queued
\* last, in order and up to its limit, unless a call wrote it from a copy that was no
\* longer current.
THEOREM RelayCorrect == Spec => []RelayKeepsNewest
<1>1. Spec => []RelayInv  BY RelayInit, RelayStep, PTL DEF Spec
<1>2. RelayInv => RelayKeepsNewest  BY DEF RelayInv
<1> QED  BY <1>1, <1>2, PTL

-----------------------------------------------------------------------------
\* What upsert makes of the state a list shows for an id.
LEMMA StateOf ==
    ASSUME NEW list, Unique(list), NEW i \in DOMAIN list
    PROVE  Has(list, list[i].id) /\ StateIn(list, list[i].id) = list[i].state
<1> DEFINE k == CHOOSE j \in DOMAIN list : list[j].id = list[i].id
<1>1. Has(list, list[i].id)  BY DEF Has
<1>2. k \in DOMAIN list /\ list[k].id = list[i].id  OBVIOUS
<1>3. StateIn(list, list[i].id) = list[k].state  BY <1>1 DEF StateIn
<1> HIDE DEF k
<1>4. k = i  BY <1>2 DEF Unique
<1> QED  BY <1>1, <1>3, <1>4

LEMMA NotThere ==
    ASSUME NEW list \in Seq(Record), NEW id
    PROVE  ~Has(list, id) <=> StateIn(list, id) = "none"
<1>1. CASE ~Has(list, id)  BY <1>1 DEF StateIn
<1>2. CASE Has(list, id)
  <2> DEFINE k == CHOOSE j \in DOMAIN list : list[j].id = id
  <2>1. \E j \in DOMAIN list : list[j].id = id  BY <1>2 DEF Has
  <2>2. k \in DOMAIN list /\ StateIn(list, id) = list[k].state  BY <1>2, <2>1 DEF StateIn
  <2> HIDE DEF k
  <2>3. list[k] \in Record  BY <2>2
  <2> QED  BY <1>2, <2>2, <2>3 DEF Record
<1> QED  BY <1>1, <1>2

\* Lists that show the same records show the same state for an id.
LEMMA SameState ==
    ASSUME NEW one, NEW two, NEW id, Unique(one), Unique(two),
           \A x : x.id = id => (x \in Records(one) <=> x \in Records(two))
    PROVE  (Has(one, id) <=> Has(two, id)) /\ StateIn(one, id) = StateIn(two, id)
<1>1. Has(one, id) <=> Has(two, id)  BY HasRecord
<1>2. CASE ~Has(one, id)  BY <1>1, <1>2 DEF StateIn
<1>3. CASE Has(one, id)
  <2>1. PICK i \in DOMAIN one : one[i].id = id  BY <1>3 DEF Has
  <2>2. one[i] \in Records(two)  BY <2>1 DEF Records
  <2>3. PICK j \in DOMAIN two : two[j] = one[i]  BY <2>2 DEF Records
  <2>4. StateIn(one, id) = one[i].state /\ StateIn(two, id) = two[j].state
    BY <2>1, <2>3, StateOf
  <2> QED  BY <1>1, <2>3, <2>4
<1> QED  BY <1>2, <1>3

LEMMA PutState ==
    ASSUME NEW list \in Seq(Record), NEW r \in Record, Unique(list)
    PROVE  /\ Has(Put(list, r), r.id) /\ StateIn(Put(list, r), r.id) = r.state
           /\ \A id : id # r.id => /\ Has(Put(list, r), id) <=> Has(list, id)
                                   /\ StateIn(Put(list, r), id) = StateIn(list, id)
<1> DEFINE new == Put(list, r)
<1>1. new \in Seq(Record) /\ Unique(new)  BY PutType, PutUnique
<1>2. r \in Records(new) /\ \A x \in Records(list) : x.id # r.id => x \in Records(new)
  BY PutKeeps
<1>3. \A x \in Records(new) : x.id # r.id => x \in Records(list)
  <2>1. CASE Has(list, r.id)
    <3>1. new = [i \in 1..Len(list) |-> IF list[i].id = r.id THEN r ELSE list[i]]
          /\ DOMAIN list = 1..Len(list)
      BY <2>1 DEF Put
    <3> HIDE DEF new
    <3>2. ASSUME NEW i \in DOMAIN new  PROVE  new[i] = r \/ (i \in DOMAIN list /\ new[i] = list[i])
      BY <3>1
    <3> QED  BY <3>2 DEF Records
  <2>2. CASE ~Has(list, r.id)
    <3>1. new = Append(list, r) /\ DOMAIN list = 1..Len(list) /\ DOMAIN new = 1..(Len(list) + 1)
          /\ Len(list) \in Nat
      BY <2>2 DEF Put
    <3>2. new[Len(list) + 1] = r /\ \A i \in 1..Len(list) : new[i] = list[i]  BY <3>1
    <3> HIDE DEF new
    <3> QED  BY <3>1, <3>2 DEF Records
  <2> QED  BY <2>1, <2>2
<1> HIDE DEF new
<1>4. PICK i \in DOMAIN new : new[i] = r  BY <1>2 DEF Records
<1>5. Has(new, r.id) /\ StateIn(new, r.id) = r.state  BY <1>1, <1>4, StateOf
<1>6. ASSUME NEW id, id # r.id
      PROVE  (Has(new, id) <=> Has(list, id)) /\ StateIn(new, id) = StateIn(list, id)
  BY <1>1, <1>2, <1>3, <1>6, SameState
<1> QED  BY <1>5, <1>6 DEF new

-----------------------------------------------------------------------------
\* StatusAgrees and ScreenIsStored look at what several tasks have done.  Between their
\* turns a message and its alert are related task label by task label.
MessageAlert(m) ==
    LET q == pc[QueueTask(m)]
        k == pc[AckTask(m)]
        list == disk["alerts"]
    IN  /\ q \in {"alertsWritten", "done"} => Has(list, m)
        /\ k = "alertsListed" /\ Has(copy[AckTask(m)], m) => Has(list, m)
        /\ k = "alertsRead" => Has(list, m)
        /\ m \notin early =>
              /\ k = "alertsListed" /\ q = "done" => Has(copy[AckTask(m)], m)
              /\ q = "alertsWritten" => StateIn(list, m) = "queued"
              /\ k = "alertsWritten" => StateIn(list, m) = "delivered" /\ screen[m] # "none"
              /\ k = "done" /\ q = "done" /\ "outbox" \notin stale => StateIn(list, m) = "delivered"
              /\ "alertsWritten" \notin {q, k} => screen[m] = StateIn(list, m)

\* The shown message; an acknowledgement that is not early finds queueMessage over.
MessageChat(m) ==
    LET q == pc[QueueTask(m)]
        k == pc[AckTask(m)]
    IN  /\ m \notin early /\ k # "idle" => q \in {"done", "dead"}
        /\ q \in {"alertsRead", "alertsWritten", "done"} => chat[m] # "none" \/ restarts > 0
        /\ (/\ m \notin early /\ "outbox" \notin stale
            /\ k \in {"alertsListed", "alertsRead", "alertsWritten", "done"}) => chat[m] # "queued"

MessageInv(m) == MessageChat(m) /\ ("alerts" \notin stale => MessageAlert(m))

AlertTask(i) == <<"alert", i>>

ReceivedInv(i) ==
    "alerts" \notin stale =>
        IF pc[AlertTask(i)] = "alertsWritten" THEN StateIn(disk["alerts"], i) = "delivered"
        ELSE screen[i] = StateIn(disk["alerts"], i)

StatusInv ==
    AckInv /\ (\A m \in Outgoing : MessageInv(m)) /\ (\A i \in Incoming : ReceivedInv(i))

\* A turn of one task is about its own id: what it leaves alone of the others.
Turn(t) ==
    /\ \A u \in Task : u # t => pc'[u] = pc[u] /\ copy'[u] = copy[u]
    /\ \A id \in Outgoing \cup Incoming : id # t[2] =>
          /\ screen'[id] = screen[id]
          /\ id \in early' <=> id \in early
          /\ id \in Outgoing => chat'[id] = chat[id]
          /\ "alerts" \notin stale' => /\ Has(disk'["alerts"], id) <=> Has(disk["alerts"], id)
                                       /\ StateIn(disk'["alerts"], id) = StateIn(disk["alerts"], id)
    /\ stale \subseteq stale' /\ restarts' = restarts

OwnInv(id) == (id \in Outgoing => MessageInv(id)) /\ (id \in Incoming => ReceivedInv(id))

LEMMA AlertDiffers ==
    ASSUME NEW i \in Incoming
    PROVE  /\ AlertTask(i) \in Task /\ AlertTask(i)[1] = "alert" /\ AlertTask(i)[2] = i
           /\ \A t \in Task : t[2] = i => t = AlertTask(i)
BY TaskType, RecordsAssumption DEF AlertTask, Task

LEMMA TurnStatus ==
    ASSUME StatusInv, NEW t \in Task, Turn(t), OwnInv(t[2])'
    PROVE  (\A m \in Outgoing : MessageInv(m)') /\ (\A i \in Incoming : ReceivedInv(i)')
<1>1. ASSUME NEW m \in Outgoing, m # t[2]  PROVE  MessageInv(m)'
  <2>1. /\ pc'[QueueTask(m)] = pc[QueueTask(m)] /\ pc'[AckTask(m)] = pc[AckTask(m)]
        /\ copy'[AckTask(m)] = copy[AckTask(m)]
    BY <1>1, TasksDiffer DEF Turn
  <2>2. /\ screen'[m] = screen[m] /\ chat'[m] = chat[m] /\ (m \in early' <=> m \in early)
        /\ stale \subseteq stale' /\ restarts' = restarts
    BY <1>1 DEF Turn
  <2>3. MessageInv(m)  BY DEF StatusInv
  <2>4. MessageChat(m)'  BY <2>1, <2>2, <2>3 DEF MessageInv, MessageChat
  <2>5. ASSUME "alerts" \notin stale'  PROVE  MessageAlert(m)'
    <3>1. /\ Has(disk'["alerts"], m) <=> Has(disk["alerts"], m)
          /\ StateIn(disk'["alerts"], m) = StateIn(disk["alerts"], m)
      BY <1>1, <2>5 DEF Turn
    <3>2. MessageAlert(m)  BY <2>2, <2>3, <2>5 DEF MessageInv
    <3> QED  BY <2>1, <2>2, <3>1, <3>2 DEF MessageAlert
  <2> QED  BY <2>4, <2>5 DEF MessageInv
<1>2. ASSUME NEW i \in Incoming, i # t[2]  PROVE  ReceivedInv(i)'
  <2>1. pc'[AlertTask(i)] = pc[AlertTask(i)]  BY <1>2, AlertDiffers DEF Turn
  <2>2. /\ screen'[i] = screen[i] /\ stale \subseteq stale'
        /\ "alerts" \notin stale' => StateIn(disk'["alerts"], i) = StateIn(disk["alerts"], i)
    BY <1>2 DEF Turn
  <2> QED  BY <2>1, <2>2 DEF StatusInv, ReceivedInv
<1> QED  BY <1>1, <1>2 DEF OwnInv

LEMMA AlertsWrite ==
    ASSUME TypeInv, NEW t \in Task, WriteAlerts(t), "alerts" \notin stale'
    PROVE  /\ Has(disk'["alerts"], t[2])
           /\ StateIn(disk'["alerts"], t[2]) = (IF t[1] = "queue" THEN "queued" ELSE "delivered")
           /\ \A id : id # t[2] => /\ Has(disk'["alerts"], id) <=> Has(disk["alerts"], id)
                                   /\ StateIn(disk'["alerts"], id) = StateIn(disk["alerts"], id)
<1> DEFINE r    == [id |-> t[2], state |-> IF t[1] = "queue" THEN "queued" ELSE "delivered"]
           list == Put(copy[t], r)
<1>1. r \in Record /\ r.id = t[2] /\ r.state = (IF t[1] = "queue" THEN "queued" ELSE "delivered")
  BY TaskType DEF Record
<1>2. /\ "alerts" \in Key /\ disk \in [Key -> Seq(Record)]
      /\ disk["alerts"] \in Seq(Record) /\ Unique(disk["alerts"])
  BY DEF Key, TypeInv, TypeOK
<1>3. copy[t] = disk["alerts"]  BY DEF WriteAlerts, Upsert
<1>4. disk'["alerts"] = list
  <2>1. disk' = [disk EXCEPT !["alerts"] = IF "alerts" = "relay" THEN Newest(list) ELSE list]
    BY DEF WriteAlerts, Upsert
  <2> HIDE DEF list
  <2> QED  BY <1>2, <2>1
<1>5. list = Put(disk["alerts"], r)  BY <1>3
<1> HIDE DEF list, r
<1> QED  BY <1>1, <1>2, <1>4, <1>5, PutState

\* The turns of a task, apart from the first turn of an acknowledgement and from a restart.
Turns(t) ==
    \/ QueueMessage(t[2]) /\ t[1] = "queue"
    \/ t[1] = "ack" /\ (\/ Acknowledgement(t[2]) \/ AckOutboxListed(t[2])
                        \/ AckOutboxWritten(t[2]) \/ AckAlertsListed(t[2]))
    \/ ReceiveAlert(t[2]) /\ t[1] = "alert"
    \/ WriteOutbox(t) \/ SendPacket(t) \/ SendResolves(t) \/ SendFails(t)
    \/ WriteRelay(t) \/ RelayWritten(t) \/ WriteAlerts(t) \/ AlertsWritten(t)

LEMMA EveryTurn ==
    ASSUME Next, ~Restart
    PROVE  \E t \in Task : Turns(t)
<1>1. ASSUME NEW m \in Outgoing, QueueMessage(m)  PROVE  Turns(QueueTask(m))
  BY <1>1, TasksDiffer DEF Turns
<1>2. ASSUME NEW m \in Outgoing, \/ Acknowledgement(m) \/ AckOutboxListed(m)
                                 \/ AckOutboxWritten(m) \/ AckAlertsListed(m)
      PROVE  Turns(AckTask(m))
  BY <1>2, TasksDiffer DEF Turns
<1>3. ASSUME NEW i \in Incoming, ReceiveAlert(i)  PROVE  Turns(AlertTask(i))
  BY <1>3, AlertDiffers DEF Turns
<1>4. ASSUME NEW t \in Task,
             \/ WriteOutbox(t) \/ SendPacket(t) \/ SendResolves(t) \/ SendFails(t)
             \/ WriteRelay(t) \/ RelayWritten(t) \/ WriteAlerts(t) \/ AlertsWritten(t)
      PROVE  Turns(t)
  BY <1>4 DEF Turns
<1> QED  BY <1>1, <1>2, <1>3, <1>4, TasksDiffer, AlertDiffers DEF Next

\* A turn changes the alerts only where it writes them, and tells no other task.
LEMMA IsTurn ==
    ASSUME TypeInv, NEW t \in Task, Turns(t)
    PROVE  Turn(t)
<1>0. /\ pc \in [Task -> Label] /\ copy \in [Task -> Seq(Record)] /\ disk \in [Key -> Seq(Record)]
      /\ chat \in [Outgoing -> Status] /\ screen \in [Outgoing \cup Incoming -> Status]
      /\ t = <<t[1], t[2]>>
  BY TaskType DEF TypeInv, TypeOK
<1>1. \A u \in Task : u # t => pc'[u] = pc[u] /\ copy'[u] = copy[u]
  <2>1. \E x : pc' = [pc EXCEPT ![t] = x]
    BY <1>0 DEF Turns, QueueMessage, Acknowledgement, AckOutboxListed, AckOutboxWritten, AckAlertsListed,
       ReceiveAlert, WriteOutbox, SendPacket, SendResolves, SendFails, WriteRelay, RelayWritten,
       WriteAlerts, AlertsWritten, AfterSend, Read, Goto, Upsert
  <2>2. copy' = copy \/ \E list : copy' = [copy EXCEPT ![t] = list]
    BY <1>0 DEF Turns, QueueMessage, Acknowledgement, AckOutboxListed, AckOutboxWritten, AckAlertsListed,
       ReceiveAlert, WriteOutbox, SendPacket, SendResolves, SendFails, WriteRelay, RelayWritten,
       WriteAlerts, AlertsWritten, AfterSend, Read, Goto, Upsert
  <2> QED  BY <1>0, <2>1, <2>2
<1>2. ASSUME NEW id \in Outgoing \cup Incoming, id # t[2]
      PROVE  screen'[id] = screen[id] /\ (id \in early' <=> id \in early)
             /\ (id \in Outgoing => chat'[id] = chat[id])
  <2>1. screen' = screen \/ \E x : screen' = [screen EXCEPT ![t[2]] = x]
    BY <1>0 DEF Turns, QueueMessage, Acknowledgement, AckOutboxListed, AckOutboxWritten, AckAlertsListed,
       ReceiveAlert, WriteOutbox, SendPacket, SendResolves, SendFails, WriteRelay, RelayWritten,
       WriteAlerts, AlertsWritten
  <2>2. chat' = chat \/ \E x : chat' = [chat EXCEPT ![t[2]] = x]
    BY <1>0 DEF Turns, QueueMessage, Acknowledgement, AckOutboxListed, AckOutboxWritten, AckAlertsListed,
       ReceiveAlert, WriteOutbox, SendPacket, SendResolves, SendFails, WriteRelay, RelayWritten,
       WriteAlerts, AlertsWritten, AfterSend
  <2>3. early' = early \/ early' = early \cup {t[2]}
    BY DEF Turns, QueueMessage, Acknowledgement, AckOutboxListed, AckOutboxWritten, AckAlertsListed,
       ReceiveAlert, WriteOutbox, SendPacket, SendResolves, SendFails, WriteRelay, RelayWritten,
       WriteAlerts, AlertsWritten
  <2> QED  BY <1>0, <1>2, <2>1, <2>2, <2>3
<1>3. stale \subseteq stale' /\ restarts' = restarts
  BY DEF Turns, QueueMessage, Acknowledgement, AckOutboxListed, AckOutboxWritten, AckAlertsListed,
     ReceiveAlert, WriteOutbox, SendPacket, SendResolves, SendFails, WriteRelay, RelayWritten,
     WriteAlerts, AlertsWritten, AfterSend, Read, Goto, Upsert
<1>4. CASE WriteAlerts(t)
  BY <1>1, <1>2, <1>3, <1>4, AlertsWrite DEF Turn
<1>5. CASE ~WriteAlerts(t)
  <2>1. disk' = disk \/ \E key \in {"outbox", "relay"} : \E list : disk' = [disk EXCEPT ![key] = list]
    BY <1>5 DEF Turns, QueueMessage, Acknowledgement, AckOutboxListed, AckOutboxWritten,
       AckAlertsListed, ReceiveAlert, WriteOutbox, SendPacket, SendResolves, SendFails, WriteRelay,
       RelayWritten, AlertsWritten, AfterSend, Read, Goto, Upsert
  <2>2. disk'["alerts"] = disk["alerts"]  BY <1>0, <2>1 DEF Key
  <2> QED  BY <1>1, <1>2, <1>3, <2>2 DEF Turn
<1> QED  BY <1>4, <1>5

LEMMA QueueOwn ==
    ASSUME StatusInv, NEW m \in Outgoing, Turns(QueueTask(m))
    PROVE  MessageInv(m)'
<1> DEFINE t == QueueTask(m)
           u == AckTask(m)
<1>0. /\ pc \in [Task -> Label] /\ copy \in [Task -> Seq(Record)] /\ disk \in [Key -> Seq(Record)]
      /\ chat \in [Outgoing -> Status] /\ screen \in [Outgoing \cup Incoming -> Status]
      /\ t \in Task /\ u \in Task /\ t # u /\ t[1] = "queue" /\ t[2] = m
      /\ t = <<"queue", m>> /\ TypeInv /\ MessageInv(m) /\ Turns(t)
  BY TasksDiffer DEF StatusInv, AckInv, TypeInv, TypeOK, QueueTask
<1>1. pc'[u] = pc[u] /\ copy'[u] = copy[u] /\ stale \subseteq stale' /\ restarts' = restarts
  BY <1>0, IsTurn DEF Turn
<1>2. /\ pc[t] \in {"idle", "outboxRead"} => pc[u] = "idle"
      /\ pc[t] \notin {"done", "dead"} /\ m \notin early => pc[u] = "idle"
  BY <1>0 DEF StatusInv, AckInv, OrderInv, MessageInv, MessageChat
<1> HIDE DEF t, u
<1>3. CASE WriteAlerts(t)
  <2>1. pc[t] = "alertsRead" /\ pc'[t] = "alertsWritten" /\ screen' = screen /\ chat' = chat
        /\ early' = early
    BY <1>0, <1>3 DEF WriteAlerts, Upsert, At
  <2>2. "alerts" \notin stale' => Has(disk'["alerts"], m) /\ StateIn(disk'["alerts"], m) = "queued"
    BY <1>0, <1>3, AlertsWrite
  <2> QED  BY <1>0, <1>1, <1>2, <2>1, <2>2 DEF MessageInv, MessageChat, MessageAlert, t, u
<1>4. CASE AlertsWritten(t)
  <2>1. pc[t] = "alertsWritten" /\ pc'[t] = "done" /\ screen'[m] = "queued" /\ chat' = chat
        /\ early' = early /\ disk' = disk /\ stale' = stale
    BY <1>0, <1>4 DEF AlertsWritten, Goto, At
  <2> QED  BY <1>0, <1>1, <1>2, <2>1 DEF MessageInv, MessageChat, MessageAlert, t, u
<1>5. CASE ~WriteAlerts(t) /\ ~AlertsWritten(t)
  <2>1. /\ pc[t] \notin {"alertsWritten", "done", "dead"}
        /\ screen' = screen /\ early' = early
    BY <1>0, <1>5, TasksDiffer DEF Turns, QueueMessage, WriteOutbox, SendPacket, Ready, SendResolves, SendFails,
           WriteRelay, RelayWritten, At, t
  <2>2. disk'["alerts"] = disk["alerts"]
    <3>1. disk' = disk \/ \E key \in {"outbox", "relay"} : \E list : disk' = [disk EXCEPT ![key] = list]
      BY <1>0, <1>5 DEF Turns, QueueMessage, WriteOutbox, SendPacket, SendResolves,
         SendFails, WriteRelay, RelayWritten, AfterSend, Read, Goto, Upsert
    <3> QED  BY <1>0, <3>1 DEF Key
  <2>3. \/ /\ pc'[t] \in {"outboxRead", "outboxWritten", "sending", "relayRead", "relayWritten"}
           /\ chat' = chat
        \/ pc'[t] = "alertsRead" /\ chat'[m] = "queued"
    <3>1. CASE SendResolves(t) \/ RelayWritten(t)
      BY <1>0, <3>1 DEF SendResolves, RelayWritten, AfterSend, Read
    <3>2. CASE ~(SendResolves(t) \/ RelayWritten(t))
      <4>1. chat' = chat
        BY <1>0, <1>5, <3>2 DEF Turns, QueueMessage, WriteOutbox, SendPacket, SendFails, WriteRelay
      <4>2. \E x \in {"outboxRead", "outboxWritten", "sending", "relayRead", "relayWritten"} :
               pc' = [pc EXCEPT ![t] = x]
        BY <1>0, <1>5, <3>2 DEF Turns, QueueMessage, WriteOutbox, SendPacket, SendFails,
           WriteRelay, Read, Goto, Upsert
      <4> QED  BY <1>0, <4>1, <4>2
    <3> QED  BY <3>1, <3>2
  <2>4. MessageChat(m)'
    BY <1>0, <1>1, <1>2, <2>1, <2>3 DEF MessageInv, MessageChat, t, u
  <2>5. ASSUME "alerts" \notin stale'  PROVE  MessageAlert(m)'
    BY <1>0, <1>1, <1>2, <2>1, <2>2, <2>3, <2>5 DEF MessageInv, MessageAlert, t, u
  <2> QED  BY <2>4, <2>5 DEF MessageInv
<1> QED  BY <1>3, <1>4, <1>5

LEMMA AckOwn ==
    ASSUME StatusInv, NEW m \in Outgoing, Turns(AckTask(m))
    PROVE  MessageInv(m)'
<1> DEFINE t == QueueTask(m)
           u == AckTask(m)
<1>0. /\ pc \in [Task -> Label] /\ copy \in [Task -> Seq(Record)] /\ disk \in [Key -> Seq(Record)]
      /\ chat \in [Outgoing -> Status] /\ screen \in [Outgoing \cup Incoming -> Status]
      /\ t \in Task /\ u \in Task /\ t # u /\ u[1] = "ack" /\ u[2] = m
      /\ u = <<"ack", m>> /\ t = <<"queue", m>>
      /\ TypeInv /\ PathInv /\ OutboxInv /\ MessageInv(m) /\ Turns(u)
      /\ disk["alerts"] \in Seq(Record)
  BY TasksDiffer DEF StatusInv, AckInv, TypeInv, TypeOK, QueueTask, AckTask, Key
<1>1. pc'[t] = pc[t] /\ stale \subseteq stale' /\ restarts' = restarts
  BY <1>0, IsTurn DEF Turn
<1>2. ~SendPacket(u) /\ ~SendResolves(u) /\ ~SendFails(u) /\ ~WriteRelay(u) /\ ~RelayWritten(u)
  BY <1>0 DEF SendPacket, Ready, SendResolves, SendFails, WriteRelay, RelayWritten, At, PathInv, Path
<1> HIDE DEF t, u
<1>3. CASE Acknowledgement(m)
  <2>1. /\ pc[u] = "idle" /\ pc'[u] = "outboxListed"
        /\ disk' = disk /\ stale' = stale /\ screen' = screen /\ chat' = chat
        /\ early \subseteq early' /\ (m \notin early' => pc[t] \in {"done", "dead"})
    BY <1>0, <1>3 DEF Acknowledgement, Read, At
  <2> QED  BY <1>0, <1>1, <2>1 DEF MessageInv, MessageChat, MessageAlert, t, u
<1>4. CASE AckOutboxListed(m)
  <2>1. /\ pc[u] = "outboxListed"
        /\ pc'[u] = "outboxRead" \/ (pc'[u] = "done" /\ "outbox" \in stale)
        /\ disk' = disk /\ stale' = stale /\ screen' = screen /\ chat' = chat /\ early' = early
    BY <1>0, <1>4 DEF AckOutboxListed, Read, Goto, At, OutboxInv, u
  <2> QED  BY <1>0, <1>1, <2>1 DEF MessageInv, MessageChat, MessageAlert, t, u
<1>5. CASE AckOutboxWritten(m)
  <2>1. /\ pc[u] = "outboxWritten" /\ pc'[u] = "alertsListed" /\ copy'[u] = disk["alerts"]
        /\ disk' = disk /\ stale' = stale /\ screen' = screen /\ early' = early
        /\ chat'[m] = (IF chat[m] = "none" THEN "none" ELSE "delivered")
    BY <1>0, <1>5 DEF AckOutboxWritten, Read, At
  <2> QED  BY <1>0, <1>1, <2>1 DEF MessageInv, MessageChat, MessageAlert, t, u
<1>6. CASE AckAlertsListed(m)
  <2>1. /\ pc[u] = "alertsListed"
        /\ \/ Has(copy[u], m) /\ pc'[u] = "alertsRead"
           \/ ~Has(copy[u], m) /\ pc'[u] = "done"
        /\ disk' = disk /\ stale' = stale /\ screen' = screen /\ chat' = chat /\ early' = early
    BY <1>0, <1>6 DEF AckAlertsListed, Read, Goto, At
  <2> QED  BY <1>0, <1>1, <2>1 DEF MessageInv, MessageChat, MessageAlert, t, u
<1>7. CASE WriteOutbox(u)
  <2>1. pc[u] = "outboxRead" /\ pc'[u] = "outboxWritten" /\ screen' = screen /\ chat' = chat
        /\ early' = early
    BY <1>0, <1>7 DEF WriteOutbox, Upsert, At
  <2>2. disk'["alerts"] = disk["alerts"]
    <3>1. \E list : disk' = [disk EXCEPT !["outbox"] = list]  BY <1>7 DEF WriteOutbox, Upsert
    <3> QED  BY <1>0, <3>1 DEF Key
  <2>3. MessageChat(m)'  BY <1>0, <1>1, <2>1 DEF MessageInv, MessageChat, t, u
  <2>4. ASSUME "alerts" \notin stale'  PROVE  MessageAlert(m)'
    BY <1>0, <1>1, <2>1, <2>2, <2>4 DEF MessageInv, MessageAlert, t, u
  <2> QED  BY <2>3, <2>4 DEF MessageInv
<1>8. CASE WriteAlerts(u)
  <2>1. pc[u] = "alertsRead" /\ pc'[u] = "alertsWritten" /\ screen' = screen /\ chat' = chat
        /\ early' = early
    BY <1>0, <1>8 DEF WriteAlerts, Upsert, At
  <2>2. "alerts" \notin stale'
           => Has(disk'["alerts"], m) /\ StateIn(disk'["alerts"], m) = "delivered"
    BY <1>0, <1>8, AlertsWrite
  <2>3. MessageChat(m)'  BY <1>0, <1>1, <2>1 DEF MessageInv, MessageChat, t, u
  <2>4. ASSUME "alerts" \notin stale'  PROVE  MessageAlert(m)'
    <3>1. Has(disk["alerts"], m) => StateIn(disk["alerts"], m) # "none"  BY <1>0, NotThere
    <3> QED
      BY <1>0, <1>1, <2>1, <2>2, <2>4, <3>1 DEF MessageInv, MessageChat, MessageAlert, t, u
  <2> QED  BY <2>3, <2>4 DEF MessageInv
<1>9. CASE AlertsWritten(u)
  <2>1. pc[u] = "alertsWritten" /\ pc'[u] = "done" /\ chat' = chat
        /\ early' = early /\ disk' = disk /\ stale' = stale
        /\ screen'[m] = (IF screen[m] = "none" THEN "none" ELSE "delivered")
    BY <1>0, <1>9 DEF AlertsWritten, Goto, At
  <2> QED  BY <1>0, <1>1, <2>1 DEF MessageInv, MessageChat, MessageAlert, t, u
<1> QED
  BY <1>0, <1>2, <1>3, <1>4, <1>5, <1>6, <1>7, <1>8, <1>9 DEF Turns

LEMMA AlertOwn ==
    ASSUME StatusInv, NEW i \in Incoming, Turns(AlertTask(i))
    PROVE  ReceivedInv(i)'
<1> DEFINE t == AlertTask(i)
<1>0. /\ pc \in [Task -> Label] /\ disk \in [Key -> Seq(Record)]
      /\ screen \in [Outgoing \cup Incoming -> Status]
      /\ t \in Task /\ t[1] = "alert" /\ t[2] = i /\ t = <<"alert", i>>
      /\ TypeInv /\ PathInv /\ ReceivedInv(i) /\ Turns(t)
  BY AlertDiffers DEF StatusInv, AckInv, TypeInv, TypeOK, AlertTask
<1>1. stale \subseteq stale'  BY <1>0, IsTurn DEF Turn
<1> HIDE DEF t
<1>2. CASE WriteAlerts(t)
  <2>1. pc'[t] = "alertsWritten"  BY <1>0, <1>2 DEF WriteAlerts, Upsert
  <2>2. "alerts" \notin stale' => StateIn(disk'["alerts"], i) = "delivered"
    BY <1>0, <1>2, AlertsWrite
  <2> QED  BY <2>1, <2>2 DEF ReceivedInv, t
<1>3. CASE AlertsWritten(t)
  <2>1. pc[t] = "alertsWritten" /\ pc'[t] = "ready" /\ screen'[i] = "delivered"
        /\ disk' = disk /\ stale' = stale
    BY <1>0, <1>3 DEF AlertsWritten, Goto, At
  <2> QED  BY <1>0, <2>1 DEF ReceivedInv, t
<1>4. CASE ~WriteAlerts(t) /\ ~AlertsWritten(t)
  <2>1. pc[t] # "alertsWritten" /\ screen' = screen
    BY <1>0, <1>4, AlertDiffers DEF Turns, ReceiveAlert, WriteOutbox, SendPacket, Ready,
       SendResolves, SendFails, WriteRelay, RelayWritten, At, t, AlertTask
  <2>2. disk'["alerts"] = disk["alerts"]
    <3>1. disk' = disk \/ \E key \in {"outbox", "relay"} : \E list : disk' = [disk EXCEPT ![key] = list]
      BY <1>0, <1>4 DEF Turns, ReceiveAlert, WriteOutbox, SendPacket, SendResolves,
         SendFails, WriteRelay, RelayWritten, AfterSend, Read, Goto, Upsert
    <3> QED  BY <1>0, <3>1 DEF Key
  <2>3. pc'[t] # "alertsWritten"
    BY <1>0, <1>4 DEF Turns, ReceiveAlert, WriteOutbox, SendPacket, SendResolves,
       SendFails, WriteRelay, RelayWritten, AfterSend, Read, Goto, Upsert, t, AlertTask
  <2> QED  BY <1>0, <1>1, <2>1, <2>2, <2>3 DEF ReceivedInv, t
<1> QED  BY <1>2, <1>3, <1>4

LEMMA StatusInit == Init => StatusInv
<1> SUFFICES ASSUME Init  PROVE  StatusInv
  OBVIOUS
<1>1. AckInv  BY AckInit
<1>2. "alerts" \in Key /\ disk["alerts"] = <<>>  BY DEF Init, Key
<1>3. \A id : ~Has(disk["alerts"], id)  BY <1>2 DEF Has
<1>4. \A id : StateIn(disk["alerts"], id) = "none"  BY <1>3 DEF StateIn
<1>5. ASSUME NEW m \in Outgoing  PROVE  MessageInv(m)
  <2>1. pc[QueueTask(m)] = "idle" /\ pc[AckTask(m)] = "idle" /\ screen[m] = "none"
    BY TasksDiffer DEF Init
  <2> QED  BY <1>4, <2>1 DEF MessageInv, MessageChat, MessageAlert
<1>6. ASSUME NEW i \in Incoming  PROVE  ReceivedInv(i)
  <2>1. pc[AlertTask(i)] = "idle" /\ screen[i] = "none"  BY AlertDiffers DEF Init
  <2> QED  BY <1>4, <2>1 DEF ReceivedInv
<1> QED  BY <1>1, <1>5, <1>6 DEF StatusInv

THEOREM StatusStep == StatusInv /\ [Next]_vars => StatusInv'
<1> SUFFICES ASSUME StatusInv, [Next]_vars
             PROVE  (\A m \in Outgoing : MessageInv(m)') /\ (\A i \in Incoming : ReceivedInv(i)')
  BY AckStep DEF StatusInv
<1>1. CASE Next /\ ~Restart
  <2>1. PICK t \in Task : Turns(t)  BY <1>1, EveryTurn
  <2>2. Turn(t)  BY <2>1, IsTurn DEF StatusInv, AckInv
  <2>3. OwnInv(t[2])'
    <3>1. ASSUME t[2] \in Outgoing  PROVE  MessageInv(t[2])'
      BY <2>1, <3>1, QueueOwn, AckOwn, TasksDiffer
    <3>2. ASSUME t[2] \in Incoming  PROVE  ReceivedInv(t[2])'
      BY <2>1, <3>2, AlertOwn, AlertDiffers
    <3> QED  BY <3>1, <3>2 DEF OwnInv
  <2> QED  BY <2>1, <2>2, <2>3, TurnStatus
<1>2. CASE Restart
  <2>1. /\ disk' = disk /\ early' = early /\ stale' = stale /\ restarts' = restarts + 1
        /\ restarts \in Nat
        /\ \A t \in Task : pc'[t] = (IF pc[t] \in {"idle", "done"} THEN pc[t] ELSE "dead")
        /\ \A m \in Outgoing : chat'[m] = "none"
        /\ \A m \in Outgoing \cup Incoming : screen'[m] = StateIn(disk["alerts"], m)
    BY <1>2 DEF Restart, StatusInv, AckInv, TypeInv, TypeOK
  <2>2. ASSUME NEW m \in Outgoing  PROVE  MessageInv(m)'
    <3>1. QueueTask(m) \in Task /\ AckTask(m) \in Task /\ MessageInv(m)
      BY TasksDiffer DEF StatusInv
    <3>2. restarts' > 0  BY <2>1
    <3>3. MessageChat(m)'  BY <2>1, <3>1, <3>2 DEF MessageInv, MessageChat
    <3>4. ASSUME "alerts" \notin stale'  PROVE  MessageAlert(m)'
      BY <2>1, <3>1, <3>4 DEF MessageInv, MessageAlert
    <3> QED  BY <3>3, <3>4 DEF MessageInv
  <2>3. ASSUME NEW i \in Incoming  PROVE  ReceivedInv(i)'
    BY <2>1, AlertDiffers DEF ReceivedInv
  <2> QED  BY <2>2, <2>3
<1>3. CASE UNCHANGED vars
  BY <1>3 DEF vars, StatusInv, MessageInv, MessageChat, MessageAlert, ReceivedInv
<1> QED  BY <1>1, <1>2, <1>3

-----------------------------------------------------------------------------
\* What the outbox says against what the stored alert and the screen say.
SaysDelivered(m) == "delivered" \in {StateIn(disk["alerts"], m), screen[m], chat[m]}

AgreeInv(m) ==
    LET q == pc[QueueTask(m)]
        k == pc[AckTask(m)]
    IN  /\ k = "idle" => ~SaysDelivered(m)
        /\ SaysDelivered(m) => StateIn(disk["outbox"], m) = "delivered"
        /\ k = "idle" /\ q \notin {"idle", "outboxRead", "dead"} =>
              StateIn(disk["outbox"], m) = "queued"
        /\ k = "idle" /\ q \in {"alertsWritten", "done"} => StateIn(disk["alerts"], m) = "queued"

Fresh == stale \cap {"outbox", "alerts"} = {}

AgreesInv == StatusInv /\ (Fresh => \A m \in Outgoing \ early : AgreeInv(m))

\* An acknowledgement that has written the outbox finds delivered in it.
LEMMA AckDelivered ==
    ASSUME StatusInv, Fresh, NEW m \in Outgoing, pc[AckTask(m)] \in AckRecorded
    PROVE  StateIn(disk["outbox"], m) = "delivered"
<1>1. [id |-> m, state |-> "delivered"] \in Records(disk["outbox"])
  BY DEF Fresh, StatusInv, AckInv, AckIsRecorded, AckTask
<1>2. Unique(disk["outbox"])  BY DEF StatusInv, AckInv, TypeInv, TypeOK, Key
<1>3. PICK i \in DOMAIN disk["outbox"] : disk["outbox"][i] = [id |-> m, state |-> "delivered"]
  BY <1>1 DEF Records
<1> QED  BY <1>2, <1>3, StateOf

LEMMA OutboxState ==
    ASSUME TypeInv, NEW t \in Task, WriteOutbox(t), "outbox" \notin stale'
    PROVE  /\ StateIn(disk'["outbox"], t[2]) = (IF t[1] = "ack" THEN "delivered" ELSE "queued")
           /\ \A id : id # t[2] => StateIn(disk'["outbox"], id) = StateIn(disk["outbox"], id)
<1> DEFINE r    == [id |-> t[2], state |-> IF t[1] = "ack" THEN "delivered" ELSE "queued"]
           list == Put(copy[t], r)
<1>1. r \in Record /\ r.id = t[2] /\ r.state = (IF t[1] = "ack" THEN "delivered" ELSE "queued")
  BY TaskType DEF Record
<1>2. /\ "outbox" \in Key /\ disk \in [Key -> Seq(Record)]
      /\ disk["outbox"] \in Seq(Record) /\ Unique(disk["outbox"])
  BY DEF Key, TypeInv, TypeOK
<1>3. copy[t] = disk["outbox"]  BY DEF WriteOutbox, Upsert
<1>4. disk'["outbox"] = list
  <2>1. disk' = [disk EXCEPT !["outbox"] = IF "outbox" = "relay" THEN Newest(list) ELSE list]
    BY DEF WriteOutbox, Upsert
  <2> HIDE DEF list
  <2> QED  BY <1>2, <2>1
<1>5. list = Put(disk["outbox"], r)  BY <1>3
<1> HIDE DEF list, r
<1> QED  BY <1>1, <1>2, <1>4, <1>5, PutState

\* No turn but outbox.upsert's writes the outbox.
LEMMA OutboxElse ==
    ASSUME TypeInv, NEW t \in Task, Turns(t), ~WriteOutbox(t)
    PROVE  disk'["outbox"] = disk["outbox"]
<1>1. disk' = disk \/ \E key \in {"alerts", "relay"} : \E list : disk' = [disk EXCEPT ![key] = list]
  BY DEF Turns, QueueMessage, Acknowledgement, AckOutboxListed, AckOutboxWritten,
     AckAlertsListed, ReceiveAlert, SendPacket, SendResolves, SendFails, WriteRelay,
     RelayWritten, WriteAlerts, AlertsWritten, AfterSend, Read, Goto, Upsert
<1> QED  BY <1>1 DEF Key, TypeInv, TypeOK

\* A turn of queueMessage, up to its outbox record or after it.
LEMMA QueueAgrees ==
    ASSUME StatusInv, Fresh, Fresh', NEW m \in Outgoing, m \notin early, AgreeInv(m),
           Turns(QueueTask(m))
    PROVE  AgreeInv(m)'
<1> DEFINE t == QueueTask(m)
           u == AckTask(m)
<1>0. /\ pc \in [Task -> Label] /\ disk \in [Key -> Seq(Record)]
      /\ chat \in [Outgoing -> Status] /\ screen \in [Outgoing \cup Incoming -> Status]
      /\ t \in Task /\ u \in Task /\ t # u /\ t[1] = "queue" /\ t[2] = m /\ t = <<"queue", m>>
      /\ TypeInv /\ PathInv /\ OrderInv /\ MessageInv(m) /\ Turns(t)
  BY TasksDiffer DEF StatusInv, AckInv, TypeInv, TypeOK, QueueTask
<1>1. pc'[u] = pc[u]  BY <1>0, IsTurn DEF Turn
<1>2. pc[u] # "idle" => pc[t] \in {"done", "dead"}
  BY <1>0 DEF MessageInv, MessageChat
<1>3. pc[t] \notin {"done", "dead"}
  BY <1>0, TasksDiffer DEF Turns, QueueMessage, WriteOutbox, SendPacket, Ready, SendResolves,
     SendFails, WriteRelay, RelayWritten, WriteAlerts, AlertsWritten, At
<1>4. pc[u] = "idle"  BY <1>2, <1>3
<1>5. /\ screen'[m] \in {screen[m], "queued"}
      /\ chat'[m] \in {chat[m], "queued"}
  BY <1>0, TasksDiffer DEF Turns, QueueMessage, WriteOutbox, SendPacket, SendResolves,
     SendFails, WriteRelay, RelayWritten, WriteAlerts, AlertsWritten, AfterSend, Goto, Read, Upsert
<1>6. StateIn(disk'["alerts"], m) \in {StateIn(disk["alerts"], m), "queued"}
  <2>1. CASE WriteAlerts(t)  BY <1>0, <2>1, AlertsWrite DEF Fresh
  <2>2. CASE ~WriteAlerts(t)
    <3>1. disk' = disk \/ \E key \in {"outbox", "relay"} : \E list : disk' = [disk EXCEPT ![key] = list]
      BY <1>0, <2>2 DEF Turns, QueueMessage, WriteOutbox, SendPacket, SendResolves,
         SendFails, WriteRelay, RelayWritten, AlertsWritten, AfterSend, Read, Goto, Upsert
    <3> QED  BY <1>0, <3>1 DEF Key
  <2> QED  BY <2>1, <2>2
<1>7. ~SaysDelivered(m)'  BY <1>1, <1>4, <1>5, <1>6 DEF AgreeInv, SaysDelivered
<1>8. CASE WriteOutbox(t)
  <2>1. StateIn(disk'["outbox"], m) = "queued"  BY <1>0, <1>8, OutboxState DEF Fresh
  <2>2. pc'[t] = "outboxWritten"  BY <1>0, <1>8 DEF WriteOutbox, Upsert
  <2> QED  BY <1>7, <2>1, <2>2 DEF AgreeInv
<1>9. CASE ~WriteOutbox(t)
  <2>1. disk'["outbox"] = disk["outbox"]  BY <1>0, <1>9, OutboxElse
  <2>2. pc[t] \in {"idle", "outboxRead"} => pc'[t] \in {"idle", "outboxRead"}
    BY <1>0, <1>9, TasksDiffer DEF Turns, QueueMessage, SendPacket, Ready, SendResolves, SendFails,
       WriteRelay, RelayWritten, WriteAlerts, AlertsWritten, At, Read
  <2>3. pc'[t] \in {"alertsWritten", "done"} => StateIn(disk'["alerts"], m) = "queued"
    <3>1. CASE WriteAlerts(t)  BY <1>0, <3>1, AlertsWrite DEF Fresh
    <3>2. CASE AlertsWritten(t)
      <4>1. pc[t] = "alertsWritten" /\ disk' = disk
        BY <1>0, <3>2 DEF AlertsWritten, Goto, At
      <4> QED  BY <1>4, <4>1 DEF AgreeInv, t
    <3>3. CASE ~WriteAlerts(t) /\ ~AlertsWritten(t)
      <4>1. pc'[t] \notin {"alertsWritten", "done"}
        BY <1>0, <3>3 DEF Turns, QueueMessage, WriteOutbox, SendPacket, SendResolves, SendFails,
           WriteRelay, RelayWritten, AfterSend, Read, Goto, Upsert
      <4> QED  BY <4>1
    <3> QED  BY <3>1, <3>2, <3>3
  <2> QED  BY <1>1, <1>3, <1>4, <1>7, <2>1, <2>2, <2>3 DEF AgreeInv
<1> QED  BY <1>8, <1>9

\* A turn of handleAcknowledgement: what it shows or stores, the outbox says already.
LEMMA AckAgrees ==
    ASSUME StatusInv, Fresh, Fresh', NEW m \in Outgoing, m \notin early, AgreeInv(m),
           Turns(AckTask(m))
    PROVE  AgreeInv(m)'
<1> DEFINE t == QueueTask(m)
           u == AckTask(m)
<1>0. /\ pc \in [Task -> Label] /\ disk \in [Key -> Seq(Record)]
      /\ chat \in [Outgoing -> Status] /\ screen \in [Outgoing \cup Incoming -> Status]
      /\ t \in Task /\ u \in Task /\ t # u /\ u[1] = "ack" /\ u[2] = m /\ u = <<"ack", m>>
      /\ TypeInv /\ PathInv /\ MessageInv(m) /\ Turns(u)
  BY TasksDiffer DEF StatusInv, AckInv, TypeInv, TypeOK, AckTask
<1>1. ~SendPacket(u) /\ ~SendResolves(u) /\ ~SendFails(u) /\ ~WriteRelay(u) /\ ~RelayWritten(u)
  BY <1>0 DEF SendPacket, Ready, SendResolves, SendFails, WriteRelay, RelayWritten, At, PathInv, Path
<1>2. pc'[u] # "idle"
  BY <1>0, <1>1 DEF Turns, Acknowledgement, AckOutboxListed, AckOutboxWritten, AckAlertsListed,
     WriteOutbox, WriteAlerts, AlertsWritten, Read, Goto, Upsert
<1>3. CASE WriteOutbox(u)
  <2>1. StateIn(disk'["outbox"], m) = "delivered"  BY <1>0, <1>3, OutboxState DEF Fresh
  <2> QED  BY <1>2, <2>1 DEF AgreeInv
<1>4. CASE AckOutboxWritten(m) \/ WriteAlerts(u) \/ AlertsWritten(u)
  <2>1. pc[u] \in AckRecorded
    BY <1>4 DEF AckOutboxWritten, WriteAlerts, AlertsWritten, At, AckRecorded, AckTask
  <2>2. StateIn(disk["outbox"], m) = "delivered"  BY <2>1, AckDelivered
  <2>3. ~WriteOutbox(u)
    BY <1>4 DEF AckOutboxWritten, WriteAlerts, AlertsWritten, WriteOutbox, At, AckTask
  <2>4. disk'["outbox"] = disk["outbox"]  BY <1>0, <2>3, OutboxElse
  <2> QED  BY <1>2, <2>2, <2>4 DEF AgreeInv
<1>5. CASE Acknowledgement(m) \/ AckOutboxListed(m) \/ AckAlertsListed(m)
  <2>1. UNCHANGED <<disk, screen, chat>>
    BY <1>5 DEF Acknowledgement, AckOutboxListed, AckAlertsListed, Read, Goto
  <2> QED  BY <1>2, <2>1 DEF AgreeInv, SaysDelivered
<1> QED  BY <1>0, <1>1, <1>3, <1>4, <1>5 DEF Turns

LEMMA AgreeStep == AgreesInv /\ [Next]_vars => AgreesInv'
<1> SUFFICES ASSUME AgreesInv, [Next]_vars, Fresh', NEW m \in Outgoing, m \notin early'
             PROVE  AgreeInv(m)'
  BY StatusStep DEF AgreesInv
<1>0. StatusInv /\ TypeInv  BY DEF AgreesInv, StatusInv, AckInv
<1>1. CASE Next /\ ~Restart
  <2>1. PICK t \in Task : Turns(t)  BY <1>1, EveryTurn
  <2>2. Turn(t)  BY <1>0, <2>1, IsTurn
  <2>3. Fresh /\ stale \subseteq stale'  BY <2>2 DEF Turn, Fresh
  <2>4. m \notin early
    <3>1. early \subseteq early'
      BY <2>1 DEF Turns, QueueMessage, Acknowledgement, AckOutboxListed, AckOutboxWritten, AckAlertsListed,
         ReceiveAlert, WriteOutbox, SendPacket, SendResolves, SendFails, WriteRelay, RelayWritten,
         WriteAlerts, AlertsWritten
    <3> QED  BY <3>1
  <2>5. AgreeInv(m)  BY <2>3, <2>4 DEF AgreesInv
  <2>6. CASE t[2] = m
    <3>1. t \in {QueueTask(m), AckTask(m)}  BY <2>6, TasksDiffer
    <3> QED  BY <1>0, <2>1, <2>3, <2>4, <2>5, <3>1, QueueAgrees, AckAgrees
  <2>7. CASE t[2] # m
    <3>1. /\ pc'[QueueTask(m)] = pc[QueueTask(m)] /\ pc'[AckTask(m)] = pc[AckTask(m)]
          /\ screen'[m] = screen[m] /\ chat'[m] = chat[m]
          /\ StateIn(disk'["alerts"], m) = StateIn(disk["alerts"], m)
      BY <2>2, <2>7, TasksDiffer DEF Turn, Fresh
    <3>2. StateIn(disk'["outbox"], m) = StateIn(disk["outbox"], m)
      BY <1>0, <2>1, <2>7, OutboxState, OutboxElse DEF Fresh
    <3> QED  BY <2>5, <3>1, <3>2 DEF AgreeInv, SaysDelivered
  <2> QED  BY <2>6, <2>7
<1>2. CASE Restart
  <2>1. /\ disk' = disk /\ early' = early /\ stale' = stale
        /\ \A t \in Task : pc'[t] = (IF pc[t] \in {"idle", "done"} THEN pc[t] ELSE "dead")
        /\ chat'[m] = "none" /\ screen'[m] = StateIn(disk["alerts"], m)
    BY <1>2 DEF Restart
  <2>2. QueueTask(m) \in Task /\ AckTask(m) \in Task /\ AgreeInv(m)
    BY <2>1, TasksDiffer DEF AgreesInv, Fresh
  <2> QED  BY <2>1, <2>2 DEF AgreeInv, SaysDelivered
<1>3. CASE UNCHANGED vars
  BY <1>3 DEF vars, AgreesInv, AgreeInv, SaysDelivered, Fresh
<1> QED  BY <1>1, <1>2, <1>3

\* Whatever ran in between and however often the application restarted, nothing says
\* delivered before the outbox does, and between the calls of a message the stored alert,
\* the shown alert and the shown message say what the outbox says, as long as nothing was
\* written from a stale copy.
THEOREM StatusCorrect == Spec => []StatusAgrees
<1>1. Init => AgreesInv
  <2> SUFFICES ASSUME Init, NEW m \in Outgoing PROVE AgreeInv(m)
    BY StatusInit DEF AgreesInv
  <2>1. "alerts" \in Key /\ disk["alerts"] = <<>>  BY DEF Init, Key
  <2>2. StateIn(disk["alerts"], m) = "none"  BY <2>1 DEF StateIn, Has
  <2>3. pc[QueueTask(m)] = "idle" /\ screen[m] = "none" /\ chat[m] = "none"
    BY TasksDiffer DEF Init
  <2> QED  BY <2>2, <2>3 DEF AgreeInv, SaysDelivered
<1>2. Spec => []AgreesInv  BY <1>1, AgreeStep, PTL DEF Spec
<1>3. AgreesInv => StatusAgrees
  <2> SUFFICES ASSUME AgreesInv, Fresh, NEW m \in Outgoing \ early
               PROVE  LET sent   == StateIn(disk["outbox"], m)
                          stored == StateIn(disk["alerts"], m)
                      IN  /\ "delivered" \in {stored, screen[m], chat[m]} => sent = "delivered"
                          /\ (pc[<<"queue", m>>] = "done" /\ pc[<<"ack", m>>] \in {"idle", "done"})
                                => /\ stored = sent /\ screen[m] = sent
                                   /\ chat[m] = sent \/ (chat[m] = "none" /\ restarts > 0)
    BY DEF StatusAgrees, Fresh
  <2>1. /\ StatusInv /\ AgreeInv(m) /\ MessageChat(m) /\ MessageAlert(m)
        /\ "outbox" \notin stale /\ chat[m] \in Status
    BY DEF AgreesInv, StatusInv, MessageInv, Fresh, AckInv, TypeInv, TypeOK
  <2>2. pc[AckTask(m)] = "done" => StateIn(disk["outbox"], m) = "delivered"
    BY <2>1, AckDelivered DEF AckRecorded
  <2>3. CASE pc[QueueTask(m)] = "done" /\ pc[AckTask(m)] = "idle"
    BY <2>1, <2>3 DEF AgreeInv, SaysDelivered, MessageChat, MessageAlert, QueueTask, AckTask, Status
  <2>4. CASE pc[QueueTask(m)] = "done" /\ pc[AckTask(m)] = "done"
    BY <2>1, <2>2, <2>4 DEF AgreeInv, SaysDelivered, MessageChat, MessageAlert, QueueTask, AckTask, Status
  <2> QED  BY <2>1, <2>3, <2>4 DEF AgreeInv, SaysDelivered, QueueTask, AckTask
<1> QED  BY <1>2, <1>3, PTL

\* Between the calls that write alerts, and after a restart, the screen shows the state of
\* every stored alert.
THEOREM ScreenCorrect == Spec => []ScreenIsStored
<1>1. Spec => []StatusInv  BY StatusInit, StatusStep, PTL DEF Spec
<1>2. StatusInv => ScreenIsStored
  <2> SUFFICES ASSUME StatusInv, "alerts" \notin stale, \A t \in Task : ~At(t, "alertsWritten"),
                      NEW m \in (Outgoing \cup Incoming) \ early
               PROVE  screen[m] = StateIn(disk["alerts"], m)
    BY DEF ScreenIsStored
  <2>1. CASE m \in Outgoing
    <3>1. pc[QueueTask(m)] # "alertsWritten" /\ pc[AckTask(m)] # "alertsWritten"
      BY <2>1, TasksDiffer DEF At
    <3> QED  BY <2>1, <3>1 DEF StatusInv, MessageInv, MessageAlert
  <2>2. CASE m \in Incoming
    <3>1. pc[AlertTask(m)] # "alertsWritten"  BY <2>2, AlertDiffers DEF At
    <3> QED  BY <2>2, <3>1 DEF StatusInv, ReceivedInv
  <2> QED  BY <2>1, <2>2
<1> QED  BY <1>1, <1>2, PTL
=============================================================================
