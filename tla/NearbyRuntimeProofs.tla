------------------------- MODULE NearbyRuntimeProofs -------------------------
(***************************************************************************)
(* Proofs about the Android Nearby runtime, for any endpoints, any buffer  *)
(* of events and any budget of starts, stops, swipes, kills, restarts of   *)
(* the device and failures: its types (TypeCorrect), that the call made    *)
(* last wins (LastCallCorrect), that a running transport has its service   *)
(* (RunsCorrect), the order of the events that the application hears       *)
(* (HeardCorrect), and that what it shows as connected is connected        *)
(* (ViewCorrect).  LastCallCorrect and RunsCorrect speak of queues of      *)
(* intents: a service is created only when the one before it has been      *)
(* stopped, what is started in the end is the service that lives in the    *)
(* end, and no start waits behind a stop unless they crossed.  ViewCorrect *)
(* follows an endpoint's last report from the main thread's queue through  *)
(* the emitted and the kept events to the provider.                        *)
(***************************************************************************)
EXTENDS NearbyRuntime, FiniteSetTheorems, SequenceTheorems, WellFoundedInduction, TLAPS

-----------------------------------------------------------------------------
(* Ranks in a set of positions *)

Less == OpToRel(<, Nat)

LEMMA LessIs == \A a, b \in Nat : <<a, b>> \in Less <=> a < b
BY DEF Less, OpToRel

LEMMA LessFounded == IsWellFoundedOn(Less, Nat)
BY NatLessThanWellFounded DEF Less

LEMMA Greatest ==
    ASSUME NEW n \in Nat, NEW S \in SUBSET (1 .. n), S # {}
    PROVE  \E m \in S : \A i \in S : i <= m
<1> DEFINE T == {n - i : i \in S}
<1>0. \A i \in S : i \in Int /\ 1 <= i /\ i <= n /\ n - i \in Nat  OBVIOUS
<1>1. T \subseteq Nat /\ T # {}  BY <1>0
<1>2. PICK x \in T : \A y \in T : ~(<<y, x>> \in Less)  BY <1>1, LessFounded, WFMin
<1>4. PICK m \in S : x = n - m  OBVIOUS
<1>5. \A i \in S : n - i \in T  OBVIOUS
<1> HIDE DEF T
<1>3. \A y \in T : x \in Nat /\ y \in Nat /\ ~(y < x)  BY <1>1, <1>2, LessIs
<1> QED  BY <1>0, <1>3, <1>4, <1>5

Up(S, i) == {j \in S : j <= i}

LEMMA Ranked ==
    ASSUME NEW n \in Nat, NEW S \in SUBSET (1 .. n)
    PROVE  /\ IsFiniteSet(S) /\ Cardinality(S) \in Nat
           /\ \A i \in S : Cardinality(Up(S, i)) \in 1 .. Cardinality(S)
           /\ \A i, j \in S : i < j => Cardinality(Up(S, i)) < Cardinality(Up(S, j))
           /\ \A k \in 1 .. Cardinality(S) : \E i \in S : Cardinality(Up(S, i)) = k
<1>1. IsFiniteSet(1 .. n)  BY FS_Interval
<1>2. IsFiniteSet(S) /\ Cardinality(S) \in Nat  BY <1>1, FS_Subset, FS_CardinalityType
<1>3. \A i \in S : /\ Up(S, i) \subseteq S /\ IsFiniteSet(Up(S, i)) /\ i \in Up(S, i)
                   /\ Cardinality(Up(S, i)) \in Nat
  BY <1>2, FS_Subset, FS_CardinalityType DEF Up
<1>4. \A i \in S : Cardinality(Up(S, i)) \in 1 .. Cardinality(S)
  <2> SUFFICES ASSUME NEW i \in S  PROVE Cardinality(Up(S, i)) \in 1 .. Cardinality(S)  OBVIOUS
  <2>1. Cardinality(Up(S, i)) <= Cardinality(S)  BY <1>2, <1>3, FS_Subset
  <2>2. Cardinality(Up(S, i)) # 0  BY <1>3, FS_EmptySet
  <2> QED  BY <1>2, <1>3, <2>1, <2>2
<1>5. ASSUME NEW i \in S, NEW j \in S, i < j
      PROVE Cardinality(Up(S, i)) < Cardinality(Up(S, j))
  <2>1. i \in Int /\ j \in Int /\ \A x \in S : x \in Int  OBVIOUS
  <2>a. j \in Up(S, j) /\ j \notin Up(S, i)  BY <1>5, <2>1 DEF Up
  <2>b. Up(S, i) \subseteq Up(S, j)
    <3> SUFFICES ASSUME NEW x \in S, x <= i  PROVE x <= j  BY DEF Up
    <3> QED  BY <1>5, <2>1
  <2>2. Up(S, i) \subseteq Up(S, j) /\ Up(S, i) # Up(S, j)  BY <2>a, <2>b
  <2>3. Cardinality(Up(S, i)) <= Cardinality(Up(S, j)) /\ Cardinality(Up(S, i)) # Cardinality(Up(S, j))
    BY <1>3, <2>2, FS_Subset
  <2> QED  BY <1>3, <2>3
<1>6. ASSUME NEW k \in 1 .. Cardinality(S)  PROVE \E i \in S : Cardinality(Up(S, i)) = k
  <2> DEFINE f == [i \in S |-> Cardinality(Up(S, i))]
  <2>1. \A i, j \in S : f[i] = f[j] => i = j
    <3> SUFFICES ASSUME NEW i \in S, NEW j \in S, i # j  PROVE f[i] # f[j]  OBVIOUS
    <3>1. i < j \/ j < i  OBVIOUS
    <3>2. f[i] < f[j] \/ f[j] < f[i]  BY <1>5, <3>1
    <3>3. f[i] \in Nat /\ f[j] \in Nat  BY <1>3
    <3> HIDE DEF f
    <3> QED  BY <3>2, <3>3
  <2>2. f \in [S -> 1 .. Cardinality(S)]  BY <1>4
  <2>3. f \in Injection(S, 1 .. Cardinality(S))  BY <2>1, <2>2 DEF Injection, IsInjective
  <2>4. IsFiniteSet(1 .. Cardinality(S)) /\ Cardinality(1 .. Cardinality(S)) = Cardinality(S)
    BY <1>2, FS_Interval
  <2>5. f \in Surjection(S, 1 .. Cardinality(S))  BY <2>3, <2>4, FS_Injection
  <2> QED  BY <2>5 DEF Surjection
<1> QED  BY <1>2, <1>4, <1>5, <1>6

LEMMA NthIs ==
    ASSUME NEW n \in Nat, NEW S \in SUBSET (1 .. n)
    PROVE  /\ \A k \in 1 .. Cardinality(S) : Nth(S, k) \in S
           /\ \A k, l \in 1 .. Cardinality(S) : k < l => Nth(S, k) < Nth(S, l)
           /\ \A i \in S : \E k \in 1 .. Cardinality(S) : Nth(S, k) = i
<1>0. /\ Cardinality(S) \in Nat
      /\ \A i \in S : Cardinality(Up(S, i)) \in 1 .. Cardinality(S)
      /\ \A i, j \in S : i < j => Cardinality(Up(S, i)) < Cardinality(Up(S, j))
      /\ \A k \in 1 .. Cardinality(S) : \E i \in S : Cardinality(Up(S, i)) = k
  BY Ranked
<1>r. \A i \in S : Cardinality(Up(S, i)) \in Int  BY <1>0
<1>1. \A k : Nth(S, k) = CHOOSE i \in S : Cardinality(Up(S, i)) = k  BY DEF Nth, Up
<1>2. \A k \in 1 .. Cardinality(S) : Nth(S, k) \in S /\ Cardinality(Up(S, Nth(S, k))) = k
  <2> SUFFICES ASSUME NEW k \in 1 .. Cardinality(S)
               PROVE Nth(S, k) \in S /\ Cardinality(Up(S, Nth(S, k))) = k
    OBVIOUS
  <2>1. \E i \in S : Cardinality(Up(S, i)) = k  BY Ranked
  <2> QED  BY <1>1, <2>1
<1>3. \A i \in S : i \in Int  OBVIOUS
<1>4. \A i, j \in S : Cardinality(Up(S, i)) < Cardinality(Up(S, j)) => i < j
  <2> SUFFICES ASSUME NEW i \in S, NEW j \in S, Cardinality(Up(S, i)) < Cardinality(Up(S, j))  PROVE i < j
    OBVIOUS
  <2>1. Cardinality(Up(S, i)) \in Int /\ Cardinality(Up(S, j)) \in Int  BY <1>r
  <2>2. CASE i = j  BY <2>1, <2>2
  <2>3. CASE j < i
    <3>1. Cardinality(Up(S, j)) < Cardinality(Up(S, i))  BY <2>3, Ranked
    <3> QED  BY <2>1, <3>1
  <2> QED  BY <1>3, <2>2, <2>3
<1>5. \A k, l \in 1 .. Cardinality(S) : k < l => Nth(S, k) < Nth(S, l)
  <2> SUFFICES ASSUME NEW k \in 1 .. Cardinality(S), NEW l \in 1 .. Cardinality(S), k < l
               PROVE Nth(S, k) < Nth(S, l)
    OBVIOUS
  <2>1. PICK i, j : i = Nth(S, k) /\ j = Nth(S, l)  OBVIOUS
  <2>2. i \in S /\ j \in S /\ Cardinality(Up(S, i)) = k /\ Cardinality(Up(S, j)) = l  BY <1>2, <2>1
  <2>3. i < j  BY <1>4, <2>2
  <2> QED  BY <2>1, <2>3
<1>6. ASSUME NEW i \in S  PROVE \E k \in 1 .. Cardinality(S) : Nth(S, k) = i
  <2>1. PICK k \in 1 .. Cardinality(S) : k = Cardinality(Up(S, i))  BY Ranked
  <2>2. Nth(S, k) \in S /\ Cardinality(Up(S, Nth(S, k))) = Cardinality(Up(S, i))  BY <1>2, <2>1
  <2>3. \A x, y \in S : x < y => Cardinality(Up(S, x)) < Cardinality(Up(S, y))  BY Ranked
  <2>4. \A x \in S : Cardinality(Up(S, x)) \in Int  BY <1>r
  <2>5. PICK m : m = Nth(S, k)  OBVIOUS
  <2>6. m \in S /\ Cardinality(Up(S, m)) = Cardinality(Up(S, i))  BY <2>2, <2>5
  <2>7. ~(m < i) /\ ~(i < m)  BY <2>3, <2>4, <2>6
  <2> QED  BY <1>3, <2>5, <2>6, <2>7
<1> QED  BY <1>2, <1>5, <1>6

LEMMA IntentsAre ==
    ASSUME NEW q \in Seq(Messages)
    PROVE  /\ Current(q) \subseteq DOMAIN q /\ Cardinality(Current(q)) \in Nat
           /\ Intents(q) \in Seq(Messages) /\ Len(Intents(q)) = Cardinality(Current(q))
           /\ \A k \in 1 .. Len(Intents(q)) : /\ Nth(Current(q), k) \in Current(q)
                                             /\ Intents(q)[k] = q[Nth(Current(q), k)]
           /\ \A k, l \in 1 .. Len(Intents(q)) : k < l => Nth(Current(q), k) < Nth(Current(q), l)
           /\ \A i \in Current(q) : \E k \in 1 .. Len(Intents(q)) : Nth(Current(q), k) = i
<1> DEFINE S == Current(q)
<1>1. S \in SUBSET (1 .. Len(q)) /\ Len(q) \in Nat  BY DEF Current
<1>2. Cardinality(S) \in Nat  BY <1>1, Ranked
<1>3. Intents(q) = [k \in 1 .. Cardinality(S) |-> q[Nth(S, k)]]  BY DEF Intents
<1> HIDE DEF S
<1>4. \A k \in 1 .. Cardinality(S) : Nth(S, k) \in S  BY <1>1, NthIs
<1>a. \A i \in 1 .. Len(q) : q[i] \in Messages  OBVIOUS
<1>5. \A k \in 1 .. Cardinality(S) : q[Nth(S, k)] \in Messages  BY <1>1, <1>4, <1>a
<1>6. Intents(q) \in Seq(Messages) /\ Len(Intents(q)) = Cardinality(S)  BY <1>2, <1>3, <1>5
<1>7. \A k, l \in 1 .. Cardinality(S) : k < l => Nth(S, k) < Nth(S, l)  BY <1>1, NthIs
<1>8. \A i \in S : \E k \in 1 .. Cardinality(S) : Nth(S, k) = i  BY <1>1, NthIs
<1> QED  BY <1>1, <1>2, <1>3, <1>4, <1>6, <1>7, <1>8 DEF S

-----------------------------------------------------------------------------
(* Types *)

Flags ==
    /\ saved \in BOOLEAN /\ running \in BOOLEAN /\ adv \in BOOLEAN /\ disc \in BOOLEAN
    /\ sink \in BOOLEAN /\ service \in BOOLEAN /\ up \in BOOLEAN /\ radio \in BOOLEAN
    /\ crossed \in BOOLEAN /\ failed \in BOOLEAN /\ raced \in BOOLEAN

EventTypes ==
    /\ emitted \in Nat /\ heard \in Seq(Nat) /\ lost \subseteq Nat
    /\ view \in [Endpoint -> PeerState \cup {"none"}] /\ blind \subseteq Endpoint
    /\ pending \in Seq(Stored) /\ Len(pending) <= MaxPending

QueueTypes ==
    /\ copy \in Seq(Seq(Stored)) /\ Len(copy) <= Len(out) /\ Len(out) <= 1
    /\ copy # <<>> => Len(Head(copy)) <= MaxPending
    /\ call \in Seq({"sink", "drain", "save", "run", "begin", "halt", "clear"})
    /\ main \in Seq(Messages) /\ out \in Seq(Events)

LinkTypes ==
    /\ discovered \subseteq Endpoint /\ requests \subseteq Endpoint
    /\ late \subseteq Endpoint /\ masked \subseteq Endpoint
    /\ tasks \in [{"adv", "disc"} -> Nat]
    /\ link \in [Endpoint -> {"away", "near", "asked", "offered", "accepted", "open"}]
    /\ app \in {"closed", "created", "listening"} /\ asked \in Intent \cup {"none"}
    /\ budget \in [Env -> Nat]

TypeInv == Flags /\ EventTypes /\ QueueTypes /\ LinkTypes

LEMMA TypeInvTypes == TypeInv => TypeOK
BY DEF TypeInv, Flags, EventTypes, QueueTypes, LinkTypes, TypeOK

LEMMA StoredAre ==
    ASSUME NEW s \in Seq(Stored)
    PROVE  /\ Numbers(s) \subseteq Nat /\ Owners(s) \subseteq Endpoint
           /\ \A i \in DOMAIN s : s[i].n \in Nat /\ s[i].event.of \in Endpoint
<1>1. \A i \in DOMAIN s : s[i] \in Stored  OBVIOUS
<1>2. \A i \in DOMAIN s : s[i].n \in Nat /\ s[i].event.of \in Endpoint  BY <1>1 DEF Stored, Events
<1> QED  BY <1>2 DEF Numbers, Owners

LEMMA SeenIs ==
    ASSUME NEW s \in Seq(Stored), view \in [Endpoint -> PeerState \cup {"none"}]
    PROVE  Seen(s) \in [Endpoint -> PeerState \cup {"none"}]
<1> SUFFICES ASSUME NEW e \in Endpoint, About(s, e) # {}
             PROVE  s[CHOOSE i \in About(s, e) : \A j \in About(s, e) : j <= i].event.kind \in PeerState
  BY DEF Seen
<1>1. About(s, e) \in SUBSET (1 .. Len(s)) /\ Len(s) \in Nat  BY DEF About
<1>2. \E i \in About(s, e) : \A j \in About(s, e) : j <= i  BY <1>1, Greatest
<1>3. (CHOOSE i \in About(s, e) : \A j \in About(s, e) : j <= i) \in About(s, e)  BY <1>2
<1> QED  BY <1>3 DEF About

LEMMA HeardIs ==
    ASSUME EventTypes, NEW s \in Seq(Stored), ToSink(s)
    PROVE  /\ heard' \in Seq(Nat) /\ lost' \subseteq Nat /\ blind' \subseteq Endpoint
           /\ view' \in [Endpoint -> PeerState \cup {"none"}]
<1>1. [i \in DOMAIN s |-> s[i].n] \in Seq(Nat)
  <2>1. Len(s) \in Nat /\ DOMAIN s = 1 .. Len(s)  OBVIOUS
  <2>2. \A i \in 1 .. Len(s) : s[i].n \in Nat  BY <2>1, StoredAre
  <2> QED  BY <2>1, <2>2
<1>2. CASE app = "listening"
  <2>1. heard' = heard \o [i \in DOMAIN s |-> s[i].n] /\ view' = Seen(s) /\ UNCHANGED lost
        /\ blind' \subseteq blind
    BY <1>2 DEF ToSink
  <2> QED  BY <1>1, <2>1, SeenIs DEF EventTypes
<1>3. CASE app # "listening"  BY <1>3, StoredAre DEF ToSink, Forget, EventTypes
<1> QED  BY <1>2, <1>3

LEMMA TypeStart == Init => TypeInv
<1> SUFFICES ASSUME Init  PROVE TypeInv  OBVIOUS
<1> USE DEF Init
<1>1. Flags  BY DEF Flags
<1>2. EventTypes  BY NearbyAssumption DEF EventTypes
<1>3. QueueTypes  BY DEF QueueTypes
<1>4. LinkTypes  BY NearbyAssumption DEF LinkTypes
<1> QED  BY <1>1, <1>2, <1>3, <1>4 DEF TypeInv

-----------------------------------------------------------------------------
(* Types: the steps of both threads, of the application and of the system *)

LEMMA IssueIs ==
    ASSUME NEW q \in Seq(Messages), NEW k \in Intent, Issue(q, k)
    PROVE  main' \in Seq(Messages) /\ up' = TRUE
<1>1. Message("create") \in Messages /\ Message(k) \in Messages  BY DEF Message, Messages, Intent
<1>2. <<Message(k)>> \in Seq(Messages) /\ <<Message("create"), Message(k)>> \in Seq(Messages)  BY <1>1
<1> QED  BY <1>2 DEF Issue

LEMMA StaleIs == TypeInv => Stale \subseteq Endpoint
<1> SUFFICES ASSUME TypeInv  PROVE Stale \subseteq Endpoint  OBVIOUS
<1>1. \A i \in DOMAIN main : main[i] \in Messages  BY DEF TypeInv, QueueTypes
<1>2. \A i \in DOMAIN main : main[i].of # NoEndpoint => main[i].of \in Endpoint  BY <1>1 DEF Messages
<1>3. \A i \in DOMAIN out : out[i] \in Events  BY DEF TypeInv, QueueTypes
<1> QED  BY <1>2, <1>3 DEF Stale, Events, TypeInv, LinkTypes

LEMMA TypeModule == ASSUME TypeInv, Module  PROVE TypeInv'
<1> USE DEF TypeInv, Flags, EventTypes, QueueTypes, LinkTypes, prefVars, runVars, nearbyVars, eventVars, historyVars
<1>0. ASSUME NEW k, StepIs(k)  PROVE call' \in Seq({"sink", "drain", "save", "run", "begin", "halt", "clear"})
  BY <1>0 DEF StepIs
<1>1. CASE SetSink  BY <1>0, <1>1 DEF SetSink
<1>2. CASE Drain
  <2>1. /\ heard' \in Seq(Nat) /\ lost' \subseteq Nat /\ blind' \subseteq Endpoint
        /\ view' \in [Endpoint -> PeerState \cup {"none"}]
    BY <1>2, HeardIs DEF Drain
  <2> QED  BY <1>0, <1>2, <2>1, NearbyAssumption DEF Drain
<1>3. CASE Save
  <2>1. main' \in Seq(Messages) /\ up' = TRUE  BY <1>3, IssueIs DEF Save, Intent
  <2> QED  BY <1>0, <1>3, <2>1 DEF Save, Intent
<1>4. CASE Run
  <2>0. PICK t : t = Tail(call)  OBVIOUS
  <2>1. t \in Seq({"sink", "drain", "save", "run", "begin", "halt", "clear"})  BY <1>4, <2>0 DEF Run
  <2>2. <<"begin">> \o t \in Seq({"sink", "drain", "save", "run", "begin", "halt", "clear"})  BY <2>1
  <2>3. call' \in Seq({"sink", "drain", "save", "run", "begin", "halt", "clear"})
    BY <1>4, <2>0, <2>1, <2>2 DEF Run
  <2> QED  BY <1>4, <2>3 DEF Run
<1>4a. CASE Begin
  <2>1. Flags'  BY <1>4a DEF Begin, BeginTransport
  <2>2. late' \subseteq Endpoint  BY <1>4a, StaleIs DEF Begin
  <2>3. LinkTypes'  BY <1>4a, <2>2 DEF Begin, BeginTransport
  <2> QED  BY <1>0, <1>4a, <2>1, <2>3 DEF Begin
<1>5. CASE HaltTransport
  <2>2. Flags'  BY <1>5 DEF HaltTransport, Halt
  <2>3. LinkTypes'  BY <1>5, StaleIs DEF HaltTransport, Halt
  <2> QED  BY <1>0, <1>5, <2>2, <2>3 DEF HaltTransport
<1>6. CASE Clear
  <2>1. main' \in Seq(Messages) /\ up' = TRUE  BY <1>6, IssueIs DEF Clear, Intent
  <2>2. lost' \subseteq Nat /\ blind' \subseteq Endpoint  BY <1>6, StoredAre DEF Clear, Forget
  <2>3. EventTypes'  BY <1>6, <2>2, NearbyAssumption DEF Clear
  <2>4. LinkTypes'  BY <1>6 DEF Clear, Intent
  <2> QED  BY <1>0, <1>6, <2>1, <2>3, <2>4 DEF Clear
<1> QED  BY <1>1, <1>2, <1>3, <1>4, <1>4a, <1>5, <1>6 DEF Module

LEMMA TypeMain ==
    ASSUME TypeInv, Create \/ StartCommand \/ StickyCommand \/ StopCommand \/ Destroy \/ TaskRemoved
    PROVE  TypeInv'
<1> USE DEF TypeInv, prefVars, runVars, nearbyVars, eventVars, historyVars, quietVars
<1>0. Tail(main) \in Seq(Messages) \/ main = <<>>  BY DEF QueueTypes
<1>1. ASSUME NEW k, Take(k)  PROVE Tail(main) \in Seq(Messages)  BY <1>0, <1>1 DEF Take
<1>2. ASSUME UNCHANGED <<copy, call, out>>, main' \in Seq(Messages)  PROVE QueueTypes'
  BY <1>2 DEF QueueTypes
<1>3. ASSUME StartTransport \/ RestartFromService \/ UNCHANGED <<runVars, link, tasks, failed>>,
             UNCHANGED <<requests, late, masked, app, asked, budget, radio, crossed, sink, raced>>,
             saved' \in BOOLEAN, up' \in BOOLEAN, service' \in BOOLEAN
      PROVE Flags' /\ LinkTypes'
  <2>1. Flags'  BY <1>3 DEF RestartFromService, StartTransport, BeginTransport, Flags
  <2>2. LinkTypes'  BY <1>3 DEF RestartFromService, StartTransport, BeginTransport, LinkTypes
  <2> QED  BY <2>1, <2>2
<1>4. CASE Create
  <2>1. QueueTypes'  BY <1>1, <1>2, <1>4 DEF Create
  <2>2. Flags' /\ LinkTypes'  BY <1>3, <1>4 DEF Create, Flags
  <2>3. EventTypes'  BY <1>4 DEF Create, EventTypes
  <2> QED  BY <2>1, <2>2, <2>3
<1>5. CASE StartCommand
  <2>1. QueueTypes'  BY <1>1, <1>2, <1>5 DEF StartCommand
  <2>2. Flags' /\ LinkTypes'  BY <1>3, <1>5 DEF StartCommand, Flags
  <2>3. EventTypes'  BY <1>5 DEF StartCommand, EventTypes
  <2> QED  BY <2>1, <2>2, <2>3
<1>6. CASE StickyCommand
  <2>1. QueueTypes'  BY <1>1, <1>2, <1>6 DEF StickyCommand
  <2>2. Flags' /\ LinkTypes'  BY <1>3, <1>6 DEF StickyCommand, Flags
  <2>3. EventTypes'  BY <1>6 DEF StickyCommand, EventTypes
  <2> QED  BY <2>1, <2>2, <2>3
<1>7. CASE StopCommand
  <2>1. Message("destroy") \in Messages  BY DEF Message, Messages
  <2>2. main' \in Seq(Messages)  BY <1>1, <1>7, <2>1 DEF StopCommand
  <2>3. QueueTypes'  BY <1>2, <1>7, <2>2 DEF StopCommand
  <2>4. Flags'  BY <1>7 DEF StopCommand, Halt, Flags
  <2>5. lost' \subseteq Nat /\ blind' \subseteq Endpoint
    BY <1>7, StoredAre DEF StopCommand, Forget, EventTypes
  <2>6. EventTypes'  BY <1>7, <2>5, NearbyAssumption DEF StopCommand, EventTypes
  <2>7. LinkTypes'  BY <1>7, StaleIs DEF StopCommand, Halt, LinkTypes
  <2> QED  BY <2>3, <2>4, <2>6, <2>7
<1>8. CASE Destroy
  <2>1. QueueTypes'  BY <1>1, <1>2, <1>8 DEF Destroy
  <2>2. Flags' /\ LinkTypes'  BY <1>3, <1>8 DEF Destroy, Flags
  <2>3. EventTypes'  BY <1>8 DEF Destroy, EventTypes
  <2> QED  BY <2>1, <2>2, <2>3
<1>9. CASE TaskRemoved
  <2>1. main' \in Seq(Messages) /\ up' \in BOOLEAN
    <3>1. Tail(main) \in Seq(Messages)  BY <1>1, <1>9 DEF TaskRemoved
    <3> QED  BY <1>9, <3>1, IssueIs DEF TaskRemoved, Intent, Flags
  <2>2. QueueTypes'  BY <1>2, <1>9, <2>1 DEF TaskRemoved
  <2>3. Flags'
    <3>1. crossed' \in BOOLEAN  BY <1>9 DEF TaskRemoved, Flags
    <3> QED  BY <1>9, <2>1, <3>1 DEF TaskRemoved, Flags
  <2>4. LinkTypes'  BY <1>9 DEF TaskRemoved, LinkTypes
  <2>5. EventTypes'  BY <1>9 DEF TaskRemoved, EventTypes
  <2> QED  BY <2>2, <2>3, <2>4, <2>5
<1> QED  BY <1>4, <1>5, <1>6, <1>7, <1>8, <1>9

LEMMA TypeCallbacks == ASSUME TypeInv, NEW e \in Endpoint, Callbacks(e)  PROVE TypeInv'
<1> USE DEF TypeInv, prefVars, runVars, nearbyVars, eventVars, historyVars, quietVars
<1>1. ASSUME NEW k, NEW event \in Seq(Events), Len(event) <= 1, Callback(k, e, event),
             discovered' \subseteq Endpoint, requests' \subseteq Endpoint, masked' \subseteq Endpoint,
             link' \in [Endpoint -> {"away", "near", "asked", "offered", "accepted", "open"}]
      PROVE TypeInv'
  <2>1. Flags'  BY <1>1 DEF Callback, Flags
  <2>2. EventTypes'  BY <1>1 DEF Callback, EventTypes
  <2>3. copy = <<>>  BY <1>1 DEF Callback, Take, QueueTypes
  <2>4. QueueTypes'  BY <1>1, <2>3 DEF Callback, Take, QueueTypes
  <2>5. LinkTypes'  BY <1>1 DEF Callback, LinkTypes
  <2> QED  BY <2>1, <2>2, <2>4, <2>5
<1>2. \A k \in PeerState \cup {"payload"} : Tell(k, e) \in Seq(Events) /\ Len(Tell(k, e)) <= 1
  BY DEF Tell, Events
<1>3. <<>> \in Seq(Events) /\ Len(<<>>) <= 1  OBVIOUS
<1>4. discovered \subseteq Endpoint /\ requests \subseteq Endpoint /\ masked \subseteq Endpoint
      /\ link \in [Endpoint -> {"away", "near", "asked", "offered", "accepted", "open"}]
  BY DEF LinkTypes
<1>5. CASE EndpointFound(e)  BY <1>1, <1>2, <1>3, <1>4, <1>5 DEF EndpointFound, PeerState
<1>6. CASE EndpointLost(e)  BY <1>1, <1>2, <1>4, <1>6 DEF EndpointLost, PeerState
<1>7. CASE ConnectionInitiated(e)  BY <1>1, <1>3, <1>4, <1>7 DEF ConnectionInitiated
<1>8. CASE ConnectionResult(e)  BY <1>1, <1>2, <1>4, <1>8 DEF ConnectionResult, PeerState
<1>9. CASE Disconnected(e)  BY <1>1, <1>2, <1>4, <1>9 DEF Disconnected, PeerState
<1>10. CASE PayloadReceived(e)  BY <1>1, <1>2, <1>4, <1>10 DEF PayloadReceived
<1> QED  BY <1>5, <1>6, <1>7, <1>8, <1>9, <1>10 DEF Callbacks

LEMMA NumberedIs == ASSUME TypeInv, out # <<>>  PROVE Numbered \in Stored /\ <<Numbered>> \in Seq(Stored)
<1>1. Head(out) \in Events /\ emitted + 1 \in Nat  BY DEF TypeInv, QueueTypes, EventTypes
<1> QED  BY <1>1 DEF Numbered, Stored

LEMMA TypeEmit == ASSUME TypeInv, Emit \/ Persist  PROVE TypeInv'
<1> USE DEF TypeInv, prefVars, runVars, nearbyVars, eventVars, historyVars
<1>1. CASE Emit
  <2>1. <<Numbered>> \in Seq(Stored)  BY <1>1, NumberedIs DEF Emit
  <2>2. Flags'  BY <1>1 DEF Emit, Flags
  <2>3. LinkTypes'  BY <1>1 DEF Emit, LinkTypes
  <2>4. QueueTypes'
    <3>1. CASE sink \/ ~service  BY <1>1, <3>1 DEF Emit, QueueTypes
    <3>2. CASE ~(sink \/ ~service)  BY <1>1, <3>2 DEF Emit, QueueTypes, EventTypes
    <3> QED  BY <3>1, <3>2
  <2>5. CASE ToSink(<<Numbered>>) /\ emitted' = emitted + 1
    <3>1. /\ heard' \in Seq(Nat) /\ lost' \subseteq Nat /\ blind' \subseteq Endpoint
          /\ view' \in [Endpoint -> PeerState \cup {"none"}]
      BY <2>1, <2>5, HeardIs
    <3>2. EventTypes'  BY <1>1, <2>5, <3>1 DEF Emit, EventTypes
    <3> QED  BY <2>2, <2>3, <2>4, <3>2
  <2>6. CASE Forget(<<Numbered>>) /\ emitted' = emitted + 1 /\ UNCHANGED <<heard, view>>
    <3>1. lost' \subseteq Nat /\ blind' \subseteq Endpoint  BY <2>1, <2>6, StoredAre DEF Forget, EventTypes
    <3>2. EventTypes'  BY <1>1, <2>6, <3>1 DEF Emit, EventTypes
    <3> QED  BY <2>2, <2>3, <2>4, <3>2
  <2>7. CASE UNCHANGED eventVars
    <3>1. EventTypes'  BY <1>1, <2>7 DEF Emit, EventTypes
    <3> QED  BY <2>2, <2>3, <2>4, <3>1
  <2> QED  BY <1>1, <2>5, <2>6, <2>7 DEF Emit
<1>2. CASE Persist
  <2>1. Len(copy) >= 1 /\ out # <<>> /\ Head(copy) \in Seq(Stored) /\ Len(Head(copy)) <= MaxPending
    BY <1>2 DEF Persist, QueueTypes
  <2>2. PICK list : list = Append(Head(copy), Numbered)  OBVIOUS
  <2>3. list \in Seq(Stored) /\ Len(list) <= MaxPending + 1 /\ Len(list) >= 1
    BY <2>1, <2>2, NumberedIs, NearbyAssumption
  <2>4. Newest(list) \in Seq(Stored) /\ Len(Newest(list)) <= MaxPending
    BY <2>3, NearbyAssumption DEF Newest
  <2>5. <<Head(list)>> \in Seq(Stored) /\ <<>> \in Seq(Stored)  BY <2>3
  <2>6. lost' \subseteq Nat /\ blind' \subseteq Endpoint
    BY <1>2, <2>2, <2>5, StoredAre DEF Persist, Forget, EventTypes
  <2>7. pending' = Newest(list)  BY <1>2, <2>2 DEF Persist
  <2>8. EventTypes'  BY <1>2, <2>4, <2>6, <2>7 DEF Persist, EventTypes
  <2>9. QueueTypes'  BY <1>2, <2>1 DEF Persist, QueueTypes
  <2>10. Flags'  BY <1>2 DEF Persist, Flags
  <2>11. LinkTypes'  BY <1>2 DEF Persist, LinkTypes
  <2> QED  BY <2>8, <2>9, <2>10, <2>11
<1> QED  BY <1>1, <1>2

LEMMA TypeListeners ==
    ASSUME TypeInv, Listeners \/ (\E k \in {"adv", "disc"} : TransportFailed(k)) \/ (\E e \in Endpoint : Answer(e))
    PROVE  TypeInv'
<1> USE DEF TypeInv, prefVars, runVars, nearbyVars, eventVars, historyVars, quietVars
<1>1. ASSUME NEW k \in {"adv", "disc"}, TransportStarted(k) \/ TransportFailed(k)  PROVE TypeInv'
  <2>1. Flags'  BY <1>1 DEF TransportStarted, TransportFailed, Flags
  <2>2. EventTypes'  BY <1>1 DEF TransportStarted, TransportFailed, EventTypes
  <2>3. QueueTypes'  BY <1>1 DEF TransportStarted, TransportFailed, QueueTypes
  <2>4. LinkTypes'  BY <1>1 DEF TransportStarted, TransportFailed, LinkTypes, Spend
  <2> QED  BY <2>1, <2>2, <2>3, <2>4
<1>2. ASSUME NEW e \in Endpoint, RequestAnswered(e)  PROVE TypeInv'
  <2>1. Flags'  BY <1>2 DEF RequestAnswered, Flags
  <2>2. EventTypes'  BY <1>2 DEF RequestAnswered, EventTypes
  <2>a. out' = Tell("connecting", e) \/ out' = Tell("rejected", e)  BY <1>2 DEF RequestAnswered
  <2>b. Tell("connecting", e) \in Seq(Events) /\ Tell("rejected", e) \in Seq(Events)
    BY DEF Tell, Events, PeerState
  <2>c. out' \in Seq(Events) /\ Len(out') = 1  BY <2>a, <2>b DEF Tell
  <2>d. UNCHANGED <<copy, call, main>> /\ copy = <<>>  BY <1>2 DEF RequestAnswered, QueueTypes
  <2>3. QueueTypes'  BY <2>c, <2>d DEF QueueTypes
  <2>4. LinkTypes'  BY <1>2 DEF RequestAnswered, LinkTypes, Spend
  <2> QED  BY <2>1, <2>2, <2>3, <2>4
<1>3. ASSUME NEW e \in Endpoint, Answer(e)  PROVE TypeInv'
  <2>1. Flags'  BY <1>3 DEF Answer, Flags
  <2>2. EventTypes'  BY <1>3 DEF Answer, EventTypes
  <2>3. QueueTypes'  BY <1>3 DEF Answer, QueueTypes
  <2>4. LinkTypes'  BY <1>3 DEF Answer, LinkTypes
  <2> QED  BY <2>1, <2>2, <2>3, <2>4
<1> QED  BY <1>1, <1>2, <1>3 DEF Listeners

LEMMA TypeApplication == ASSUME TypeInv, Open \/ Subscribe \/ CallStart \/ CallStop \/ Swipe  PROVE TypeInv'
<1> USE DEF TypeInv, prefVars, runVars, nearbyVars, eventVars, historyVars, appOnly
<1>a. /\ sink' \in {sink, FALSE}
      /\ UNCHANGED <<saved, running, adv, disc, service, up, radio, crossed, failed, raced>>
  BY DEF Open, Subscribe, CallStart, CallStop, Swipe
<1>1. Flags'  BY <1>a DEF Flags
<1>2. EventTypes'  BY DEF Open, Subscribe, CallStart, CallStop, Swipe, EventTypes
<1>3. LinkTypes'  BY DEF Open, Subscribe, CallStart, CallStop, Swipe, LinkTypes, Spend
<1>4. /\ main' \in Seq(Messages)
      /\ call' \in Seq({"sink", "drain", "save", "run", "begin", "halt", "clear"})
  <2>1. Message("removed") \in Messages  BY DEF Message, Messages
  <2>a. AttachSteps \in Seq({"sink", "drain", "save", "run", "begin", "halt", "clear"})  BY DEF AttachSteps
  <2>b. <<>> \in Seq({"sink", "drain", "save", "run", "begin", "halt", "clear"})  OBVIOUS
  <2>2. CASE Open  BY <2>2, <2>a, <2>b DEF Open, QueueTypes
  <2>3. CASE Subscribe  BY <2>3 DEF Subscribe, AttachSteps, QueueTypes
  <2>4. CASE CallStart  BY <2>4 DEF CallStart, AttachSteps, QueueTypes
  <2>5. CASE CallStop  BY <2>5 DEF CallStop, QueueTypes
  <2>6. CASE Swipe  BY <2>1, <2>6 DEF Swipe, QueueTypes
  <2> QED  BY <2>2, <2>3, <2>4, <2>5, <2>6
<1>5. UNCHANGED <<copy, out>>  BY DEF Open, Subscribe, CallStart, CallStop, Swipe
<1>6. QueueTypes'  BY <1>4, <1>5 DEF QueueTypes
<1> QED  BY <1>1, <1>2, <1>3, <1>6

LEMMA RevivedIs == ASSUME TypeInv  PROVE Revived \in Seq(Messages)
<1>1. Intents(main) \in Seq(Messages)  BY IntentsAre DEF TypeInv, QueueTypes
<1>2. <<Message("create")>> \in Seq(Messages) /\ <<Message("sticky")>> \in Seq(Messages)
  BY DEF Message, Messages
<1> QED  BY <1>1, <1>2 DEF Revived

LEMMA TypeSystem == ASSUME TypeInv, Kill \/ Crash \/ Boot \/ SwitchRadio  PROVE TypeInv'
<1> USE DEF TypeInv, prefVars, runVars, nearbyVars, eventVars, historyVars
<1>1. ASSUME NEW q \in Seq(Messages), Die(q), up' \in BOOLEAN, UNCHANGED budget \/ \E k \in Env : Spend(k)
      PROVE TypeInv'
  <2>1. Flags'  BY <1>1 DEF Die, Flags
  <2>2. EventTypes'  BY <1>1 DEF Die, EventTypes
  <2>3. QueueTypes'  BY <1>1 DEF Die, QueueTypes
  <2>4. Owners(pending) \subseteq Endpoint  BY StoredAre DEF EventTypes
  <2>5. LinkTypes'  BY <1>1, <2>4 DEF Die, LinkTypes, Spend
  <2> QED  BY <2>1, <2>2, <2>3, <2>5
<1>2. CASE Kill \/ Crash  BY <1>1, <1>2, RevivedIs DEF Kill, Crash, Flags, Env
<1>3. CASE Boot
  <2>1. <<Message("create"), Message("start")>> \in Seq(Messages) /\ <<>> \in Seq(Messages)
    BY DEF Message, Messages, Intent
  <2> QED  BY <1>1, <1>3, <2>1 DEF Boot, Flags, Env
<1>4. CASE SwitchRadio
  <2>1. Flags'  BY <1>4 DEF SwitchRadio, Flags
  <2>2. EventTypes'  BY <1>4 DEF SwitchRadio, EventTypes
  <2>3. QueueTypes'  BY <1>4 DEF SwitchRadio, QueueTypes
  <2>4. LinkTypes'  BY <1>4 DEF SwitchRadio, LinkTypes, Spend, Env
  <2> QED  BY <2>1, <2>2, <2>3, <2>4
<1> QED  BY <1>2, <1>3, <1>4

LEMMA TypeNearby == ASSUME TypeInv, NEW e \in Endpoint, Nearby(e)  PROVE TypeInv'
<1> USE DEF TypeInv, prefVars, runVars, nearbyVars, eventVars, historyVars
<1>1. ASSUME NEW k \in {"found", "initiated", "result", "refused", "payload", "disconnected", "gone"}, NEW from,
             NEW to \in {"near", "asked", "open", "away", "offered", "accepted"}, Post(k, e, from, to),
             UNCHANGED budget \/ \E x \in Env : Spend(x)
      PROVE TypeInv'
  <2>1. Flags'  BY <1>1 DEF Post, Flags
  <2>2. EventTypes'  BY <1>1 DEF Post, EventTypes
  <2>3. [kind |-> k, of |-> e] \in Messages  BY DEF Messages
  <2>4. QueueTypes'  BY <1>1, <2>3 DEF Post, QueueTypes
  <2>5. LinkTypes'  BY <1>1 DEF Post, LinkTypes, Spend
  <2> QED  BY <2>1, <2>2, <2>4, <2>5
<1>2. link[e] \in {"near", "asked", "open", "away", "offered", "accepted"}  BY DEF LinkTypes
<1> QED  BY <1>1, <1>2 DEF Nearby, Env

LEMMA TypeStep == TypeInv /\ [Next]_vars => TypeInv'
<1> SUFFICES ASSUME TypeInv, [Next]_vars  PROVE TypeInv'  OBVIOUS
<1>1. CASE UNCHANGED vars
  BY <1>1 DEF vars, prefVars, runVars, nearbyVars, eventVars, historyVars, TypeInv, Flags, EventTypes, QueueTypes, LinkTypes
<1>2. CASE Main  BY <1>2, TypeMain, TypeCallbacks, TypeEmit DEF Main
<1> QED
  BY <1>1, <1>2, TypeModule, TypeListeners, TypeApplication, TypeSystem, TypeNearby DEF Next

LEMMA TypeHolds == Spec => []TypeInv
BY TypeStart, TypeStep, PTL DEF Spec

\* Every variable keeps its type, and the buffer of a detached application its bound
\* (persistEvent), for any endpoints and any budget of events.
THEOREM TypeCorrect == Spec => []TypeOK
BY TypeHolds, TypeInvTypes, PTL

-----------------------------------------------------------------------------
(* Queues of the main thread *)

IntentsIn(q) == {i \in DOMAIN q : q[i].kind \in Intent}
Ended(q, i)  == \E k \in DOMAIN q : k > i /\ q[k].kind = "destroy"

\* A service lives when q has been handled, if one does before.
Lives(q, lives) ==
    \/ \E i \in DOMAIN q : q[i].kind = "create" /\ ~Ended(q, i)
    \/ lives /\ \A i \in DOMAIN q : q[i].kind # "destroy"

\* A service is only created when the one before it has been stopped, and with an intent.
Renewed(q) ==
    \A i \in IntentsIn(q), j \in DOMAIN q :
        (i < j /\ q[j].kind = "create") => \E k \in DOMAIN q : i < k /\ k < j /\ q[k].kind = "destroy"

Followed(q) ==
    \A j \in DOMAIN q : q[j].kind = "create" =>
        \E i \in DOMAIN q : i = j + 1 /\ q[i].kind \in Intent \cup {"sticky"}

StickyFirst(q) ==
    \A i \in DOMAIN q : q[i].kind = "sticky" => i = 1 \/ (i = 2 /\ q[1].kind = "create")

AllEnded(q) == \A i \in IntentsIn(q) : Ended(q, i)

\* What the system has as started is the service that lives in the end.
Shape(q, lives, started) ==
    /\ Renewed(q) /\ Followed(q) /\ StickyFirst(q)
    /\ started <=> Lives(q, lives)
    /\ started \/ AllEnded(q)

StopsBeforeStarts(q) ==
    \A i, j \in IntentsIn(q) : (i < j /\ q[i].kind = "stop" /\ q[j].kind = "start") => Ended(q, i)

OnlyStops(q) == \A i \in IntentsIn(q) : q[i].kind = "stop"

LastIs(q, k) == \E i \in IntentsIn(q) : q[i].kind = k /\ \A j \in IntentsIn(q) : j <= i

\* What is saved when q has been handled, if kept is before.
Ends(q, kept, k) == LastIs(q, k) \/ (IntentsIn(q) = {} /\ (kept <=> k = "start"))

LEMMA TailIs ==
    ASSUME NEW q \in Seq(Messages), q # <<>>
    PROVE  /\ Tail(q) \in Seq(Messages) /\ Head(q) = q[1] /\ 1 \in DOMAIN q
           /\ \A i \in DOMAIN Tail(q) : i \in Nat /\ i + 1 \in DOMAIN q /\ Tail(q)[i] = q[i + 1] /\ i > 0
           /\ \A i \in DOMAIN q : i \in Nat /\ i > 0 /\ (i # 1 => i - 1 \in DOMAIN Tail(q) /\ Tail(q)[i - 1] = q[i])
<1>1. Len(q) \in Nat /\ Len(q) > 0 /\ DOMAIN q = 1 .. Len(q)  OBVIOUS
<1>2. Len(Tail(q)) = Len(q) - 1 /\ DOMAIN Tail(q) = 1 .. Len(q) - 1  BY <1>1
<1>3. \A i \in 1 .. Len(q) - 1 : Tail(q)[i] = q[i + 1]  BY <1>1
<1>4. ASSUME NEW i \in DOMAIN q, i # 1  PROVE i - 1 \in DOMAIN Tail(q) /\ Tail(q)[i - 1] = q[i]
  <2>1. i - 1 \in 1 .. Len(q) - 1 /\ (i - 1) + 1 = i  BY <1>1, <1>4
  <2> QED  BY <1>2, <1>3, <2>1
<1> QED  BY <1>1, <1>2, <1>3, <1>4

LEMMA PushIs ==
    ASSUME NEW q \in Seq(Messages), NEW m \in Messages
    PROVE  /\ q \o <<m>> = Append(q, m) /\ Append(q, m) \in Seq(Messages)
           /\ Len(q) + 1 \in DOMAIN Append(q, m) /\ Append(q, m)[Len(q) + 1] = m
           /\ \A i \in DOMAIN q : i \in Nat /\ i > 0 /\ i <= Len(q) /\ i \in DOMAIN Append(q, m) /\ Append(q, m)[i] = q[i]
           /\ \A i \in DOMAIN Append(q, m) : i \in Nat /\ (i = Len(q) + 1 \/ i \in DOMAIN q)
           /\ Len(q) \in Nat
OBVIOUS

After(h, lives) == IF h = "create" THEN TRUE ELSE IF h = "destroy" THEN FALSE ELSE lives

LEMMA EndedTail ==
    ASSUME NEW q \in Seq(Messages), q # <<>>, NEW i \in DOMAIN Tail(q)
    PROVE  Ended(Tail(q), i) <=> Ended(q, i + 1)
<1>1. ASSUME Ended(Tail(q), i)  PROVE Ended(q, i + 1)
  <2>1. PICK k \in DOMAIN Tail(q) : k > i /\ Tail(q)[k].kind = "destroy"  BY <1>1 DEF Ended
  <2>2. k + 1 \in DOMAIN q /\ q[k + 1].kind = "destroy" /\ k + 1 > i + 1  BY <2>1, TailIs
  <2> QED  BY <2>2 DEF Ended
<1>2. ASSUME Ended(q, i + 1)  PROVE Ended(Tail(q), i)
  <2>1. PICK k \in DOMAIN q : k > i + 1 /\ q[k].kind = "destroy"  BY <1>2 DEF Ended
  <2>2. i \in Nat /\ i > 0 /\ k \in Nat  BY TailIs
  <2>3. k # 1  BY <2>1, <2>2
  <2>4. k - 1 \in DOMAIN Tail(q) /\ Tail(q)[k - 1] = q[k]  BY <2>3, TailIs
  <2>5. k - 1 > i  BY <2>1, <2>2
  <2> QED  BY <2>1, <2>4, <2>5 DEF Ended
<1> QED  BY <1>1, <1>2

LEMMA LivesTail ==
    ASSUME NEW q \in Seq(Messages), q # <<>>, NEW lives \in BOOLEAN
    PROVE  Lives(Tail(q), After(q[1].kind, lives)) <=> Lives(q, lives)
<1> DEFINE t == Tail(q)
           after == After(q[1].kind, lives)
<1>1. ASSUME NEW i \in DOMAIN t, t[i].kind = "create", ~Ended(t, i)  PROVE Lives(q, lives)
  <2>1. i + 1 \in DOMAIN q /\ q[i + 1].kind = "create" /\ ~Ended(q, i + 1)  BY <1>1, TailIs, EndedTail
  <2> QED  BY <2>1 DEF Lives
<1>2. ASSUME after, \A i \in DOMAIN t : t[i].kind # "destroy"  PROVE Lives(q, lives)
  <2>1. ASSUME NEW i \in DOMAIN q, i # 1  PROVE q[i].kind # "destroy"
    <3>1. i - 1 \in DOMAIN t /\ t[i - 1] = q[i]  BY <2>1, TailIs
    <3> QED  BY <1>2, <3>1
  <2>2. CASE q[1].kind = "create"
    <3>1. ~Ended(q, 1)  BY <2>1 DEF Ended
    <3> QED  BY <2>2, <3>1, TailIs DEF Lives
  <2>3. CASE q[1].kind # "create"
    <3>1. lives /\ q[1].kind # "destroy"  BY <1>2, <2>3 DEF After
    <3> QED  BY <2>1, <3>1 DEF Lives
  <2> QED  BY <2>2, <2>3
<1>3. ASSUME NEW i \in DOMAIN q, q[i].kind = "create", ~Ended(q, i)  PROVE Lives(t, after)
  <2>1. CASE i = 1
    <3>1. after  BY <1>3, <2>1 DEF After
    <3>2. \A k \in DOMAIN t : t[k].kind # "destroy"
      <4> SUFFICES ASSUME NEW k \in DOMAIN t, t[k].kind = "destroy"  PROVE FALSE  OBVIOUS
      <4>1. k + 1 \in DOMAIN q /\ q[k + 1].kind = "destroy" /\ k + 1 > i  BY <2>1, TailIs
      <4> QED  BY <1>3, <4>1 DEF Ended
    <3> QED  BY <3>1, <3>2 DEF Lives
  <2>2. CASE i # 1
    <3>1. i - 1 \in DOMAIN t /\ t[i - 1] = q[i] /\ (i - 1) + 1 = i  BY <2>2, TailIs
    <3>2. ~Ended(t, i - 1)
      <4>1. Ended(t, i - 1) <=> Ended(q, (i - 1) + 1)  BY <3>1, EndedTail
      <4> QED  BY <1>3, <3>1, <4>1
    <3> QED  BY <1>3, <3>1, <3>2 DEF Lives
  <2> QED  BY <2>1, <2>2
<1>4. ASSUME lives, \A i \in DOMAIN q : q[i].kind # "destroy"  PROVE Lives(t, after)
  <2>1. after  BY <1>4, TailIs DEF After
  <2>2. \A i \in DOMAIN t : t[i].kind # "destroy"  BY <1>4, TailIs
  <2> QED  BY <2>1, <2>2 DEF Lives
<1> HIDE DEF t, after
<1>5. Lives(t, after) => Lives(q, lives)  BY <1>1, <1>2 DEF Lives
<1>6. Lives(q, lives) => Lives(t, after)  BY <1>3, <1>4 DEF Lives
<1> QED  BY <1>5, <1>6 DEF t, after

LEMMA ShapeTail ==
    ASSUME NEW q \in Seq(Messages), q # <<>>, NEW lives \in BOOLEAN, NEW started \in BOOLEAN,
           Shape(q, lives, started)
    PROVE  Shape(Tail(q), After(q[1].kind, lives), started)
<1> DEFINE t == Tail(q)
<1>0. /\ \A i \in DOMAIN t : i \in Nat /\ i + 1 \in DOMAIN q /\ t[i] = q[i + 1] /\ i > 0
      /\ \A i \in DOMAIN q : i \in Nat /\ i > 0 /\ (i # 1 => i - 1 \in DOMAIN t /\ t[i - 1] = q[i])
      /\ \A i \in DOMAIN t : Ended(t, i) <=> Ended(q, i + 1)
      /\ \A i \in IntentsIn(t) : i + 1 \in IntentsIn(q)
  BY TailIs, EndedTail DEF IntentsIn
<1>1. started <=> Lives(t, After(q[1].kind, lives))  BY LivesTail DEF Shape
<1> HIDE DEF t
<1>2. Renewed(t)
  <2> SUFFICES ASSUME NEW i \in IntentsIn(t), NEW j \in DOMAIN t, i < j, t[j].kind = "create"
               PROVE \E k \in DOMAIN t : i < k /\ k < j /\ t[k].kind = "destroy"
    BY DEF Renewed
  <2>1. i \in DOMAIN t  BY DEF IntentsIn
  <2>2. i + 1 \in IntentsIn(q) /\ j + 1 \in DOMAIN q /\ i + 1 < j + 1 /\ q[j + 1].kind = "create"
    BY <1>0, <2>1
  <2>3. PICK k \in DOMAIN q : i + 1 < k /\ k < j + 1 /\ q[k].kind = "destroy"  BY <2>2 DEF Shape, Renewed
  <2>4. k - 1 \in DOMAIN t /\ t[k - 1] = q[k] /\ i < k - 1 /\ k - 1 < j  BY <1>0, <2>1, <2>3
  <2> QED  BY <2>3, <2>4
<1>3. Followed(t)
  <2> SUFFICES ASSUME NEW j \in DOMAIN t, t[j].kind = "create"
               PROVE \E i \in DOMAIN t : i = j + 1 /\ t[i].kind \in Intent \cup {"sticky"}
    BY DEF Followed
  <2>1. PICK i \in DOMAIN q : i = (j + 1) + 1 /\ q[i].kind \in Intent \cup {"sticky"}
    BY <1>0 DEF Shape, Followed
  <2>2. i # 1 /\ i - 1 = j + 1  BY <1>0, <2>1
  <2> QED  BY <1>0, <2>1, <2>2
<1>4. StickyFirst(t)
  <2> SUFFICES ASSUME NEW i \in DOMAIN t, t[i].kind = "sticky"  PROVE i = 1  BY DEF StickyFirst
  <2>1. i + 1 = 1 \/ i + 1 = 2  BY <1>0 DEF Shape, StickyFirst
  <2> QED  BY <1>0, <2>1
<1>5. started \/ AllEnded(t)
  <2> SUFFICES ASSUME ~started, NEW i \in IntentsIn(t)  PROVE Ended(t, i)  BY DEF AllEnded
  <2>1. i \in DOMAIN t  BY DEF IntentsIn
  <2>2. Ended(q, i + 1)  BY <1>0 DEF Shape, AllEnded
  <2> QED  BY <1>0, <2>1, <2>2
<1> QED  BY <1>1, <1>2, <1>3, <1>4, <1>5 DEF Shape, t

Neutral(m) == m.kind \notin Intent \cup {"create", "destroy", "sticky"}

LEMMA EndedPush ==
    ASSUME NEW q \in Seq(Messages), NEW m \in Messages, NEW i \in DOMAIN q
    PROVE  Ended(Append(q, m), i) <=> Ended(q, i) \/ m.kind = "destroy"
<1> DEFINE t == Append(q, m)
<1>0. /\ Len(q) + 1 \in DOMAIN t /\ t[Len(q) + 1] = m /\ Len(q) \in Nat
      /\ \A k \in DOMAIN q : k \in Nat /\ k <= Len(q) /\ k \in DOMAIN t /\ t[k] = q[k]
      /\ \A k \in DOMAIN t : k \in Nat /\ (k = Len(q) + 1 \/ k \in DOMAIN q)
  BY PushIs
<1> HIDE DEF t
<1>1. Ended(q, i) => Ended(t, i)  BY <1>0 DEF Ended
<1>2. m.kind = "destroy" => Ended(t, i)  BY <1>0 DEF Ended
<1>3. Ended(t, i) => Ended(q, i) \/ m.kind = "destroy"  BY <1>0 DEF Ended
<1> QED  BY <1>1, <1>2, <1>3 DEF t

\* A message that is no intent, and does not begin or end a service.
LEMMA ShapePush ==
    ASSUME NEW q \in Seq(Messages), NEW m \in Messages, Neutral(m),
           NEW lives \in BOOLEAN, NEW started \in BOOLEAN, Shape(q, lives, started)
    PROVE  Shape(Append(q, m), lives, started)
<1> DEFINE t == Append(q, m)
<1>0. /\ Len(q) + 1 \in DOMAIN t /\ t[Len(q) + 1] = m /\ Len(q) \in Nat
      /\ \A k \in DOMAIN q : k \in Nat /\ k > 0 /\ k <= Len(q) /\ k \in DOMAIN t /\ t[k] = q[k]
      /\ \A k \in DOMAIN t : k \in Nat /\ (k = Len(q) + 1 \/ k \in DOMAIN q)
      /\ \A k \in DOMAIN q : Ended(t, k) <=> Ended(q, k)
  BY PushIs, EndedPush DEF Neutral
<1> HIDE DEF t
<1>1. IntentsIn(t) = IntentsIn(q)  BY <1>0 DEF IntentsIn, Neutral
<1>2. \A k \in DOMAIN t : t[k].kind \in {"create", "destroy", "sticky"} => k \in DOMAIN q  BY <1>0 DEF Neutral
<1>3. Renewed(t)
  <2> SUFFICES ASSUME NEW i \in IntentsIn(q), NEW j \in DOMAIN q, i < j, q[j].kind = "create"
               PROVE \E k \in DOMAIN t : i < k /\ k < j /\ t[k].kind = "destroy"
    BY <1>0, <1>1, <1>2 DEF Renewed
  <2> QED  BY <1>0 DEF Shape, Renewed
<1>4. Followed(t)
  <2> SUFFICES ASSUME NEW j \in DOMAIN q, q[j].kind = "create"
               PROVE \E i \in DOMAIN t : i = j + 1 /\ t[i].kind \in Intent \cup {"sticky"}
    BY <1>0, <1>2 DEF Followed
  <2> QED  BY <1>0 DEF Shape, Followed
<1>5. StickyFirst(t)
  <2> SUFFICES ASSUME NEW i \in DOMAIN q, q[i].kind = "sticky"
               PROVE i = 1 \/ (i = 2 /\ t[1].kind = "create")
    BY <1>0, <1>2 DEF StickyFirst
  <2>1. i = 1 \/ (i = 2 /\ q[1].kind = "create")  BY DEF Shape, StickyFirst
  <2>2. 1 \in DOMAIN q  OBVIOUS
  <2> QED  BY <1>0, <2>1, <2>2
<1>6. Lives(t, lives) <=> Lives(q, lives)  BY <1>0, <1>2 DEF Lives
<1>7. AllEnded(q) => AllEnded(t)  BY <1>0, <1>1 DEF AllEnded, IntentsIn
<1> QED  BY <1>3, <1>4, <1>5, <1>6, <1>7 DEF Shape, t

\* An intent for a service the system has as started.
LEMMA ShapeIntent ==
    ASSUME NEW q \in Seq(Messages), NEW m \in Messages, m.kind \in Intent,
           NEW lives \in BOOLEAN, Shape(q, lives, TRUE)
    PROVE  Shape(Append(q, m), lives, TRUE)
<1> DEFINE t == Append(q, m)
<1>0. /\ Len(q) + 1 \in DOMAIN t /\ t[Len(q) + 1] = m /\ Len(q) \in Nat
      /\ \A k \in DOMAIN q : k \in Nat /\ k > 0 /\ k <= Len(q) /\ k \in DOMAIN t /\ t[k] = q[k]
      /\ \A k \in DOMAIN t : k \in Nat /\ (k = Len(q) + 1 \/ k \in DOMAIN q)
      /\ \A k \in DOMAIN q : Ended(t, k) <=> Ended(q, k)
  BY PushIs, EndedPush DEF Intent
<1> HIDE DEF t
<1>1. \A k \in DOMAIN t : t[k].kind \in {"create", "destroy", "sticky"} => k \in DOMAIN q  BY <1>0 DEF Intent
<1>2. Renewed(t)
  <2> SUFFICES ASSUME NEW i \in IntentsIn(t), NEW j \in DOMAIN q, i < j, q[j].kind = "create"
               PROVE \E k \in DOMAIN t : i < k /\ k < j /\ t[k].kind = "destroy"
    BY <1>0, <1>1 DEF Renewed
  <2>1. i \in IntentsIn(q)  BY <1>0 DEF IntentsIn
  <2> QED  BY <1>0, <2>1 DEF Shape, Renewed
<1>3. Followed(t)
  <2> SUFFICES ASSUME NEW j \in DOMAIN q, q[j].kind = "create"
               PROVE \E i \in DOMAIN t : i = j + 1 /\ t[i].kind \in Intent \cup {"sticky"}
    BY <1>0, <1>1 DEF Followed
  <2> QED  BY <1>0 DEF Shape, Followed
<1>4. StickyFirst(t)
  <2> SUFFICES ASSUME NEW i \in DOMAIN q, q[i].kind = "sticky"
               PROVE i = 1 \/ (i = 2 /\ t[1].kind = "create")
    BY <1>0, <1>1 DEF StickyFirst
  <2>1. i = 1 \/ (i = 2 /\ q[1].kind = "create")  BY DEF Shape, StickyFirst
  <2>2. 1 \in DOMAIN q  OBVIOUS
  <2> QED  BY <1>0, <2>1, <2>2
<1>5. Lives(t, lives) <=> Lives(q, lives)  BY <1>0, <1>1 DEF Lives
<1> QED  BY <1>2, <1>3, <1>4, <1>5 DEF Shape, t

\* A service is created with its first intent.
LEMMA ShapeCreate ==
    ASSUME NEW q \in Seq(Messages), NEW m \in Messages, m.kind \in Intent,
           NEW c \in Messages, c.kind = "create", NEW lives \in BOOLEAN, Shape(q, lives, FALSE)
    PROVE  Shape(Append(Append(q, c), m), lives, TRUE)
<1> DEFINE t == Append(Append(q, c), m)
           n == Len(q) + 1
<1>0. /\ n \in Nat /\ n \in DOMAIN t /\ t[n] = c /\ n + 1 \in DOMAIN t /\ t[n + 1] = m
      /\ \A k \in DOMAIN q : k \in Nat /\ k > 0 /\ k < n /\ k \in DOMAIN t /\ t[k] = q[k]
      /\ \A k \in DOMAIN t : k \in Nat /\ (k = n + 1 \/ k = n \/ k \in DOMAIN q)
  OBVIOUS
<1> HIDE DEF t, n
<1>1. \A k \in DOMAIN t : t[k].kind \in {"destroy", "sticky"} => k \in DOMAIN q  BY <1>0 DEF Intent
<1>2. Renewed(t)
  <2> SUFFICES ASSUME NEW i \in IntentsIn(t), NEW j \in DOMAIN t, i < j, t[j].kind = "create"
               PROVE \E k \in DOMAIN t : i < k /\ k < j /\ t[k].kind = "destroy"
    BY DEF Renewed
  <2>1. j = n \/ j \in DOMAIN q  BY <1>0 DEF Intent
  <2>2. i \in IntentsIn(q)  BY <1>0, <2>1 DEF IntentsIn, Intent
  <2>3. CASE j = n
    <3>1. Ended(q, i)  BY <2>2 DEF Shape, AllEnded
    <3>2. PICK k \in DOMAIN q : k > i /\ q[k].kind = "destroy"  BY <3>1 DEF Ended
    <3> QED  BY <1>0, <2>3, <3>2
  <2>4. CASE j \in DOMAIN q  BY <1>0, <2>2, <2>4 DEF Shape, Renewed
  <2> QED  BY <2>1, <2>3, <2>4
<1>3. Followed(t)
  <2> SUFFICES ASSUME NEW j \in DOMAIN t, t[j].kind = "create"
               PROVE \E i \in DOMAIN t : i = j + 1 /\ t[i].kind \in Intent \cup {"sticky"}
    BY DEF Followed
  <2>1. CASE j = n  BY <1>0, <2>1
  <2>2. CASE j \in DOMAIN q  BY <1>0, <2>2 DEF Shape, Followed
  <2> QED  BY <1>0, <2>1, <2>2 DEF Intent
<1>4. StickyFirst(t)
  <2> SUFFICES ASSUME NEW i \in DOMAIN q, q[i].kind = "sticky"
               PROVE i = 1 \/ (i = 2 /\ t[1].kind = "create")
    BY <1>0, <1>1 DEF StickyFirst
  <2>1. i = 1 \/ (i = 2 /\ q[1].kind = "create")  BY DEF Shape, StickyFirst
  <2>2. 1 \in DOMAIN q  OBVIOUS
  <2> QED  BY <1>0, <2>1, <2>2
<1>5. Lives(t, lives)
  <2>1. ~Ended(t, n)  BY <1>0, <1>1 DEF Ended
  <2> QED  BY <1>0, <2>1 DEF Lives
<1> QED  BY <1>2, <1>3, <1>4, <1>5 DEF Shape, t

\* A service that is stopped, unless it has been, is destroyed after what waits.
LEMMA ShapeStop ==
    ASSUME NEW q \in Seq(Messages), q # <<>>, q[1].kind \in Intent, NEW d \in Messages, d.kind = "destroy",
           NEW lives \in BOOLEAN, NEW started \in BOOLEAN, Shape(q, lives, started)
    PROVE  Shape(Append(Tail(q), d), lives, FALSE)
<1>1. Tail(q) \in Seq(Messages) /\ Shape(Tail(q), lives, started)
  BY ShapeTail, TailIs DEF After, Intent
<1>2. PICK r : r = Tail(q)  OBVIOUS
<1> DEFINE t == Append(r, d)
<1>0. /\ Len(r) + 1 \in DOMAIN t /\ t[Len(r) + 1] = d /\ Len(r) \in Nat
      /\ \A k \in DOMAIN r : k \in Nat /\ k > 0 /\ k <= Len(r) /\ k \in DOMAIN t /\ t[k] = r[k]
      /\ \A k \in DOMAIN t : k \in Nat /\ (k = Len(r) + 1 \/ k \in DOMAIN r)
      /\ \A k \in DOMAIN r : Ended(t, k)
  BY <1>1, <1>2, PushIs, EndedPush
<1> HIDE DEF t
<1>3. \A k \in DOMAIN t : t[k].kind \in {"create", "sticky"} \cup Intent => k \in DOMAIN r  BY <1>0 DEF Intent
<1>4. Shape(r, lives, started) /\ r \in Seq(Messages)  BY <1>1, <1>2
<1>5. Renewed(t)
  <2> SUFFICES ASSUME NEW i \in IntentsIn(r), NEW j \in DOMAIN r, i < j, r[j].kind = "create"
               PROVE \E k \in DOMAIN t : i < k /\ k < j /\ t[k].kind = "destroy"
    BY <1>0, <1>3 DEF Renewed, IntentsIn
  <2> QED  BY <1>0, <1>4 DEF Shape, Renewed
<1>6. Followed(t)
  <2> SUFFICES ASSUME NEW j \in DOMAIN r, r[j].kind = "create"
               PROVE \E i \in DOMAIN t : i = j + 1 /\ t[i].kind \in Intent \cup {"sticky"}
    BY <1>0, <1>3 DEF Followed
  <2> QED  BY <1>0, <1>4 DEF Shape, Followed
<1>7. StickyFirst(t)
  <2> SUFFICES ASSUME NEW i \in DOMAIN r, r[i].kind = "sticky"
               PROVE i = 1 \/ (i = 2 /\ t[1].kind = "create")
    BY <1>0, <1>3 DEF StickyFirst
  <2>1. i = 1 \/ (i = 2 /\ r[1].kind = "create")  BY <1>4 DEF Shape, StickyFirst
  <2>2. 1 \in DOMAIN r  BY <1>4
  <2> QED  BY <1>0, <2>1, <2>2
<1>8. ~Lives(t, lives)  BY <1>0, <1>3 DEF Lives
<1>9. AllEnded(t)  BY <1>0, <1>3 DEF AllEnded, IntentsIn
<1> QED  BY <1>2, <1>5, <1>6, <1>7, <1>8, <1>9 DEF Shape, t

StopsEnded(q) == \A i \in IntentsIn(q) : q[i].kind = "stop" => Ended(q, i)

LEMMA CrossTail ==
    ASSUME NEW q \in Seq(Messages), q # <<>>
    PROVE  /\ StopsBeforeStarts(q) => StopsBeforeStarts(Tail(q))
           /\ OnlyStops(q) => OnlyStops(Tail(q))
           /\ StopsEnded(q) => StopsEnded(Tail(q))
<1> DEFINE t == Tail(q)
<1>0. /\ \A i \in DOMAIN t : i \in Nat /\ i + 1 \in DOMAIN q /\ t[i] = q[i + 1] /\ i > 0
      /\ \A i \in DOMAIN t : Ended(t, i) <=> Ended(q, i + 1)
      /\ \A i \in IntentsIn(t) : i \in DOMAIN t /\ i + 1 \in IntentsIn(q)
  BY TailIs, EndedTail DEF IntentsIn
<1> HIDE DEF t
<1>1. StopsBeforeStarts(q) => StopsBeforeStarts(t)
  <2> SUFFICES ASSUME StopsBeforeStarts(q), NEW i \in IntentsIn(t), NEW j \in IntentsIn(t),
                      i < j, t[i].kind = "stop", t[j].kind = "start"
               PROVE  Ended(t, i)
    BY DEF StopsBeforeStarts
  <2>1. i + 1 < j + 1  BY <1>0
  <2>2. Ended(q, i + 1)  BY <1>0, <2>1 DEF StopsBeforeStarts
  <2> QED  BY <1>0, <2>2
<1>2. OnlyStops(q) => OnlyStops(t)  BY <1>0 DEF OnlyStops
<1>3. StopsEnded(q) => StopsEnded(t)  BY <1>0 DEF StopsEnded
<1> QED  BY <1>1, <1>2, <1>3 DEF t

LEMMA CrossPush ==
    ASSUME NEW q \in Seq(Messages), NEW m \in Messages
    PROVE  /\ (StopsBeforeStarts(q) /\ (m.kind # "start" \/ StopsEnded(q))) => StopsBeforeStarts(Append(q, m))
           /\ (OnlyStops(q) /\ m.kind # "start") => OnlyStops(Append(q, m))
           /\ (StopsEnded(q) /\ m.kind # "stop") => StopsEnded(Append(q, m))
           /\ m.kind = "destroy" => StopsEnded(Append(q, m))
<1> DEFINE t == Append(q, m)
<1>0. /\ Len(q) + 1 \in DOMAIN t /\ t[Len(q) + 1] = m /\ Len(q) \in Nat
      /\ \A k \in DOMAIN q : k \in Nat /\ k > 0 /\ k <= Len(q) /\ k \in DOMAIN t /\ t[k] = q[k]
      /\ \A k \in DOMAIN t : k \in Nat /\ (k = Len(q) + 1 \/ k \in DOMAIN q)
      /\ \A k \in DOMAIN q : Ended(t, k) <=> Ended(q, k) \/ m.kind = "destroy"
  BY PushIs, EndedPush
<1> HIDE DEF t
<1>1. \A i \in IntentsIn(t) : i \in IntentsIn(q) \/ (i = Len(q) + 1 /\ m.kind \in Intent)
  BY <1>0 DEF IntentsIn
<1>2. \A i \in IntentsIn(q) : i \in DOMAIN q  BY DEF IntentsIn
<1>3. (StopsBeforeStarts(q) /\ (m.kind # "start" \/ StopsEnded(q))) => StopsBeforeStarts(t)
  <2> SUFFICES ASSUME StopsBeforeStarts(q), m.kind # "start" \/ StopsEnded(q),
                      NEW i \in IntentsIn(t), NEW j \in IntentsIn(t),
                      i < j, t[i].kind = "stop", t[j].kind = "start"
               PROVE  Ended(t, i)
    BY DEF StopsBeforeStarts
  <2>1. i \in IntentsIn(q)  BY <1>0, <1>1, <1>2
  <2>2. CASE j \in IntentsIn(q)  BY <1>0, <1>2, <2>1, <2>2 DEF StopsBeforeStarts
  <2>3. CASE j \notin IntentsIn(q)
    <3>1. j = Len(q) + 1  BY <1>1, <2>3
    <3>2. StopsEnded(q)  BY <1>0, <3>1
    <3> QED  BY <1>0, <1>2, <2>1, <3>2 DEF StopsEnded
  <2> QED  BY <2>2, <2>3
<1>4. (OnlyStops(q) /\ m.kind # "start") => OnlyStops(t)
  BY <1>0, <1>1, <1>2 DEF OnlyStops, Intent
<1>5. (StopsEnded(q) /\ m.kind # "stop") => StopsEnded(t)
  BY <1>0, <1>1, <1>2 DEF StopsEnded
<1>6. m.kind = "destroy" => StopsEnded(t)
  BY <1>0, <1>1, <1>2 DEF StopsEnded, Intent
<1> QED  BY <1>3, <1>4, <1>5, <1>6 DEF t

LEMMA EndsTail ==
    ASSUME NEW q \in Seq(Messages), q # <<>>, NEW k \in Intent, NEW kept \in BOOLEAN, NEW after \in BOOLEAN,
           Ends(q, kept, k),
           q[1].kind \in Intent => (after <=> q[1].kind = "start"), q[1].kind \notin Intent => after = kept
    PROVE  Ends(Tail(q), after, k)
<1> DEFINE t == Tail(q)
<1>0. /\ \A i \in DOMAIN t : i \in Nat /\ i + 1 \in DOMAIN q /\ t[i] = q[i + 1] /\ i > 0
      /\ \A i \in DOMAIN q : i \in Nat /\ i > 0 /\ (i # 1 => i - 1 \in DOMAIN t /\ t[i - 1] = q[i])
      /\ 1 \in DOMAIN q
  BY TailIs
<1> HIDE DEF t
<1>1. \A i \in IntentsIn(t) : i \in Nat /\ i > 0 /\ i + 1 \in IntentsIn(q) /\ t[i] = q[i + 1]
  BY <1>0 DEF IntentsIn
<1>2. \A i \in IntentsIn(q) : i \in Nat /\ i > 0 /\ (i # 1 => i - 1 \in IntentsIn(t) /\ t[i - 1] = q[i])
  BY <1>0 DEF IntentsIn
<1>3. CASE LastIs(q, k)
  <2>1. PICK i \in IntentsIn(q) : q[i].kind = k /\ \A j \in IntentsIn(q) : j <= i  BY <1>3 DEF LastIs
  <2>2. CASE i = 1
    <3>1. IntentsIn(t) = {}
      <4> SUFFICES ASSUME NEW j \in IntentsIn(t)  PROVE FALSE  OBVIOUS
      <4>1. j + 1 <= 1 /\ j > 0 /\ j \in Nat  BY <1>1, <2>1, <2>2
      <4> QED  BY <4>1
    <3>2. q[1].kind = k /\ q[1].kind \in Intent  BY <2>1, <2>2 DEF IntentsIn
    <3>3. after <=> k = "start"  BY <3>2
    <3> QED  BY <3>1, <3>3 DEF Ends, t
  <2>3. CASE i # 1
    <3>1. i - 1 \in IntentsIn(t) /\ t[i - 1].kind = k  BY <1>2, <2>1, <2>3
    <3>2. \A j \in IntentsIn(t) : j <= i - 1  BY <1>1, <1>2, <2>1
    <3> QED  BY <3>1, <3>2 DEF Ends, LastIs, t
  <2> QED  BY <2>2, <2>3
<1>4. CASE IntentsIn(q) = {} /\ (kept <=> k = "start")
  <2>1. q[1].kind \notin Intent  BY <1>0, <1>4 DEF IntentsIn
  <2>2. IntentsIn(t) = {}  BY <1>1, <1>4
  <2> QED  BY <1>4, <2>1, <2>2 DEF Ends, t
<1> QED  BY <1>3, <1>4 DEF Ends

LEMMA EndsPush ==
    ASSUME NEW q \in Seq(Messages), NEW m \in Messages
    PROVE  /\ m.kind \notin Intent => /\ IntentsIn(Append(q, m)) = IntentsIn(q)
                                      /\ \A kept, k : Ends(q, kept, k) => Ends(Append(q, m), kept, k)
           /\ m.kind \in Intent => /\ LastIs(Append(q, m), m.kind)
                                   /\ \A kept : Ends(Append(q, m), kept, m.kind)
<1> DEFINE t == Append(q, m)
<1>0. /\ Len(q) + 1 \in DOMAIN t /\ t[Len(q) + 1] = m /\ Len(q) \in Nat
      /\ \A k \in DOMAIN q : k \in Nat /\ k > 0 /\ k <= Len(q) /\ k \in DOMAIN t /\ t[k] = q[k]
      /\ \A k \in DOMAIN t : k \in Nat /\ (k = Len(q) + 1 \/ k \in DOMAIN q)
  BY PushIs
<1> HIDE DEF t
<1>1. m.kind \notin Intent => IntentsIn(t) = IntentsIn(q)  BY <1>0 DEF IntentsIn
<1>2. ASSUME m.kind \notin Intent, NEW kept, NEW k, Ends(q, kept, k)  PROVE Ends(t, kept, k)
  <2>1. \A i \in IntentsIn(q) : t[i] = q[i]  BY <1>0 DEF IntentsIn
  <2>2. IntentsIn(t) = IntentsIn(q)  BY <1>1, <1>2
  <2> QED  BY <1>2, <2>1, <2>2 DEF Ends, LastIs
<1>3. m.kind \in Intent => LastIs(t, m.kind)
  <2> SUFFICES ASSUME m.kind \in Intent  PROVE LastIs(t, m.kind)  OBVIOUS
  <2>1. Len(q) + 1 \in IntentsIn(t) /\ t[Len(q) + 1].kind = m.kind  BY <1>0 DEF IntentsIn
  <2>2. \A j \in IntentsIn(t) : j <= Len(q) + 1  BY <1>0 DEF IntentsIn
  <2> QED  BY <2>1, <2>2 DEF LastIs
<1> QED  BY <1>1, <1>2, <1>3 DEF Ends, t

\* Stops that wait for a service of before have been overtaken.
LEMMA OldStops ==
    ASSUME NEW q \in Seq(Messages), NEW lives \in BOOLEAN, NEW started \in BOOLEAN, Shape(q, lives, started),
           ~(started /\ \E i \in Current(q) : q[i].kind = "stop")
    PROVE  StopsEnded(q)
<1> SUFFICES ASSUME NEW i \in IntentsIn(q), q[i].kind = "stop"  PROVE Ended(q, i)  BY DEF StopsEnded
<1>1. CASE ~started  BY <1>1 DEF Shape, AllEnded
<1>2. CASE started
  <2>1. i \notin Current(q)  BY <1>2
  <2>2. PICK j \in DOMAIN q : j > i /\ q[j].kind = "create"  BY <2>1 DEF Current, IntentsIn
  <2>3. i \in Nat /\ j \in Nat  BY DEF IntentsIn
  <2>4. i < j  BY <2>2, <2>3
  <2>5. PICK k \in DOMAIN q : i < k /\ k < j /\ q[k].kind = "destroy"
    BY <2>2, <2>4 DEF Shape, Renewed
  <2>6. k > i  BY <2>5
  <2> QED  BY <2>5, <2>6 DEF Ended
<1> QED  BY <1>1, <1>2

\* The last intent is one for the service that was created last.
LEMMA LastIsCurrent ==
    ASSUME NEW q \in Seq(Messages), Followed(q), StickyFirst(q),
           NEW i \in IntentsIn(q), \A j \in IntentsIn(q) : j <= i
    PROVE  i \in Current(q)
<1>1. i \in Nat /\ i > 0 /\ i \in DOMAIN q /\ q[i].kind \in Intent  BY DEF IntentsIn
<1>2. ASSUME NEW j \in DOMAIN q, j > i, q[j].kind = "create"  PROVE FALSE
  <2>1. PICK k \in DOMAIN q : k = j + 1 /\ q[k].kind \in Intent \cup {"sticky"}
    BY <1>2 DEF Followed
  <2>2. j \in Nat /\ k \in Nat /\ k > i /\ k > 2  BY <1>1, <1>2, <2>1
  <2>3. k \notin IntentsIn(q)  BY <1>1, <2>2
  <2>4. q[k].kind = "sticky"  BY <2>1, <2>3 DEF IntentsIn
  <2> QED  BY <2>2, <2>4 DEF StickyFirst
<1> QED  BY <1>1, <1>2 DEF Current

LEMMA NoneCurrent ==
    ASSUME NEW q \in Seq(Messages), Followed(q), StickyFirst(q), Current(q) = {}
    PROVE  IntentsIn(q) = {}
<1> SUFFICES ASSUME IntentsIn(q) # {}  PROVE FALSE  OBVIOUS
<1>1. IntentsIn(q) \in SUBSET (1 .. Len(q)) /\ Len(q) \in Nat  BY DEF IntentsIn
<1>2. PICK i \in IntentsIn(q) : \A j \in IntentsIn(q) : j <= i  BY <1>1, Greatest
<1> QED  BY <1>2, LastIsCurrent

-----------------------------------------------------------------------------
(* What the system starts a service with again *)

Create1 == <<Message("create")>>

\* What the system starts a process with again, for a service that was started.
Reissued(q) == Create1 \o (IF Intents(q) = <<>> THEN <<Message("sticky")>> ELSE Intents(q))

LEMMA ReissuedIs ==
    ASSUME NEW q \in Seq(Messages)
    PROVE  /\ Reissued(q) \in Seq(Messages) /\ Len(Reissued(q)) > 1
           /\ Reissued(q)[1].kind = "create"
           /\ \A i \in DOMAIN Reissued(q) : i \in Nat /\ i > 0 /\ i <= Len(Reissued(q))
           /\ Intents(q) = <<>> => Len(Reissued(q)) = 2 /\ Reissued(q)[2].kind = "sticky"
           /\ Intents(q) # <<>> =>
                  /\ Len(Reissued(q)) = Len(Intents(q)) + 1
                  /\ \A i \in 1 .. Len(Intents(q)) : Reissued(q)[i + 1] = q[Nth(Current(q), i)]
<1>1. /\ Intents(q) \in Seq(Messages)
      /\ \A k \in 1 .. Len(Intents(q)) : Intents(q)[k] = q[Nth(Current(q), k)]
  BY IntentsAre
<1>2. Create1 \in Seq(Messages) /\ Len(Create1) = 1 /\ Create1[1].kind = "create"
  BY DEF Create1, Message, Messages
<1>3. <<Message("sticky")>> \in Seq(Messages) /\ Message("sticky").kind = "sticky"  BY DEF Message, Messages
<1>4. CASE Intents(q) = <<>>
  <2>1. Reissued(q) = Create1 \o <<Message("sticky")>>  BY <1>4 DEF Reissued
  <2>2. PICK c, m : c = Create1 /\ m = Message("sticky")  OBVIOUS
  <2>3. c \in Seq(Messages) /\ m \in Messages /\ Len(c) = 1 /\ c[1].kind = "create" /\ m.kind = "sticky"
    BY <1>2, <1>3, <2>2
  <2>4. c \o <<m>> = Append(c, m) /\ Append(c, m) \in Seq(Messages) /\ Len(Append(c, m)) = 2
        /\ Append(c, m)[1] = c[1] /\ Append(c, m)[2] = m
    <3>1. c \o <<m>> = Append(c, m) /\ Append(c, m) \in Seq(Messages)  BY <2>3, PushIs
    <3>2. Len(Append(c, m)) = Len(c) + 1 /\ Append(c, m)[Len(c) + 1] = m  BY <2>3, AppendProperties
    <3>3. 1 \in DOMAIN c  BY <2>3
    <3> QED  BY <2>3, <3>1, <3>2, <3>3, PushIs
  <2>5. Reissued(q) = Append(c, m)  BY <2>1, <2>2, <2>4
  <2>6. \A i \in DOMAIN Append(c, m) : i \in Nat /\ i > 0 /\ i <= Len(Append(c, m))  BY <2>4
  <2> QED  BY <1>4, <2>3, <2>4, <2>5, <2>6
<1>5. CASE Intents(q) # <<>>
  <2>1. Reissued(q) = Create1 \o Intents(q)  BY <1>5 DEF Reissued
  <2>2. PICK s : s = Intents(q)  OBVIOUS
  <2>3. Len(s) \in Nat /\ Len(s) > 0  BY <1>1, <1>5, <2>2
  <2>a. PICK c : c = Create1  OBVIOUS
  <2>b. c \in Seq(Messages) /\ Len(c) = 1 /\ s \in Seq(Messages)  BY <1>1, <1>2, <2>2, <2>a
  <2>c. /\ c \o s \in Seq(Messages) /\ Len(c \o s) = 1 + Len(s) /\ (c \o s)[1] = c[1]
        /\ \A i \in 1 .. Len(s) : (c \o s)[i + 1] = s[i]
    <3>1. c \o s \in Seq(Messages) /\ Len(c \o s) = 1 + Len(s)  BY <2>b, ConcatProperties
    <3>2. (c \o s)[1] = c[1]
      <4>1. 1 \in 1 .. Len(c) + Len(s) /\ 1 <= Len(c)  BY <2>3, <2>b
      <4> QED  BY <2>b, <4>1, ConcatProperties
    <3>3. ASSUME NEW i \in 1 .. Len(s)  PROVE (c \o s)[i + 1] = s[i]
      <4>1. i + 1 \in 1 .. Len(c) + Len(s) /\ ~(i + 1 <= Len(c)) /\ (i + 1) - Len(c) = i  BY <2>3, <2>b
      <4>2. (c \o s)[i + 1] = s[(i + 1) - Len(c)]  BY <2>b, <4>1, ConcatProperties
      <4> QED  BY <4>1, <4>2
    <3> QED  BY <3>1, <3>2, <3>3
  <2>4. /\ Create1 \o s \in Seq(Messages) /\ Len(Create1 \o s) = Len(s) + 1
        /\ (Create1 \o s)[1] = Create1[1] /\ \A i \in 1 .. Len(s) : (Create1 \o s)[i + 1] = s[i]
    BY <2>3, <2>a, <2>c
  <2>5. \A i \in DOMAIN Reissued(q) : i \in Nat /\ i > 0 /\ i <= Len(Reissued(q))  BY <2>1, <2>2, <2>4
  <2> QED  BY <1>1, <1>2, <1>5, <2>1, <2>2, <2>3, <2>4, <2>5
<1> QED  BY <1>4, <1>5

LEMMA ReissuedKinds ==
    ASSUME NEW q \in Seq(Messages)
    PROVE  /\ \A i \in DOMAIN Reissued(q) : i # 1 =>
                  Reissued(q)[i].kind \in Intent \/ (i = 2 /\ Reissued(q)[i].kind = "sticky")
           /\ \A i \in IntentsIn(Reissued(q)) :
                  /\ i - 1 \in 1 .. Len(Intents(q)) /\ i > 1
                  /\ Nth(Current(q), i - 1) \in Current(q)
                  /\ Reissued(q)[i] = q[Nth(Current(q), i - 1)]
           /\ 2 \in DOMAIN Reissued(q)
<1>0. /\ Reissued(q) \in Seq(Messages) /\ Len(Reissued(q)) \in Nat /\ Len(Intents(q)) \in Nat
      /\ DOMAIN Reissued(q) = 1 .. Len(Reissued(q))
  BY ReissuedIs, IntentsAre
<1>1. \A k \in 1 .. Len(Intents(q)) : Nth(Current(q), k) \in Current(q) /\ q[Nth(Current(q), k)].kind \in Intent
  BY IntentsAre DEF Current
<1>2. CASE Intents(q) = <<>>
  <2>1. Len(Reissued(q)) = 2 /\ Reissued(q)[2].kind = "sticky" /\ Reissued(q)[1].kind = "create"
    BY <1>2, ReissuedIs
  <2>2. \A i \in DOMAIN Reissued(q) : i = 1 \/ i = 2  BY <1>0, <2>1
  <2>3. IntentsIn(Reissued(q)) = {}  BY <2>1, <2>2 DEF IntentsIn, Intent
  <2> QED  BY <1>0, <2>1, <2>2, <2>3
<1>3. CASE Intents(q) # <<>>
  <2>1. /\ Len(Reissued(q)) = Len(Intents(q)) + 1 /\ Reissued(q)[1].kind = "create"
        /\ \A i \in 1 .. Len(Intents(q)) : Reissued(q)[i + 1] = q[Nth(Current(q), i)]
    BY <1>3, ReissuedIs
  <2>2. ASSUME NEW i \in DOMAIN Reissued(q), i # 1
        PROVE i - 1 \in 1 .. Len(Intents(q)) /\ Reissued(q)[i] = q[Nth(Current(q), i - 1)]
    <3>1. i - 1 \in 1 .. Len(Intents(q)) /\ (i - 1) + 1 = i  BY <1>0, <2>1, <2>2
    <3> QED  BY <2>1, <3>1
  <2>3. ASSUME NEW i \in IntentsIn(Reissued(q))  PROVE i # 1 /\ i \in DOMAIN Reissued(q) /\ i > 1
    BY <1>0, <2>1 DEF IntentsIn, Intent
  <2>4. 2 \in DOMAIN Reissued(q)  BY <1>0, ReissuedIs
  <2> QED  BY <1>1, <2>2, <2>3, <2>4
<1> QED  BY <1>2, <1>3

LEMMA ReissuedShape ==
    ASSUME NEW q \in Seq(Messages)
    PROVE  Shape(Reissued(q), FALSE, TRUE)
<1> DEFINE t == Reissued(q)
<1>0. /\ t[1].kind = "create" /\ 1 \in DOMAIN t /\ 2 \in DOMAIN t
      /\ \A i \in DOMAIN t : i \in Nat /\ i > 0
      /\ \A i \in DOMAIN t : i # 1 => t[i].kind \in Intent \/ (i = 2 /\ t[i].kind = "sticky")
  BY ReissuedIs, ReissuedKinds
<1> HIDE DEF t
<1>1. \A i \in DOMAIN t : t[i].kind # "destroy" /\ (t[i].kind = "create" => i = 1)  BY <1>0 DEF Intent
<1>2. Renewed(t)  BY <1>0, <1>1 DEF Renewed, IntentsIn
<1>3. Followed(t)  BY <1>0, <1>1 DEF Followed
<1>4. StickyFirst(t)  BY <1>0 DEF StickyFirst, Intent
<1>5. Lives(t, FALSE)  BY <1>0, <1>1 DEF Lives, Ended
<1> QED  BY <1>2, <1>3, <1>4, <1>5 DEF Shape, t

LEMMA ReissuedCross ==
    ASSUME NEW q \in Seq(Messages), NEW lives \in BOOLEAN, Shape(q, lives, TRUE), StopsBeforeStarts(q)
    PROVE  StopsBeforeStarts(Reissued(q))
<1> SUFFICES ASSUME NEW i \in IntentsIn(Reissued(q)), NEW j \in IntentsIn(Reissued(q)), i < j,
                    Reissued(q)[i].kind = "stop", Reissued(q)[j].kind = "start"
             PROVE  FALSE
  BY DEF StopsBeforeStarts
<1>1. PICK x, y : x = Nth(Current(q), i - 1) /\ y = Nth(Current(q), j - 1)  OBVIOUS
<1>2. /\ x \in Current(q) /\ y \in Current(q) /\ q[x].kind = "stop" /\ q[y].kind = "start"
      /\ i - 1 \in 1 .. Len(Intents(q)) /\ j - 1 \in 1 .. Len(Intents(q))
      /\ i \in Nat /\ j \in Nat
  BY <1>1, ReissuedKinds, ReissuedIs DEF IntentsIn
<1>3. i - 1 < j - 1  BY <1>2
<1>4. x < y  BY <1>1, <1>2, <1>3, IntentsAre
<1>5. x \in IntentsIn(q) /\ y \in IntentsIn(q) /\ x \in DOMAIN q /\ x \in Nat  BY <1>2 DEF Current, IntentsIn
<1>6. PICK k \in DOMAIN q : k > x /\ q[k].kind = "destroy"  BY <1>2, <1>4, <1>5 DEF StopsBeforeStarts, Ended
<1>7. PICK c \in DOMAIN q : q[c].kind = "create" /\ ~Ended(q, c)  BY <1>6 DEF Shape, Lives
<1>8. ~(c > x)  BY <1>2, <1>7 DEF Current
<1>9. c \in Nat /\ k \in Nat  OBVIOUS
<1>10. k > c  BY <1>5, <1>6, <1>8, <1>9
<1> QED  BY <1>6, <1>7, <1>10 DEF Ended

LEMMA ReissuedEnds ==
    ASSUME NEW q \in Seq(Messages), NEW lives \in BOOLEAN, Shape(q, lives, TRUE),
           NEW kept, NEW k, Ends(q, kept, k)
    PROVE  Ends(Reissued(q), kept, k)
<1> DEFINE t == Reissued(q)
<1>1. CASE LastIs(q, k)
  <2>1. PICK i \in IntentsIn(q) : q[i].kind = k /\ \A j \in IntentsIn(q) : j <= i  BY <1>1 DEF LastIs
  <2>2. i \in Current(q)  BY <2>1, LastIsCurrent DEF Shape
  <2>3. PICK n \in 1 .. Len(Intents(q)) : Nth(Current(q), n) = i  BY <2>2, IntentsAre
  <2>4. Intents(q) # <<>> /\ Len(Intents(q)) \in Nat  BY <2>3, IntentsAre
  <2>5. t[n + 1] = q[i] /\ n + 1 \in DOMAIN t  BY <2>3, <2>4, ReissuedIs
  <2>6. n + 1 \in IntentsIn(t)  BY <2>5 DEF IntentsIn
  <2>7. ASSUME NEW j \in IntentsIn(t)  PROVE j <= n + 1
    <3>1. j \in Nat /\ j - 1 \in 1 .. Len(Intents(q)) /\ Nth(Current(q), j - 1) \in Current(q)
      BY <2>7, ReissuedKinds, ReissuedIs DEF IntentsIn
    <3>2. Nth(Current(q), j - 1) \in IntentsIn(q)  BY <3>1 DEF Current, IntentsIn
    <3>3. Nth(Current(q), j - 1) <= i  BY <2>1, <3>2
    <3>4. n < j - 1 => i < Nth(Current(q), j - 1)  BY <2>3, <3>1, IntentsAre
    <3>5. i \in Nat /\ Nth(Current(q), j - 1) \in Nat  BY <3>2 DEF IntentsIn
    <3> QED  BY <2>3, <3>1, <3>3, <3>4, <3>5
  <2> QED  BY <2>1, <2>5, <2>6, <2>7 DEF Ends, LastIs
<1>2. CASE IntentsIn(q) = {} /\ (kept <=> k = "start")
  <2>1. Current(q) = {}  BY <1>2 DEF Current, IntentsIn
  <2>2. Cardinality(Current(q)) = 0  BY <2>1, FS_EmptySet
  <2>3. Len(Intents(q)) = 0  BY <2>2, IntentsAre
  <2>4. IntentsIn(t) = {}
    <3> SUFFICES ASSUME NEW i \in IntentsIn(t)  PROVE FALSE  OBVIOUS
    <3>1. i - 1 \in 1 .. 0  BY <2>3, ReissuedKinds
    <3> QED  BY <3>1
  <2> QED  BY <1>2, <2>4 DEF Ends
<1> QED  BY <1>1, <1>2 DEF Ends

LEMMA EmptyQueue ==
    /\ Shape(<<>>, FALSE, FALSE) /\ StopsBeforeStarts(<<>>) /\ OnlyStops(<<>>) /\ IntentsIn(<<>>) = {}
    /\ Intents(<<>>) = <<>>
<1>1. \A i : i \notin DOMAIN <<>>  OBVIOUS
<1>2. IntentsIn(<<>>) = {} /\ Current(<<>>) = {}  BY <1>1 DEF IntentsIn, Current
<1>3. <<>> \in Seq(Messages) /\ Len(<<>>) = 0  OBVIOUS
<1>4. Len(Intents(<<>>)) = 0 /\ Intents(<<>>) \in Seq(Messages)  BY <1>2, <1>3, IntentsAre, FS_EmptySet
<1>5. Intents(<<>>) = <<>>  BY <1>4
<1>6. Shape(<<>>, FALSE, FALSE)
  BY <1>1, <1>2 DEF Shape, Renewed, Followed, StickyFirst, Lives, AllEnded
<1> QED  BY <1>2, <1>5, <1>6 DEF StopsBeforeStarts, OnlyStops

\* What the boot receiver starts.
Booted == <<Message("create"), Message("start")>>

LEMMA BootedIs ==
    /\ Shape(Booted, FALSE, TRUE) /\ StopsBeforeStarts(Booted) /\ LastIs(Booted, "start")
    /\ Booted \in Seq(Messages) /\ \A i \in 1 .. Len(Intents(Booted)) : Intents(Booted)[i].kind = "start"
<1>1. /\ Booted \in Seq(Messages) /\ DOMAIN Booted = {1, 2} /\ Booted[1].kind = "create"
      /\ Booted[2].kind = "start"
  BY DEF Booted, Message, Messages, Intent
<1>2. IntentsIn(Booted) = {2}  BY <1>1 DEF IntentsIn, Intent
<1>3. Current(Booted) \subseteq {2}  BY <1>1 DEF Current, Intent
<1>4. \A i \in 1 .. Len(Intents(Booted)) : Intents(Booted)[i].kind = "start"
  <2>1. \A i \in 1 .. Len(Intents(Booted)) : Intents(Booted)[i] = Booted[Nth(Current(Booted), i)]
                                         /\ Nth(Current(Booted), i) \in Current(Booted)
    BY <1>1, IntentsAre
  <2> QED  BY <1>1, <1>3, <2>1
<1>5. Renewed(Booted) /\ StopsBeforeStarts(Booted)  BY <1>1, <1>2 DEF Renewed, StopsBeforeStarts
<1>6. Followed(Booted)  BY <1>1 DEF Followed, Intent
<1>7. StickyFirst(Booted)  BY <1>1 DEF StickyFirst
<1>8. Lives(Booted, FALSE)  BY <1>1 DEF Lives, Ended
<1>9. LastIs(Booted, "start")  BY <1>1, <1>2 DEF LastIs
<1> QED  BY <1>1, <1>4, <1>5, <1>6, <1>7, <1>8, <1>9 DEF Shape

-----------------------------------------------------------------------------
(* The invariant of the service *)

Runs == call # <<>> /\ Head(call) \in {"run", "begin"}

\* The transport is started by the step after the one that saves and issues the intent.
RunsAfterSave ==
    /\ \A i \in DOMAIN call : call[i] = "run" => i = 1 \/ call[i - 1] = "save"
    /\ \A i \in DOMAIN call : call[i] = "begin" => i = 1

QueueInv == Shape(main, service, up)

\* Without a crossing, what runs and what is about to has a service, and a service that is
\* not started has nothing to start from.
CrossInv == ~crossed => /\ StopsBeforeStarts(main)
                        /\ up \/ (~saved /\ OnlyStops(main))
                        /\ (running \/ Runs) => up
                        /\ Runs => StopsEnded(main)

\* What will be saved when the intents have been handled.
SavedInv == /\ (running /\ IntentsIn(main) = {}) => saved
            /\ Runs => Ends(main, saved, "start")
            /\ asked = "start" => Ends(main, saved, "start")
            /\ (asked = "stop" /\ ~crossed) => Ends(main, saved, "stop")

ServiceInv == RunsAfterSave /\ QueueInv /\ CrossInv /\ SavedInv

serviceVars == <<saved, running, service, call, main, up, asked, crossed>>

Inv == TypeInv /\ ServiceInv

LEMMA Typed ==
    TypeInv => /\ main \in Seq(Messages) /\ call \in Seq({"sink", "drain", "save", "run", "begin", "halt", "clear"})
               /\ saved \in BOOLEAN /\ running \in BOOLEAN /\ service \in BOOLEAN /\ up \in BOOLEAN
               /\ crossed \in BOOLEAN /\ asked \in {"start", "stop", "none"}
BY DEF TypeInv, Flags, QueueTypes, LinkTypes, Intent

LEMMA ServiceFrame == ASSUME ServiceInv, UNCHANGED serviceVars  PROVE ServiceInv'
<1> USE DEF serviceVars
<1>0. Runs' <=> Runs  BY DEF Runs
<1>1. RunsAfterSave'  BY DEF ServiceInv, RunsAfterSave
<1>2. QueueInv'  BY DEF ServiceInv, QueueInv
<1>3. CrossInv'  BY <1>0 DEF ServiceInv, CrossInv
<1>4. SavedInv'  BY <1>0 DEF ServiceInv, SavedInv
<1> QED  BY <1>1, <1>2, <1>3, <1>4 DEF ServiceInv

LEMMA ServiceStart == Init => ServiceInv
<1> SUFFICES ASSUME Init  PROVE ServiceInv  OBVIOUS
<1>0. /\ saved = FALSE /\ running = FALSE /\ service = FALSE /\ up = FALSE /\ call = <<>> /\ main = <<>>
      /\ asked = "none"
  BY DEF Init
<1>1. ~Runs /\ RunsAfterSave  BY <1>0 DEF Runs, RunsAfterSave
<1> QED  BY <1>0, <1>1, EmptyQueue DEF ServiceInv, QueueInv, CrossInv, SavedInv

-----------------------------------------------------------------------------
(* The steps of the module thread *)

LEMMA StepOrder ==
    ASSUME TypeInv, RunsAfterSave, NEW k, StepIs(k)
    PROVE  RunsAfterSave' /\ (k # "save" => ~Runs') /\ (k = "begin" => Runs)
<1> DEFINE Steps == {"sink", "drain", "save", "run", "begin", "halt", "clear"}
<1>0. PICK c, t : c = call /\ t = call'  OBVIOUS
<1>1. c \in Seq(Steps) /\ c # <<>> /\ t = Tail(c) /\ c[1] = k  BY <1>0, Typed DEF StepIs
<1>2. /\ t \in Seq(Steps)
      /\ \A i \in DOMAIN t : i \in Nat /\ i > 0 /\ i + 1 \in DOMAIN c /\ t[i] = c[i + 1]
  BY <1>1
<1>3. /\ \A i \in DOMAIN c : c[i] = "run" => i = 1 \/ c[i - 1] = "save"
      /\ \A i \in DOMAIN c : c[i] = "begin" => i = 1
  BY <1>0 DEF RunsAfterSave
<1>4. \A i \in DOMAIN t : t[i] = "run" => (i + 1) - 1 = i /\ c[i] = "save"
  <2> SUFFICES ASSUME NEW i \in DOMAIN t, t[i] = "run"  PROVE (i + 1) - 1 = i /\ c[i] = "save"  OBVIOUS
  <2>1. i + 1 \in DOMAIN c /\ c[i + 1] = "run" /\ i + 1 # 1 /\ (i + 1) - 1 = i  BY <1>2
  <2>a. \A j \in DOMAIN c : c[j] = "run" => j = 1 \/ c[j - 1] = "save"  BY <1>3
  <2>2. c[(i + 1) - 1] = "save"  BY <2>a, <2>1
  <2> QED  BY <2>1, <2>2
<1>5. ASSUME NEW i \in DOMAIN t, t[i] = "run", i # 1  PROVE t[i - 1] = "save"
  <2>1. i \in Nat /\ i - 1 \in DOMAIN t /\ (i - 1) + 1 = i  BY <1>1, <1>2, <1>5
  <2>2. t[i - 1] = c[(i - 1) + 1]  BY <1>2, <2>1
  <2> QED  BY <1>4, <1>5, <2>1, <2>2
<1>5a. \A i \in DOMAIN t : t[i] # "begin"
  <2> SUFFICES ASSUME NEW i \in DOMAIN t, t[i] = "begin"  PROVE FALSE  OBVIOUS
  <2>1. i \in Nat /\ i > 0 /\ i + 1 \in DOMAIN c /\ c[i + 1] = "begin"  BY <1>2
  <2>2. i + 1 = 1  BY <1>3, <2>1
  <2> QED  BY <2>1, <2>2
<1>6. RunsAfterSave'  BY <1>0, <1>5, <1>5a DEF RunsAfterSave
<1>7. (t # <<>> /\ Head(t) \in {"run", "begin"}) => k = "save"
  <2> SUFFICES ASSUME t # <<>>, Head(t) \in {"run", "begin"}  PROVE k = "save"  OBVIOUS
  <2>1. 1 \in DOMAIN t /\ t[1] \in {"run", "begin"}  BY <1>2
  <2>2. t[1] = "run"  BY <1>5a, <2>1
  <2> QED  BY <1>1, <1>4, <2>1, <2>2
<1>8. Runs' => k = "save"  BY <1>0, <1>7 DEF Runs
<1> QED  BY <1>6, <1>8 DEF Runs, StepIs

\* The start that is about to run goes on or is over.
LEMMA RunOrder ==
    ASSUME TypeInv, RunsAfterSave, Run  PROVE RunsAfterSave' /\ Runs
<1> DEFINE Steps == {"sink", "drain", "save", "run", "begin", "halt", "clear"}
<1>0. Runs  BY DEF Run, Runs
<1>1. CASE running
  <2>1. StepIs("run")  BY <1>1 DEF Run, StepIs
  <2> QED  BY <1>0, <2>1, StepOrder
<1>2. CASE ~running
  <2>0. PICK c, r, t : c = call /\ r = Tail(call) /\ t = call'  OBVIOUS
  <2>1. /\ c \in Seq(Steps) /\ c # <<>> /\ r = Tail(c) /\ c[1] = "run"
        /\ t = <<"begin">> \o r
    BY <1>2, <2>0, Typed DEF Run
  <2>2. /\ r \in Seq(Steps) /\ DOMAIN c = 1 .. Len(c) /\ Len(c) \in Nat /\ Len(r) = Len(c) - 1
        /\ \A i \in 1 .. Len(r) : r[i] = c[i + 1]
    BY <2>1
  <2>3. <<"begin">> \in Seq(Steps) /\ Len(<<"begin">>) = 1 /\ <<"begin">>[1] = "begin"  OBVIOUS
  <2>4. /\ t \in Seq(Steps) /\ Len(t) = 1 + Len(r)
        /\ \A i \in 1 .. 1 + Len(r) : t[i] = IF i <= 1 THEN "begin" ELSE r[i - 1]
    BY <2>1, <2>2, <2>3, ConcatProperties
  <2>5. DOMAIN t = DOMAIN c /\ \A i \in DOMAIN t : i \in Nat /\ i >= 1 /\ (i > 1 => t[i] = c[i])
    BY <2>2, <2>4
  <2>6. /\ \A i \in DOMAIN c : c[i] = "run" => i = 1 \/ c[i - 1] = "save"
        /\ \A i \in DOMAIN c : c[i] = "begin" => i = 1
    BY <2>0 DEF RunsAfterSave
  <2>7. ASSUME NEW i \in DOMAIN t, i # 1
        PROVE  t[i] # "begin" /\ (t[i] = "run" => t[i - 1] = "save")
    <3>1. i \in Nat /\ i > 1 /\ t[i] = c[i] /\ i \in DOMAIN c  BY <2>5, <2>7
    <3>a. \A j \in DOMAIN c : c[j] = "run" => j = 1 \/ c[j - 1] = "save"  BY <2>6
    <3>b. \A j \in DOMAIN c : c[j] = "begin" => j = 1  BY <2>6
    <3>c. t[i] # "begin"  BY <2>7, <3>b, <3>1
    <3>2. t[i] # "begin" /\ (t[i] = "run" => c[i - 1] = "save")  BY <2>7, <3>a, <3>c, <3>1
    <3>3. CASE i = 2  BY <2>1, <3>2, <3>3
    <3>4. CASE i > 2
      <4>1. i - 1 \in DOMAIN t /\ i - 1 > 1  BY <2>2, <2>5, <3>1, <3>4
      <4> QED  BY <2>5, <3>2, <4>1
    <3> QED  BY <3>1, <3>3, <3>4
  <2> QED  BY <1>0, <2>0, <2>7 DEF RunsAfterSave
<1> QED  BY <1>1, <1>2

\* An intent is issued with what it saves.
LEMMA Issued ==
    ASSUME NEW q \in Seq(Messages), NEW k \in Intent, service \in BOOLEAN, up \in BOOLEAN,
           Shape(q, service, up), Issue(q, k)
    PROVE  /\ Shape(main', service, TRUE) /\ up' = TRUE
           /\ \A kept : Ends(main', kept, k)
           /\ IntentsIn(main') # {}
           /\ (StopsBeforeStarts(q) /\ (k = "stop" \/ StopsEnded(q))) => StopsBeforeStarts(main')
           /\ (StopsEnded(q) /\ k = "start") => StopsEnded(main')
<1> DEFINE m == Message(k)
           c == Message("create")
<1>0. m \in Messages /\ c \in Messages /\ m.kind = k /\ c.kind = "create"
  BY DEF Message, Messages, Intent
<1> HIDE DEF m, c
<1>1. CASE up
  <2>1. main' = Append(q, m) /\ up' = TRUE  BY <1>0, <1>1, PushIs DEF Issue, m
  <2>2. Shape(Append(q, m), service, TRUE)  BY <1>0, <1>1, ShapeIntent
  <2>3. LastIs(Append(q, m), k) /\ \A kept : Ends(Append(q, m), kept, k)  BY <1>0, EndsPush
  <2>4. /\ (StopsBeforeStarts(q) /\ (k # "start" \/ StopsEnded(q))) => StopsBeforeStarts(Append(q, m))
        /\ (StopsEnded(q) /\ k # "stop") => StopsEnded(Append(q, m))
    BY <1>0, CrossPush
  <2> QED  BY <2>1, <2>2, <2>3, <2>4 DEF LastIs
<1>2. CASE ~up
  <2>1. main' = q \o <<c, m>> /\ up' = TRUE  BY <1>2 DEF Issue, m, c
  <2>2. PICK r : r = Append(q, c)  OBVIOUS
  <2>3. r \in Seq(Messages) /\ q \o <<c, m>> = Append(r, m)  BY <1>0, <2>2
  <2>4. Shape(Append(r, m), service, TRUE)  BY <1>0, <1>2, <2>2, ShapeCreate
  <2>5. LastIs(Append(r, m), k) /\ \A kept : Ends(Append(r, m), kept, k)  BY <1>0, <2>3, EndsPush
  <2>6. /\ StopsBeforeStarts(q) => StopsBeforeStarts(r)
        /\ StopsEnded(q) => StopsEnded(r)
    BY <1>0, <2>2, CrossPush
  <2>7. /\ (StopsBeforeStarts(r) /\ (k # "start" \/ StopsEnded(r))) => StopsBeforeStarts(Append(r, m))
        /\ (StopsEnded(r) /\ k # "stop") => StopsEnded(Append(r, m))
    BY <1>0, <2>3, CrossPush
  <2> QED  BY <2>1, <2>3, <2>4, <2>5, <2>6, <2>7 DEF LastIs
<1> QED  BY <1>1, <1>2

LEMMA ServiceModule == ASSUME Inv, Module  PROVE ServiceInv'
<1> USE DEF Inv, prefVars, runVars, nearbyVars, eventVars, historyVars
<1>0. RunsAfterSave /\ QueueInv /\ CrossInv /\ SavedInv  BY DEF ServiceInv
<1>1. CASE SetSink \/ Drain
  <2>1. RunsAfterSave' /\ ~Runs'  BY <1>0, <1>1, StepOrder DEF SetSink, Drain
  <2>2. UNCHANGED <<saved, running, service, main, up, asked, crossed>>  BY <1>1 DEF SetSink, Drain
  <2>3. QueueInv'  BY <1>0, <2>2 DEF QueueInv
  <2>4. CrossInv'  BY <1>0, <2>1, <2>2 DEF CrossInv
  <2>5. SavedInv'  BY <1>0, <2>1, <2>2 DEF SavedInv
  <2> QED  BY <2>1, <2>3, <2>4, <2>5 DEF ServiceInv
<1>2. CASE Save
  <2>1. RunsAfterSave'  BY <1>0, <1>2, StepOrder DEF Save
  <2>2. /\ saved' = TRUE /\ asked' = "start" /\ crossed' = (up /\ StopWaits) /\ Issue(main, "start")
        /\ UNCHANGED <<running, service>>
    BY <1>2 DEF Save
  <2>3. /\ Shape(main', service, TRUE) /\ up' = TRUE /\ \A kept : Ends(main', kept, "start")
        /\ (StopsEnded(main) /\ StopsBeforeStarts(main)) => StopsBeforeStarts(main')
        /\ StopsEnded(main) => StopsEnded(main')
    BY <1>0, <2>2, Typed, Issued DEF QueueInv, Intent
  <2>4. ~crossed' => StopsEnded(main)
    <3> SUFFICES ASSUME ~(up /\ StopWaits)  PROVE StopsEnded(main)  BY <2>2
    <3> QED  BY <1>0, Typed, OldStops DEF QueueInv, StopWaits
  <2>5. StopsEnded(main) => StopsBeforeStarts(main)  BY DEF StopsEnded, StopsBeforeStarts
  <2>6. QueueInv'  BY <2>2, <2>3 DEF QueueInv
  <2>7. CrossInv'  BY <2>3, <2>4, <2>5 DEF CrossInv
  <2>8. SavedInv'  BY <2>2, <2>3 DEF SavedInv
  <2> QED  BY <2>1, <2>6, <2>7, <2>8 DEF ServiceInv
<1>3. CASE Run
  <2>1. RunsAfterSave' /\ Runs  BY <1>0, <1>3, RunOrder
  <2>2. UNCHANGED <<saved, running, service, main, up, asked, crossed>>  BY <1>3 DEF Run
  <2>3. QueueInv'  BY <1>0, <2>2 DEF QueueInv
  <2>4. CrossInv'  BY <1>0, <2>1, <2>2 DEF CrossInv
  <2>5. SavedInv'  BY <1>0, <2>1, <2>2 DEF SavedInv
  <2> QED  BY <2>1, <2>3, <2>4, <2>5 DEF ServiceInv
<1>3a. CASE Begin
  <2>1. RunsAfterSave' /\ ~Runs' /\ Runs  BY <1>0, <1>3a, StepOrder DEF Begin
  <2>2. UNCHANGED <<saved, service, main, up, asked, crossed>>  BY <1>3a DEF Begin
  <2>3. QueueInv'  BY <1>0, <2>2 DEF QueueInv
  <2>4. CrossInv'  BY <1>0, <2>1, <2>2 DEF CrossInv
  <2>5. IntentsIn(main) = {} => saved  BY <1>0, <2>1 DEF SavedInv, Ends, LastIs
  <2>6. SavedInv'  BY <1>0, <2>1, <2>2, <2>5 DEF SavedInv
  <2> QED  BY <2>1, <2>3, <2>4, <2>6 DEF ServiceInv
<1>4. CASE HaltTransport
  <2>1. RunsAfterSave' /\ ~Runs'  BY <1>0, <1>4, StepOrder DEF HaltTransport
  <2>2. UNCHANGED <<saved, service, main, up, asked, crossed>> /\ ~running'  BY <1>4 DEF HaltTransport, Halt
  <2>3. QueueInv'  BY <1>0, <2>2 DEF QueueInv
  <2>4. CrossInv'  BY <1>0, <2>1, <2>2 DEF CrossInv
  <2>5. SavedInv'  BY <1>0, <2>1, <2>2 DEF SavedInv
  <2> QED  BY <2>1, <2>3, <2>4, <2>5 DEF ServiceInv
<1>5. CASE Clear
  <2>1. RunsAfterSave' /\ ~Runs'  BY <1>0, <1>5, StepOrder DEF Clear
  <2>2. saved' = FALSE /\ asked' = "stop" /\ Issue(main, "stop") /\ UNCHANGED <<running, service, crossed>>
    BY <1>5 DEF Clear
  <2>3. /\ Shape(main', service, TRUE) /\ up' = TRUE /\ \A kept : Ends(main', kept, "stop")
        /\ IntentsIn(main') # {} /\ (StopsBeforeStarts(main) => StopsBeforeStarts(main'))
    BY <1>0, <2>2, Typed, Issued DEF QueueInv, Intent
  <2>4. QueueInv'  BY <2>2, <2>3 DEF QueueInv
  <2>5. CrossInv'  BY <1>0, <2>1, <2>2, <2>3 DEF CrossInv
  <2>6. SavedInv'  BY <2>1, <2>2, <2>3 DEF SavedInv
  <2> QED  BY <2>1, <2>4, <2>5, <2>6 DEF ServiceInv
<1> QED  BY <1>1, <1>2, <1>3, <1>3a, <1>4, <1>5 DEF Module

-----------------------------------------------------------------------------
(* The steps of the main thread *)

\* A message is taken off the queue, and an intent has saved what it says.
LEMMA Taken ==
    ASSUME Inv, main # <<>>, main' = Tail(main), service' = After(main[1].kind, service),
           UNCHANGED <<call, up, asked, crossed>>,
           main[1].kind \in Intent => (saved' <=> main[1].kind = "start"),
           main[1].kind \notin Intent => saved' = saved,
           saved' \in BOOLEAN, running' => running \/ saved \/ saved',
           main[1].kind \in Intent => (running' => saved')
    PROVE  ServiceInv'
<1> USE DEF Inv
<1>0. RunsAfterSave /\ QueueInv /\ CrossInv /\ SavedInv  BY DEF ServiceInv
<1>1. RunsAfterSave' /\ (Runs' <=> Runs)  BY <1>0 DEF RunsAfterSave, Runs
<1>2. /\ Tail(main) \in Seq(Messages) /\ 1 \in DOMAIN main /\ main[1] \in Messages
      /\ \A i \in DOMAIN Tail(main) : i \in Nat /\ i + 1 \in DOMAIN main /\ Tail(main)[i] = main[i + 1] /\ i > 0
      /\ \A i \in DOMAIN main : i # 1 => i - 1 \in DOMAIN Tail(main) /\ Tail(main)[i - 1] = main[i]
  BY Typed, TailIs
<1>3. Shape(Tail(main), After(main[1].kind, service), up)  BY <1>0, Typed, ShapeTail DEF QueueInv
<1>4. QueueInv'  BY <1>3 DEF QueueInv
<1>5. \A k \in Intent : Ends(main, saved, k) => Ends(Tail(main), saved', k)  BY Typed, EndsTail
<1>6. main[1].kind \notin Intent /\ IntentsIn(Tail(main)) = {} => IntentsIn(main) = {}
  BY <1>2 DEF IntentsIn
<1>7. CrossInv'
  <2> SUFFICES ASSUME ~crossed  PROVE CrossInv'  BY DEF CrossInv
  <2>1. StopsBeforeStarts(Tail(main)) /\ (OnlyStops(main) => OnlyStops(Tail(main)))
        /\ (StopsEnded(main) => StopsEnded(Tail(main)))
    BY <1>0, Typed, CrossTail DEF CrossInv
  <2>2. ~up => ~saved'
    <3> SUFFICES ASSUME ~up  PROVE ~saved'  OBVIOUS
    <3>1. ~saved /\ OnlyStops(main)  BY <1>0 DEF CrossInv
    <3>2. main[1].kind \in Intent => main[1].kind = "stop"  BY <1>2, <3>1 DEF OnlyStops, IntentsIn
    <3> QED  BY <3>1, <3>2
  <2>3. (running' \/ Runs) => up  BY <1>0, <2>2 DEF CrossInv
  <2> QED  BY <1>0, <1>1, <2>1, <2>2, <2>3 DEF CrossInv
<1>8. SavedInv'
  <2>1. (running' /\ IntentsIn(Tail(main)) = {}) => saved'  BY <1>0, <1>6 DEF SavedInv
  <2>2. "start" \in Intent /\ "stop" \in Intent  BY DEF Intent
  <2> QED  BY <1>0, <1>1, <1>5, <2>1, <2>2 DEF SavedInv
<1> QED  BY <1>1, <1>4, <1>7, <1>8 DEF ServiceInv

LEMMA ServiceIntents == ASSUME Inv, Create \/ StartCommand \/ StickyCommand \/ Destroy  PROVE ServiceInv'
<1> USE DEF Inv, prefVars, runVars, nearbyVars, eventVars, quietVars, Take
<1>0. saved \in BOOLEAN /\ (main # <<>> => Head(main) = main[1])  BY Typed, TailIs
<1>1. CASE Create
  <2>1. main # <<>> /\ main[1].kind = "create" /\ main' = Tail(main) /\ service' = TRUE
        /\ UNCHANGED <<call, up, asked, crossed, saved>>
    BY <1>0, <1>1 DEF Create
  <2>2. running' => running \/ saved  BY <1>1 DEF Create, RestartFromService
  <2> QED  BY <1>0, <2>1, <2>2, Taken DEF After, Intent
<1>2. CASE StartCommand
  <2>1. main # <<>> /\ main[1].kind = "start" /\ main' = Tail(main) /\ saved' = TRUE
        /\ UNCHANGED <<call, up, asked, crossed, service>>
    BY <1>0, <1>2 DEF StartCommand
  <2> QED  BY <1>0, <2>1, Taken DEF After, Intent
<1>3. CASE StickyCommand
  <2>1. main # <<>> /\ main[1].kind = "sticky" /\ main' = Tail(main)
        /\ UNCHANGED <<call, up, asked, crossed, saved, service>>
    BY <1>0, <1>3 DEF StickyCommand
  <2>2. running' => running \/ saved  BY <1>3 DEF StickyCommand, RestartFromService
  <2> QED  BY <1>0, <2>1, <2>2, Taken DEF After, Intent
<1>4. CASE Destroy
  <2>1. main # <<>> /\ main[1].kind = "destroy" /\ main' = Tail(main) /\ service' = FALSE
        /\ UNCHANGED <<call, up, asked, crossed, saved, running>>
    BY <1>0, <1>4 DEF Destroy
  <2> QED  BY <1>0, <2>1, Taken DEF After, Intent
<1> QED  BY <1>1, <1>2, <1>3, <1>4

\* A service that is stopped has nothing to start from: a start behind the stop would have
\* crossed it.
LEMMA ServiceStop == ASSUME Inv, StopCommand  PROVE ServiceInv'
<1> USE DEF Inv, StopCommand, Take, Halt
<1>0. RunsAfterSave /\ QueueInv /\ CrossInv /\ SavedInv  BY DEF ServiceInv
<1>1. /\ main # <<>> /\ main[1].kind = "stop" /\ saved' = FALSE /\ running' = FALSE
      /\ UNCHANGED <<service, call, asked, crossed>>
  BY TailIs, Typed
<1>2. CASE BroughtDown
  <2>1. main' = Tail(main) /\ UNCHANGED up  BY <1>2
  <2> QED  BY <1>1, <2>1, Taken, Typed DEF After, Intent
<1>3. CASE ~BroughtDown
  <2> DEFINE d == Message("destroy")
  <2>0. d \in Messages /\ d.kind = "destroy" /\ d.kind \notin Intent  BY DEF Message, Messages, Intent
  <2> HIDE DEF d
  <2>1. main' = Append(Tail(main), d) /\ up' = FALSE  BY <1>3 DEF d
  <2>2. PICK t : t = Tail(main)  OBVIOUS
  <2>3. /\ t \in Seq(Messages) /\ 1 \in DOMAIN main
        /\ \A i \in DOMAIN t : i \in Nat /\ i + 1 \in DOMAIN main /\ t[i] = main[i + 1] /\ i > 0
    BY <1>1, <2>2, TailIs, Typed
  <2>4. Shape(Append(t, d), service, FALSE)
    BY <1>0, <1>1, <2>0, <2>2, ShapeStop, Typed DEF QueueInv, Intent
  <2>5. \A i \in DOMAIN main : ~Ended(main, i)  BY <1>3 DEF BroughtDown, Ended
  <2>6. 1 \in IntentsIn(main)  BY <1>1, <2>3 DEF IntentsIn, Intent
  <2>7. Runs' <=> Runs  BY <1>1 DEF Runs
  <2>8. ~crossed => ~Runs
    <3> SUFFICES ASSUME ~crossed, Runs  PROVE FALSE  OBVIOUS
    <3>1. Ended(main, 1)  BY <1>0, <1>1, <2>6 DEF CrossInv, StopsEnded
    <3> QED  BY <2>3, <2>5, <3>1
  <2>9. ~crossed => OnlyStops(t) /\ StopsBeforeStarts(t)
    <3> SUFFICES ASSUME ~crossed  PROVE OnlyStops(t) /\ StopsBeforeStarts(t)  OBVIOUS
    <3>1. StopsBeforeStarts(main)  BY <1>0 DEF CrossInv
    <3>2. ASSUME NEW i \in IntentsIn(t), t[i].kind # "stop"  PROVE FALSE
      <4>1. i + 1 \in IntentsIn(main) /\ main[i + 1].kind = "start" /\ 1 < i + 1
        BY <2>3, <3>2 DEF IntentsIn, Intent
      <4>2. Ended(main, 1)  BY <1>1, <2>6, <3>1, <4>1 DEF StopsBeforeStarts
      <4> QED  BY <2>3, <2>5, <4>2
    <3> QED  BY <1>1, <2>2, <3>1, <3>2, CrossTail, Typed DEF OnlyStops
  <2>10. /\ StopsBeforeStarts(t) => StopsBeforeStarts(Append(t, d))
         /\ OnlyStops(t) => OnlyStops(Append(t, d))
    BY <2>0, <2>3, CrossPush
  <2>11. \A k \in Intent : Ends(main, saved, k) => Ends(Append(t, d), FALSE, k)
    <3> SUFFICES ASSUME NEW k \in Intent, Ends(main, saved, k)  PROVE Ends(Append(t, d), FALSE, k)  OBVIOUS
    <3>1. Ends(t, FALSE, k)  BY <1>1, <2>2, EndsTail, Typed DEF Intent
    <3> QED  BY <2>0, <2>3, <3>1, EndsPush
  <2>12. RunsAfterSave'  BY <1>0, <1>1 DEF RunsAfterSave
  <2>13. QueueInv'  BY <1>1, <2>1, <2>2, <2>4 DEF QueueInv
  <2>14. CrossInv'  BY <1>1, <2>1, <2>2, <2>7, <2>8, <2>9, <2>10 DEF CrossInv
  <2>15. SavedInv'
    <3>1. "start" \in Intent /\ "stop" \in Intent  BY DEF Intent
    <3>2. Runs => Ends(main', saved', "start")  BY <1>0, <1>1, <2>1, <2>2, <2>11, <3>1 DEF SavedInv
    <3>3. asked = "start" => Ends(main', saved', "start")  BY <1>0, <1>1, <2>1, <2>2, <2>11, <3>1 DEF SavedInv
    <3>4. (asked = "stop" /\ ~crossed) => Ends(main', saved', "stop")
      BY <1>0, <1>1, <2>1, <2>2, <2>11, <3>1 DEF SavedInv
    <3> QED  BY <1>1, <2>7, <3>2, <3>3, <3>4 DEF SavedInv
  <2> QED  BY <2>12, <2>13, <2>14, <2>15 DEF ServiceInv
<1> QED  BY <1>2, <1>3

LEMMA ServiceRemoved == ASSUME Inv, TaskRemoved  PROVE ServiceInv'
<1> USE DEF Inv, prefVars, runVars, nearbyVars, eventVars, quietVars, Take
<1>0. RunsAfterSave /\ QueueInv /\ CrossInv /\ SavedInv  BY DEF ServiceInv
<1>1. /\ main # <<>> /\ main[1].kind = "removed"
      /\ UNCHANGED <<saved, running, service, call, asked>>
  BY TailIs, Typed DEF TaskRemoved
<1>2. CASE ~(saved /\ service)
  <2>1. main' = Tail(main) /\ UNCHANGED <<up, crossed>>  BY <1>2 DEF TaskRemoved
  <2> QED  BY <1>1, <2>1, Taken, Typed DEF After, Intent
<1>3. CASE saved /\ service
  <2>1. Issue(Tail(main), "start") /\ crossed' = (crossed \/ (up /\ StopWaits))  BY <1>3 DEF TaskRemoved
  <2>2. Tail(main) \in Seq(Messages) /\ Shape(Tail(main), service, up)
    BY <1>0, <1>1, ShapeTail, TailIs, Typed DEF QueueInv, After
  <2>3. /\ Shape(main', service, TRUE) /\ up' = TRUE /\ \A kept : Ends(main', kept, "start")
        /\ IntentsIn(main') # {}
        /\ (StopsEnded(Tail(main)) /\ StopsBeforeStarts(Tail(main))) => StopsBeforeStarts(main')
        /\ StopsEnded(Tail(main)) => StopsEnded(main')
    BY <2>1, <2>2, Typed, Issued DEF Intent
  <2>4. ~crossed' => StopsEnded(main)
    <3> SUFFICES ASSUME ~(up /\ StopWaits)  PROVE StopsEnded(main)  BY <2>1
    <3> QED  BY <1>0, Typed, OldStops DEF QueueInv, StopWaits
  <2>5. StopsEnded(main) => StopsEnded(Tail(main)) /\ StopsBeforeStarts(Tail(main))
    BY <1>1, CrossTail, Typed DEF StopsEnded, StopsBeforeStarts
  <2>6. ASSUME asked = "stop", ~crossed'  PROVE FALSE
    <3>1. ~crossed /\ ~(up /\ StopWaits)  BY <2>1, <2>6
    <3>2. LastIs(main, "stop")  BY <1>0, <1>3, <2>6, <3>1 DEF SavedInv, Ends
    <3>3. PICK i \in IntentsIn(main) : main[i].kind = "stop" /\ \A j \in IntentsIn(main) : j <= i
      BY <3>2 DEF LastIs
    <3>4. i \in Current(main)  BY <1>0, <3>3, LastIsCurrent, Typed DEF QueueInv, Shape
    <3>5. StopWaits  BY <3>3, <3>4 DEF StopWaits
    <3>6. up  BY <1>0, <1>3, <3>1 DEF CrossInv
    <3> QED  BY <3>1, <3>5, <3>6
  <2>7. RunsAfterSave'  BY <1>0, <1>1 DEF RunsAfterSave
  <2>8. QueueInv'  BY <1>1, <2>3 DEF QueueInv
  <2>9. CrossInv'  BY <2>3, <2>4, <2>5 DEF CrossInv
  <2>10. SavedInv'  BY <1>1, <2>3, <2>6 DEF SavedInv
  <2> QED  BY <2>7, <2>8, <2>9, <2>10 DEF ServiceInv
<1> QED  BY <1>2, <1>3

LEMMA ServiceCallbacks == ASSUME Inv, NEW e \in Endpoint, Callbacks(e)  PROVE ServiceInv'
<1> USE DEF Inv, prefVars, runVars, nearbyVars, eventVars, quietVars
<1> DEFINE Kinds == {"found", "initiated", "result", "refused", "payload", "disconnected", "gone"}
<1>1. ASSUME NEW k \in Kinds, NEW event, Callback(k, e, event)  PROVE ServiceInv'
  <2>1. /\ main # <<>> /\ main[1].kind = k /\ main' = Tail(main)
        /\ UNCHANGED <<saved, running, service, call, up, asked, crossed>>
    BY <1>1, TailIs, Typed DEF Callback, Take
  <2> QED  BY <2>1, Taken, Typed DEF After, Intent
<1>2. \E k \in Kinds : \E event : Callback(k, e, event)
  BY DEF Callbacks, EndpointFound, EndpointLost, ConnectionInitiated, ConnectionResult, Disconnected,
         PayloadReceived
<1> QED  BY <1>1, <1>2

-----------------------------------------------------------------------------
(* The application, the process that dies, and the transport *)

\* A message that is no intent, and does not begin or end a service.
LEMMA Pushed ==
    ASSUME Inv, NEW m \in Messages, Neutral(m), main' = Append(main, m),
           UNCHANGED <<saved, running, service, call, up, asked, crossed>>
    PROVE  ServiceInv'
<1> USE DEF Inv
<1>0. RunsAfterSave /\ QueueInv /\ CrossInv /\ SavedInv  BY DEF ServiceInv
<1>1. RunsAfterSave' /\ (Runs' <=> Runs)  BY <1>0 DEF RunsAfterSave, Runs
<1>2. PICK q : q = main  OBVIOUS
<1>3. /\ q \in Seq(Messages) /\ Shape(q, service, up) /\ main' = Append(q, m)
      /\ m.kind \notin Intent /\ m.kind # "start" /\ m.kind # "stop"
  BY <1>0, <1>2, Typed DEF QueueInv, Neutral, Intent
<1>4. Shape(Append(q, m), service, up)  BY <1>3, ShapePush, Typed
<1>5. /\ StopsBeforeStarts(q) => StopsBeforeStarts(Append(q, m))
      /\ OnlyStops(q) => OnlyStops(Append(q, m))
      /\ StopsEnded(q) => StopsEnded(Append(q, m))
  BY <1>3, CrossPush
<1>6. /\ IntentsIn(Append(q, m)) = IntentsIn(q)
      /\ \A kept, k : Ends(q, kept, k) => Ends(Append(q, m), kept, k)
  BY <1>3, EndsPush
<1>7. QueueInv'  BY <1>3, <1>4 DEF QueueInv
<1>8. CrossInv'  BY <1>0, <1>1, <1>2, <1>3, <1>5 DEF CrossInv
<1>9. SavedInv'  BY <1>0, <1>1, <1>2, <1>3, <1>6 DEF SavedInv
<1> QED  BY <1>1, <1>7, <1>8, <1>9 DEF ServiceInv

\* Calls that are made behind those under way.
LEMMA Called ==
    ASSUME Inv, NEW s, s \in {AttachSteps, <<>>, AttachSteps \o <<"save", "run">>, <<"halt", "clear">>},
           call' = call \o s, UNCHANGED <<saved, running, service, main, up, asked, crossed>>
    PROVE  ServiceInv'
<1> USE DEF Inv
<1> DEFINE Steps == {"sink", "drain", "save", "run", "begin", "halt", "clear"}
<1>0. RunsAfterSave /\ QueueInv /\ CrossInv /\ SavedInv  BY DEF ServiceInv
<1>1. PICK c, t : c = call /\ t = call'  OBVIOUS
<1>2. /\ s \in Seq(Steps) /\ (s # <<>> => s[1] # "run")
      /\ \A i \in DOMAIN s : s[i] # "begin" /\ (s[i] = "run" => i = 4 /\ s[3] = "save")
  <2>1. CASE s = AttachSteps  BY <2>1 DEF AttachSteps
  <2>2. CASE s = <<>>  BY <2>2
  <2>3. CASE s = AttachSteps \o <<"save", "run">>
    <3>1. PICK a, b, r : a = <<"sink", "drain">> /\ b = <<"save", "run">> /\ r = s  OBVIOUS
    <3>2. a \in Seq(Steps) /\ b \in Seq(Steps) /\ r = a \o b  BY <2>3, <3>1 DEF AttachSteps
    <3>3. Len(a) = 2 /\ Len(b) = 2 /\ a[1] = "sink" /\ a[2] = "drain" /\ b[1] = "save"  BY <3>1
    <3>4. /\ r \in Seq(Steps) /\ Len(r) = 4 /\ DOMAIN r = 1 .. 4
          /\ \A i \in 1 .. 4 : r[i] = IF i <= 2 THEN a[i] ELSE b[i - 2]
      <4>1. /\ r \in Seq(Steps) /\ Len(r) = Len(a) + Len(b)
            /\ \A i \in 1 .. Len(a) + Len(b) : r[i] = IF i <= Len(a) THEN a[i] ELSE b[i - Len(a)]
        BY <3>2, ConcatProperties
      <4>2. DOMAIN r = 1 .. Len(r)  BY <4>1, LenProperties
      <4>3. Len(a) + Len(b) = 4  BY <3>3
      <4> QED  BY <3>3, <4>1, <4>2, <4>3
    <3>5. r[1] = "sink" /\ r[2] = "drain" /\ r[3] = "save"  BY <3>3, <3>4
    <3>6. \A i \in DOMAIN r : i = 1 \/ i = 2 \/ i = 3 \/ i = 4  BY <3>4
    <3> QED  BY <3>1, <3>4, <3>5, <3>6
  <2>4. CASE s = <<"halt", "clear">>  BY <2>4
  <2> QED  BY <2>1, <2>2, <2>3, <2>4
<1>3. c \in Seq(Steps) /\ t = c \o s  BY <1>1, Typed
<1>4. /\ t \in Seq(Steps) /\ Len(t) = Len(c) + Len(s) /\ Len(c) \in Nat /\ Len(s) \in Nat
      /\ \A i \in 1 .. Len(c) + Len(s) : t[i] = IF i <= Len(c) THEN c[i] ELSE s[i - Len(c)]
  BY <1>2, <1>3, ConcatProperties
<1>5. /\ \A i \in DOMAIN c : c[i] = "run" => i = 1 \/ c[i - 1] = "save"
      /\ \A i \in DOMAIN c : c[i] = "begin" => i = 1
  BY <1>0, <1>1 DEF RunsAfterSave
<1>6. ASSUME NEW i \in DOMAIN t, i # 1
      PROVE  t[i] # "begin" /\ (t[i] = "run" => t[i - 1] = "save")
  <2>1. i \in Nat /\ i \in 1 .. Len(c) + Len(s) /\ i - 1 \in 1 .. Len(c) + Len(s)  BY <1>4, <1>6
  <2>2. CASE i <= Len(c)
    <3>1. t[i] = c[i] /\ t[i - 1] = c[i - 1] /\ i \in DOMAIN c  BY <1>3, <1>4, <2>1, <2>2
    <3>2. \A j \in DOMAIN c : c[j] = "run" => j = 1 \/ c[j - 1] = "save"  BY <1>5
    <3>3. \A j \in DOMAIN c : c[j] = "begin" => j = 1  BY <1>5
    <3>4. t[i] # "begin"  BY <1>6, <3>1, <3>3
    <3> QED  BY <1>6, <3>1, <3>2, <3>4
  <2>3. CASE ~(i <= Len(c))
    <3>1. t[i] = s[i - Len(c)] /\ i - Len(c) \in DOMAIN s  BY <1>2, <1>4, <2>1, <2>3
    <3>2. t[i] # "begin" /\ (t[i] = "run" => i - Len(c) = 4 /\ s[3] = "save")  BY <1>2, <3>1
    <3>a. i \in Nat /\ Len(c) \in Nat  BY <1>4, <2>1
    <3>3. i - Len(c) = 4 => ~(i - 1 <= Len(c)) /\ (i - 1) - Len(c) = 3  BY <3>a
    <3> QED  BY <1>4, <2>1, <3>2, <3>3
  <2> QED  BY <2>2, <2>3
<1>7. (t # <<>> /\ Head(t) \in {"run", "begin"}) => (c # <<>> /\ Head(c) \in {"run", "begin"})
  <2> SUFFICES ASSUME t # <<>>, Head(t) \in {"run", "begin"}
               PROVE  c # <<>> /\ Head(c) \in {"run", "begin"}
    OBVIOUS
  <2>1. 1 \in 1 .. Len(c) + Len(s) /\ t[1] \in {"run", "begin"}  BY <1>4
  <2>2. CASE c = <<>>
    <3>1. Len(c) = 0 /\ t[1] = s[1]  BY <1>4, <2>1, <2>2
    <3>2. s # <<>> /\ 1 \in DOMAIN s  BY <1>2, <2>1, <3>1
    <3> QED  BY <1>2, <2>1, <3>1, <3>2
  <2>3. CASE c # <<>>
    <3>1. 1 <= Len(c) /\ t[1] = c[1]  BY <1>3, <1>4, <2>1, <2>3
    <3> QED  BY <1>3, <2>1, <2>3, <3>1
  <2> QED  BY <2>2, <2>3
<1>8. RunsAfterSave' /\ (Runs' => Runs)  BY <1>1, <1>6, <1>7 DEF RunsAfterSave, Runs
<1>9. QueueInv' /\ CrossInv' /\ SavedInv'  BY <1>0, <1>8 DEF QueueInv, CrossInv, SavedInv
<1> QED  BY <1>8, <1>9 DEF ServiceInv

LEMMA ServiceApplication == ASSUME Inv, Open \/ Subscribe \/ CallStart \/ CallStop \/ Swipe  PROVE ServiceInv'
<1> USE DEF Inv, appOnly, historyVars, prefVars, runVars, nearbyVars
<1>1. CASE Open
  <2>1. call = <<>> /\ call' \in {AttachSteps, <<>>}
        /\ UNCHANGED <<saved, running, service, main, up, asked, crossed>>
    BY <1>1 DEF Open
  <2>2. call' = call \o call'  BY <2>1 DEF AttachSteps
  <2> QED  BY <2>1, <2>2, Called
<1>2. CASE Subscribe  BY <1>2, Called DEF Subscribe
<1>3. CASE CallStart
  <2>1. call' = call \o AttachSteps \o <<"save", "run">>
        /\ UNCHANGED <<saved, running, service, main, up, asked, crossed>>
    BY <1>3 DEF CallStart
  <2>2. call' = call \o (AttachSteps \o <<"save", "run">>)
    <3> DEFINE Steps == {"sink", "drain", "save", "run", "begin", "halt", "clear"}
    <3>1. AttachSteps \in Seq(Steps) /\ <<"save", "run">> \in Seq(Steps) /\ call \in Seq(Steps)
      BY Typed DEF AttachSteps
    <3> QED  BY <2>1, <3>1, ConcatAssociative
  <2> QED  BY <2>1, <2>2, Called
<1>4. CASE CallStop  BY <1>4, Called DEF CallStop
<1>5. CASE Swipe
  <2>1. UNCHANGED <<saved, running, service, call, up, asked, crossed>>  BY <1>5 DEF Swipe
  <2>2. Message("removed") \in Messages /\ Neutral(Message("removed"))
    BY DEF Message, Messages, Neutral, Intent
  <2>3. CASE service  BY <1>5, <2>1, <2>2, <2>3, Pushed DEF Swipe
  <2>4. CASE ~service
    <3>1. main' = main  BY <1>5, <2>4 DEF Swipe
    <3> QED  BY <2>1, <3>1, ServiceFrame DEF serviceVars
  <2> QED  BY <2>3, <2>4
<1> QED  BY <1>1, <1>2, <1>3, <1>4, <1>5

LEMMA ServiceNearby == ASSUME Inv, NEW e \in Endpoint, Nearby(e)  PROVE ServiceInv'
<1> DEFINE Kinds == {"found", "initiated", "result", "refused", "payload", "disconnected", "gone"}
<1>1. ASSUME NEW k \in Kinds, NEW from, NEW to, Post(k, e, from, to)  PROVE ServiceInv'
  <2>1. [kind |-> k, of |-> e] \in Messages /\ Neutral([kind |-> k, of |-> e])
    BY DEF Messages, Neutral, Intent
  <2> QED  BY <1>1, <2>1, Pushed DEF Post, prefVars, runVars, historyVars
<1>2. \E k \in Kinds : \E from, to : Post(k, e, from, to)  BY DEF Nearby
<1> QED  BY <1>1, <1>2

\* No call is under way in a new process, and nothing runs.
LEMMA Fresh ==
    ASSUME NEW q, Die(q)
    PROVE  /\ RunsAfterSave' /\ ~Runs' /\ ~running' /\ ~service' /\ main' = q
           /\ UNCHANGED <<saved, crossed>>
           /\ asked' \in {asked, "none"}
           /\ asked' # "none" => Intents(main) \in {<<>>, Intents(q)}
BY DEF Die, RunsAfterSave, Runs, prefVars

\* The intents of a queue are those that are restarted only if it holds none.
LEMMA NoIntents ==
    ASSUME NEW q \in Seq(Messages), Followed(q), StickyFirst(q), Intents(q) = <<>>
    PROVE  IntentsIn(q) = {}
<1>1. Current(q) = {}
  <2> SUFFICES ASSUME NEW i \in Current(q)  PROVE FALSE  OBVIOUS
  <2>1. PICK k \in 1 .. Len(Intents(q)) : Nth(Current(q), k) = i  BY IntentsAre
  <2>2. Len(Intents(q)) = 0  OBVIOUS
  <2> QED  BY <2>1, <2>2
<1> QED  BY <1>1, NoneCurrent

LEMMA ServiceEmpty ==
    ASSUME Inv, Die(<<>>), up' = FALSE, crossed \/ ~saved  PROVE ServiceInv'
<1>0. QueueInv /\ CrossInv /\ SavedInv  BY DEF Inv, ServiceInv
<1>1. asked' # "none" => IntentsIn(main) = {}
  <2> SUFFICES ASSUME asked' # "none"  PROVE IntentsIn(main) = {}  OBVIOUS
  <2>1. Intents(main) = <<>>  BY Fresh, EmptyQueue
  <2> QED  BY <1>0, <2>1, NoIntents, Typed DEF Inv, QueueInv, Shape
<1>2. \A k : Ends(main, saved, k) /\ IntentsIn(main) = {} => Ends(<<>>, saved, k)
  BY EmptyQueue DEF Ends, LastIs
<1>3. QueueInv'
  <2>1. service' = FALSE /\ main' = <<>>  BY DEF Die
  <2> QED  BY <2>1, EmptyQueue DEF QueueInv
<1>4. CrossInv'  BY Fresh, EmptyQueue DEF CrossInv
<1>5. SavedInv'  BY <1>0, <1>1, <1>2, Fresh DEF SavedInv
<1> QED  BY <1>3, <1>4, <1>5, Fresh DEF ServiceInv

LEMMA ServiceKill == ASSUME Inv, Kill \/ Crash  PROVE ServiceInv'
<1> USE DEF Inv
<1>0. QueueInv /\ CrossInv /\ SavedInv /\ Die(Revived) /\ UNCHANGED up  BY DEF ServiceInv, Kill, Crash
<1>1. CASE ~up
  <2>1. Die(<<>>) /\ up' = FALSE /\ (crossed \/ ~saved)  BY <1>0, <1>1, Typed DEF Revived, CrossInv
  <2> QED  BY <2>1, ServiceEmpty
<1>2. CASE up
  <2>1. Revived = Reissued(main)  BY <1>2 DEF Revived, Reissued, Create1
  <2>2. Shape(main, service, TRUE)  BY <1>0, <1>2, Typed DEF QueueInv
  <2>3. /\ Shape(Reissued(main), FALSE, TRUE)
        /\ StopsBeforeStarts(main) => StopsBeforeStarts(Reissued(main))
        /\ \A kept, k : Ends(main, kept, k) => Ends(Reissued(main), kept, k)
    BY <2>2, ReissuedShape, ReissuedCross, ReissuedEnds, Typed
  <2>4. /\ RunsAfterSave' /\ ~Runs' /\ ~running' /\ service' = FALSE /\ main' = Reissued(main) /\ up' = TRUE
        /\ UNCHANGED <<saved, crossed>> /\ asked' \in {asked, "none"}
    BY <1>0, <1>2, <2>1, Fresh, Typed DEF Die
  <2>5. QueueInv'  BY <2>3, <2>4 DEF QueueInv
  <2>6. CrossInv'  BY <1>0, <2>3, <2>4 DEF CrossInv
  <2>7. SavedInv'  BY <1>0, <2>3, <2>4 DEF SavedInv
  <2> QED  BY <2>4, <2>5, <2>6, <2>7 DEF ServiceInv
<1> QED  BY <1>1, <1>2

LEMMA ServiceBoot == ASSUME Inv, Boot  PROVE ServiceInv'
<1> USE DEF Inv
<1>0. QueueInv /\ CrossInv /\ SavedInv /\ saved \in BOOLEAN  BY Typed DEF ServiceInv
<1>1. CASE ~saved
  <2>1. Die(<<>>) /\ up' = FALSE  BY <1>0, <1>1 DEF Boot
  <2> QED  BY <1>1, <2>1, ServiceEmpty
<1>2. CASE saved
  <2>1. Die(Booted) /\ up' = TRUE  BY <1>0, <1>2 DEF Boot, Booted
  <2>2. /\ RunsAfterSave' /\ ~Runs' /\ ~running' /\ service' = FALSE /\ main' = Booted
        /\ UNCHANGED <<saved, crossed>> /\ asked' \in {asked, "none"}
    BY <2>1, Fresh DEF Die
  <2>3. QueueInv'  BY <2>1, <2>2, BootedIs DEF QueueInv
  <2>4. CrossInv'  BY <2>1, <2>2, BootedIs DEF CrossInv
  <2>5. ASSUME asked' = "stop", ~crossed  PROVE FALSE
    <3>1. asked = "stop" /\ Intents(main) \in {<<>>, Intents(Booted)}  BY <2>1, <2>5, Fresh
    <3>2. LastIs(main, "stop")  BY <1>0, <1>2, <2>5, <3>1 DEF SavedInv, Ends
    <3>3. PICK i \in IntentsIn(main) : main[i].kind = "stop" /\ \A j \in IntentsIn(main) : j <= i
      BY <3>2 DEF LastIs
    <3>4. i \in Current(main)  BY <1>0, <3>3, LastIsCurrent, Typed DEF QueueInv, Shape
    <3>5. PICK n \in 1 .. Len(Intents(main)) : Intents(main)[n] = main[i]  BY <3>4, IntentsAre, Typed
    <3>6. Intents(main) # <<>>  BY <3>5
    <3>7. Intents(main)[n].kind = "start"  BY <3>1, <3>5, <3>6, BootedIs
    <3> QED  BY <3>3, <3>5, <3>7
  <2>6. SavedInv'  BY <2>2, <2>5, BootedIs DEF SavedInv, Ends
  <2> QED  BY <2>2, <2>3, <2>4, <2>6 DEF ServiceInv
<1> QED  BY <1>1, <1>2

-----------------------------------------------------------------------------
(* The last call, and the service *)

LEMMA ServiceStep == ASSUME Inv, [Next]_vars  PROVE ServiceInv'
<1> USE DEF prefVars, runVars, nearbyVars, eventVars, historyVars, quietVars, serviceVars
<1>1. CASE UNCHANGED vars  BY <1>1, ServiceFrame DEF Inv, vars
<1>2. CASE Emit \/ Persist  BY <1>2, ServiceFrame DEF Inv, Emit, Persist
<1>3. CASE Main  BY <1>2, <1>3, ServiceIntents, ServiceStop, ServiceRemoved, ServiceCallbacks DEF Main
<1>4. CASE Listeners  BY <1>4, ServiceFrame DEF Inv, Listeners, TransportStarted, RequestAnswered
<1>5. CASE \E k \in {"adv", "disc"} : TransportFailed(k)  BY <1>5, ServiceFrame DEF Inv, TransportFailed
<1>6. CASE \E e \in Endpoint : Answer(e)  BY <1>6, ServiceFrame DEF Inv, Answer
<1>7. CASE SwitchRadio  BY <1>7, ServiceFrame DEF Inv, SwitchRadio
<1> QED
  BY <1>1, <1>3, <1>4, <1>5, <1>6, <1>7, ServiceModule, ServiceApplication, ServiceKill, ServiceBoot,
     ServiceNearby DEF Next

LEMMA ServiceHolds == Spec => []Inv
<1>1. Init => Inv  BY TypeStart, ServiceStart DEF Inv
<1>2. Inv /\ [Next]_vars => Inv'  BY TypeStep, ServiceStep DEF Inv
<1> QED  BY <1>1, <1>2, PTL DEF Spec

\* When both threads have come to rest, the call made last has won, whatever intents, kills,
\* swipes and restarts of the device came between (start, stop, onStartCommand, onTaskRemoved).
THEOREM LastCallCorrect == Spec => []LastCallWins
<1>1. Inv => LastCallWins
  <2> SUFFICES ASSUME Inv, Quiet  PROVE /\ (asked = "stop" /\ ~crossed) => ~running /\ ~saved
                                        /\ asked = "start" => saved
                                        /\ running => saved
    BY DEF LastCallWins
  <2>1. IntentsIn(main) = {} /\ SavedInv  BY EmptyQueue DEF Quiet, Inv, ServiceInv
  <2>2. \A k : Ends(main, saved, k) => (saved <=> k = "start")  BY <2>1 DEF Ends, LastIs
  <2> QED  BY <2>1, <2>2 DEF SavedInv
<1> QED  BY <1>1, ServiceHolds, PTL

\* A running transport has its foreground service, unless a start crossed a stop that still
\* waited (stopSelf in onStartCommand).
THEOREM RunsCorrect == Spec => []RunsInService
<1>1. Inv => RunsInService
  <2> SUFFICES ASSUME Inv, Quiet, running, ~crossed  PROVE service /\ up  BY DEF RunsInService
  <2>1. QueueInv /\ CrossInv  BY DEF Inv, ServiceInv
  <2>2. up  BY <2>1 DEF CrossInv
  <2>3. Lives(main, service)  BY <2>1, <2>2 DEF QueueInv, Shape
  <2>4. \A i : i \notin DOMAIN main  BY DEF Quiet
  <2> QED  BY <2>2, <2>3, <2>4 DEF Lives
<1> QED  BY <1>1, ServiceHolds, PTL

-----------------------------------------------------------------------------
(* Events *)

Rising(s) == \A i, j \in DOMAIN s : i < j => s[i] < s[j]

\* What is kept for the application is newer than all it has heard, in order, and has every
\* event since its first that was not lost.
KeptInv ==
    /\ \A i, j \in DOMAIN pending : i < j => pending[i].n < pending[j].n
    /\ \A j \in DOMAIN pending :
           /\ pending[j].n <= emitted
           /\ \A i \in DOMAIN heard : heard[i] < pending[j].n
           /\ \A m \in Nat : (pending[j].n <= m /\ m <= emitted) => m \in Numbers(pending) \cup lost

HeardInv == Rising(heard) /\ \A i \in DOMAIN heard : heard[i] <= emitted

\* The list that is about to be written is the one that is kept.
CopyInv == copy # <<>> => Head(copy) = pending

EventsInv == ~raced => KeptInv /\ HeardInv /\ CopyInv

LEMMA EventsTyped ==
    TypeInv => /\ pending \in Seq(Stored) /\ heard \in Seq(Nat) /\ emitted \in Nat /\ lost \subseteq Nat
               /\ raced \in BOOLEAN /\ out \in Seq(Events) /\ copy \in Seq(Seq(Stored))
               /\ Len(copy) <= Len(out) /\ Len(out) <= 1 /\ Len(pending) <= MaxPending
               /\ \A i \in DOMAIN pending : pending[i].n \in Nat
               /\ \A i \in DOMAIN heard : heard[i] \in Nat
<1> SUFFICES ASSUME TypeInv
             PROVE \A i \in DOMAIN pending : pending[i].n \in Nat
  BY DEF TypeInv, Flags, EventTypes, QueueTypes
<1>1. pending \in Seq(Stored)  BY DEF TypeInv, EventTypes
<1> QED  BY <1>1, StoredAre

LEMMA EventsFrame ==
    ASSUME EventsInv, UNCHANGED <<pending, emitted, heard, lost, raced>>, copy' \in {copy, <<>>}
    PROVE  EventsInv'
<1>1. KeptInv => KeptInv'  BY DEF KeptInv, Numbers
<1>2. HeardInv => HeardInv'  BY DEF HeardInv, Rising
<1>3. CopyInv => CopyInv'  BY DEF CopyInv
<1> QED  BY <1>1, <1>2, <1>3 DEF EventsInv

LEMMA EventsStart == Init => EventsInv
BY DEF Init, EventsInv, KeptInv, HeardInv, CopyInv, Rising

\* What was kept is heard, or nobody hears it.
LEMMA EventsEmptied ==
    ASSUME TypeInv, EventsInv, pending' = <<>>, UNCHANGED <<emitted, copy>>,
           raced' = (raced \/ copy # <<>>),
           heard' = heard \/ heard' = heard \o [i \in DOMAIN pending |-> pending[i].n]
    PROVE  EventsInv'
<1> SUFFICES ASSUME ~raced'  PROVE KeptInv' /\ HeardInv' /\ CopyInv'  BY DEF EventsInv
<1>0. copy = <<>> /\ KeptInv /\ HeardInv  BY DEF EventsInv
<1>1. KeptInv' /\ CopyInv'  BY <1>0 DEF KeptInv, CopyInv
<1>e. emitted' = emitted  OBVIOUS
<1>2. CASE heard' = heard  BY <1>0, <1>1, <1>2, <1>e DEF HeardInv, Rising
<1>3. CASE heard' = heard \o [i \in DOMAIN pending |-> pending[i].n]
  <2>1. PICK h, p, t : h = heard /\ p = [i \in DOMAIN pending |-> pending[i].n] /\ t = heard'  OBVIOUS
  <2>2. /\ h \in Seq(Nat) /\ p \in Seq(Nat) /\ DOMAIN p = DOMAIN pending /\ t = h \o p
        /\ \A i \in DOMAIN p : p[i] = pending[i].n
    <3>1. Len(pending) \in Nat /\ DOMAIN pending = 1 .. Len(pending)  BY EventsTyped, LenProperties
    <3>2. p \in Seq(Nat)  BY <2>1, <3>1, EventsTyped
    <3> QED  BY <1>3, <2>1, <3>2, EventsTyped
  <2>3. /\ t \in Seq(Nat) /\ Len(t) = Len(h) + Len(p) /\ Len(h) \in Nat /\ Len(p) \in Nat
        /\ DOMAIN t = 1 .. Len(t) /\ DOMAIN h = 1 .. Len(h) /\ DOMAIN p = 1 .. Len(p)
        /\ \A i \in 1 .. Len(h) + Len(p) : t[i] = IF i <= Len(h) THEN h[i] ELSE p[i - Len(h)]
    BY <2>2, ConcatProperties, LenProperties
  <2>4. /\ Rising(h) /\ Rising(p) /\ \A i \in DOMAIN h : h[i] <= emitted
        /\ \A i \in DOMAIN p : p[i] <= emitted /\ \A j \in DOMAIN h : h[j] < p[i]
    BY <1>0, <2>1, <2>2 DEF KeptInv, HeardInv, Rising
  <2>5. \A i \in DOMAIN t : \/ i \in DOMAIN h /\ i <= Len(h) /\ t[i] = h[i]
                            \/ ~(i <= Len(h)) /\ i - Len(h) \in DOMAIN p /\ t[i] = p[i - Len(h)]
    BY <2>3
  <2>6. Rising(t)
    <3> SUFFICES ASSUME NEW i \in DOMAIN t, NEW j \in DOMAIN t, i < j  PROVE t[i] < t[j]  BY DEF Rising
    <3>0. i \in Nat /\ j \in Nat  BY <2>3
    <3>1. CASE j <= Len(h)
      <4>1. i <= Len(h)  BY <2>3, <3>0, <3>1
      <4> QED  BY <2>4, <2>5, <3>1, <4>1 DEF Rising
    <3>2. CASE ~(j <= Len(h)) /\ i <= Len(h)  BY <2>4, <2>5, <3>2
    <3>3. CASE ~(j <= Len(h)) /\ ~(i <= Len(h))
      <4>1. i - Len(h) < j - Len(h)  BY <2>3, <3>0
      <4> QED  BY <2>4, <2>5, <3>3, <4>1 DEF Rising
    <3> QED  BY <3>1, <3>2, <3>3
  <2>7. \A i \in DOMAIN t : t[i] <= emitted  BY <2>4, <2>5
  <2> QED  BY <1>1, <1>e, <2>1, <2>6, <2>7 DEF HeardInv
<1> QED  BY <1>1, <1>2, <1>3

LEMMA EventsDropped == ASSUME TypeInv, EventsInv, Drain \/ Clear \/ StopCommand  PROVE EventsInv'
<1> USE DEF Forget
<1>1. CASE Drain  BY <1>1, EventsEmptied DEF Drain, ToSink
<1>2. CASE Clear  BY <1>2, EventsEmptied DEF Clear
<1>3. CASE StopCommand
  <2>1. out = <<>>  BY <1>3 DEF StopCommand, Take
  <2>2. copy = <<>>  BY <2>1, EventsTyped
  <2> QED  BY <1>3, <2>2, EventsEmptied, EventsTyped DEF StopCommand
<1> QED  BY <1>1, <1>2, <1>3

LEMMA NumberedHas == Numbered.n = emitted + 1
BY DEF Numbered

LEMMA EventsEmit == ASSUME TypeInv, EventsInv, Emit  PROVE EventsInv'
<1> SUFFICES ASSUME ~raced'  PROVE KeptInv' /\ HeardInv' /\ CopyInv'  BY DEF EventsInv
<1>e. emitted \in Nat  BY EventsTyped
<1>0. pending' = pending  BY DEF Emit, prefVars
<1>1. CASE sink \/ ~service
  <2>1. emitted' = emitted + 1 /\ copy' = <<>>  BY <1>1 DEF Emit
  <2>2. CASE sink
    <3>1. ToSink(<<Numbered>>) /\ ~raced /\ pending = <<>>  BY <1>1, <2>2 DEF Emit
    <3>2. HeardInv  BY <3>1 DEF EventsInv
    <3>3. CASE app = "listening"
      <4>1. heard' = heard \o [i \in DOMAIN <<Numbered>> |-> <<Numbered>>[i].n]  BY <3>1, <3>3 DEF ToSink
      <4>2. [i \in DOMAIN <<Numbered>> |-> <<Numbered>>[i].n] = <<emitted + 1>>  BY NumberedHas
      <4>3. PICK h, t, n : h = heard /\ t = heard' /\ n = emitted + 1  OBVIOUS
      <4>4. h \in Seq(Nat) /\ n \in Nat /\ t = Append(h, n)  BY <4>1, <4>2, <4>3, EventsTyped, AppendIsConcat
      <4>5. /\ Len(h) \in Nat /\ DOMAIN t = 1 .. Len(h) + 1 /\ DOMAIN h = 1 .. Len(h) /\ t[Len(h) + 1] = n
            /\ \A i \in DOMAIN h : t[i] = h[i] /\ h[i] \in Nat
        BY <4>4, AppendProperties, LenProperties
      <4>6. Rising(h) /\ \A i \in DOMAIN h : h[i] < n  BY <1>e, <3>2, <4>3, <4>5 DEF HeardInv
      <4>7. Rising(t) /\ \A i \in DOMAIN t : t[i] <= n  BY <4>4, <4>5, <4>6 DEF Rising
      <4>8. HeardInv'  BY <2>1, <4>3, <4>7 DEF HeardInv
      <4> QED  BY <1>0, <2>1, <3>1, <4>8 DEF KeptInv, CopyInv
    <3>4. CASE app # "listening"
      <4>1. heard' = heard  BY <3>1, <3>4 DEF ToSink
      <4>2. HeardInv'  BY <1>e, <2>1, <3>2, <4>1, EventsTyped DEF HeardInv, Rising
      <4> QED  BY <1>0, <2>1, <3>1, <4>2 DEF KeptInv, CopyInv
    <3> QED  BY <3>3, <3>4
  <2>3. CASE ~sink
    <3>1. lost' = lost \cup {emitted + 1} /\ heard' = heard /\ ~raced
      BY <1>1, <2>3, NumberedHas DEF Emit, Forget, Numbers
    <3>2. HeardInv /\ KeptInv  BY <3>1 DEF EventsInv
    <3>3. HeardInv'  BY <1>e, <2>1, <3>1, <3>2, EventsTyped DEF HeardInv, Rising
    <3>4. KeptInv'
      <4>1. ASSUME NEW j \in DOMAIN pending, NEW m \in Nat, pending[j].n <= m, m <= emitted + 1
            PROVE  m \in Numbers(pending) \cup lost'
        <5>1. m = emitted + 1 \/ m <= emitted  BY <1>e, <4>1
        <5> QED  BY <3>1, <3>2, <4>1, <5>1 DEF KeptInv
      <4>2. \A j \in DOMAIN pending : pending[j].n <= emitted + 1  BY <1>e, <3>2, EventsTyped DEF KeptInv
      <4> QED  BY <1>0, <2>1, <3>1, <3>2, <4>1, <4>2 DEF KeptInv, Numbers
    <3> QED  BY <2>1, <3>3, <3>4 DEF CopyInv
  <2> QED  BY <2>2, <2>3
<1>2. CASE ~(sink \/ ~service)
  <2>1. copy' = <<pending>> /\ UNCHANGED <<emitted, heard, lost, raced>>  BY <1>2 DEF Emit, eventVars
  <2>2. KeptInv /\ HeardInv  BY <2>1 DEF EventsInv
  <2> QED  BY <1>0, <2>1, <2>2 DEF KeptInv, HeardInv, CopyInv, Numbers, Rising
<1> QED  BY <1>1, <1>2

LEMMA EventsPersist == ASSUME TypeInv, EventsInv, Persist  PROVE EventsInv'
<1> SUFFICES ASSUME ~raced'  PROVE KeptInv' /\ HeardInv' /\ CopyInv'  BY DEF EventsInv
<1>0. /\ copy # <<>> /\ ~raced /\ emitted' = emitted + 1 /\ copy' = <<>> /\ heard' = heard
  BY DEF Persist
<1>1. KeptInv /\ HeardInv /\ Head(copy) = pending  BY <1>0 DEF EventsInv, CopyInv
<1>2. Numbered \in Stored
  <2>1. out # <<>>  BY <1>0, EventsTyped
  <2>2. Head(out) \in Events /\ emitted + 1 \in Nat  BY <2>1, EventsTyped
  <2> QED  BY <2>2 DEF Numbered, Stored
<1>3. PICK p, x, s : p = pending /\ x = Numbered /\ s = Append(p, x)  OBVIOUS
<1>4. /\ p \in Seq(Stored) /\ s \in Seq(Stored) /\ x.n = emitted + 1 /\ emitted \in Nat
      /\ Len(p) \in Nat /\ Len(s) = Len(p) + 1 /\ DOMAIN p = 1 .. Len(p) /\ DOMAIN s = 1 .. Len(s)
      /\ s[Len(s)] = x /\ \A i \in DOMAIN p : s[i] = p[i] /\ p[i].n \in Nat
      /\ s # <<>>
  BY <1>2, <1>3, EventsTyped, AppendProperties, LenProperties, NumberedHas
<1>5. pending' = Newest(s) /\ Forget(IF Len(s) > MaxPending THEN <<Head(s)>> ELSE <<>>)
  BY <1>1, <1>3 DEF Persist
<1>6. /\ \A i, j \in DOMAIN s : i < j => s[i].n < s[j].n
      /\ \A j \in DOMAIN s : /\ s[j].n <= emitted + 1 /\ s[j].n \in Nat
                             /\ \A i \in DOMAIN heard : heard[i] < s[j].n
  <2>1. \A j \in DOMAIN s : j \in DOMAIN p \/ (j = Len(s) /\ s[j].n = emitted + 1)  BY <1>4
  <2>2. \A j \in DOMAIN p : s[j].n = p[j].n /\ p[j].n <= emitted /\ j < Len(s)
                            /\ \A i \in DOMAIN heard : heard[i] < p[j].n
    BY <1>1, <1>3, <1>4 DEF KeptInv
  <2>3. \A i, j \in DOMAIN p : i < j => p[i].n < p[j].n  BY <1>1, <1>3 DEF KeptInv
  <2>4. \A i \in DOMAIN heard : heard[i] <= emitted /\ heard[i] \in Nat  BY <1>1, EventsTyped DEF HeardInv
  <2>5. ASSUME NEW i \in DOMAIN s, NEW j \in DOMAIN s, i < j  PROVE s[i].n < s[j].n
    <3>1. i \in DOMAIN p  BY <1>4, <2>5
    <3>2. CASE j \in DOMAIN p  BY <1>4, <2>3, <2>5, <3>1, <3>2
    <3>3. CASE j = Len(s) /\ s[j].n = emitted + 1  BY <1>4, <2>2, <3>1, <3>3
    <3> QED  BY <2>1, <3>2, <3>3
  <2>6. ASSUME NEW j \in DOMAIN s  PROVE s[j].n <= emitted + 1 /\ s[j].n \in Nat
                                         /\ \A i \in DOMAIN heard : heard[i] < s[j].n
    <3>1. CASE j \in DOMAIN p  BY <1>4, <2>2, <3>1
    <3>2. CASE s[j].n = emitted + 1  BY <1>4, <2>4, <3>2
    <3> QED  BY <2>1, <3>1, <3>2
  <2> QED  BY <2>5, <2>6
<1>7. \A j \in DOMAIN s, m \in Nat : (s[j].n <= m /\ m <= emitted + 1) => m \in Numbers(s) \cup lost
  <2> SUFFICES ASSUME NEW j \in DOMAIN s, NEW m \in Nat, s[j].n <= m, m <= emitted + 1
               PROVE m \in Numbers(s) \cup lost
    OBVIOUS
  <2>1. CASE m = emitted + 1
    <3>1. Len(s) \in DOMAIN s /\ s[Len(s)].n = m  BY <1>4, <2>1
    <3> QED  BY <3>1 DEF Numbers
  <2>2. CASE m # emitted + 1
    <3>1. m <= emitted  BY <1>4, <2>2
    <3>2. j \in DOMAIN p
      <4>1. j = Len(s) \/ j \in DOMAIN p  BY <1>4
      <4> QED  BY <1>4, <3>1, <4>1
    <3>3. m \in Numbers(p) \cup lost  BY <1>1, <1>3, <1>4, <3>1, <3>2 DEF KeptInv
    <3>4. Numbers(p) \subseteq Numbers(s)
      <4>1. \A i \in DOMAIN p : i \in DOMAIN s /\ s[i] = p[i]  BY <1>4
      <4> QED  BY <4>1 DEF Numbers
    <3> QED  BY <3>3, <3>4
  <2> QED  BY <2>1, <2>2
<1>8. HeardInv'  BY <1>0, <1>1, EventsTyped DEF HeardInv, Rising
<1>9. KeptInv'
  <2>1. CASE ~(Len(s) > MaxPending)
    <3>1. pending' = s  BY <1>5, <2>1 DEF Newest
    <3>2. lost \subseteq lost'  BY <1>5 DEF Forget
    <3> QED  BY <1>0, <1>6, <1>7, <3>1, <3>2 DEF KeptInv, Numbers
  <2>2. CASE Len(s) > MaxPending
    <3>1. pending' = Tail(s) /\ lost' = lost \cup Numbers(<<Head(s)>>)  BY <1>5, <2>2 DEF Newest, Forget
    <3>2. PICK t : t = Tail(s)  OBVIOUS
    <3>3. /\ 1 \in DOMAIN s /\ Head(s) = s[1]
          /\ \A i \in DOMAIN t : i \in Nat /\ i + 1 \in DOMAIN s /\ t[i] = s[i + 1] /\ i > 0
          /\ \A i \in DOMAIN s : i \in Nat /\ (i # 1 => i - 1 \in DOMAIN t /\ t[i - 1] = s[i])
      BY <1>4, <3>2
    <3>4. s[1].n \in lost'  BY <3>1, <3>3 DEF Numbers
    <3>5. Numbers(s) \subseteq Numbers(t) \cup lost'
      <4> SUFFICES ASSUME NEW i \in DOMAIN s  PROVE s[i].n \in Numbers(t) \cup lost'  BY DEF Numbers
      <4>1. CASE i = 1  BY <3>4, <4>1
      <4>2. CASE i # 1
        <5>1. i - 1 \in DOMAIN t /\ t[i - 1].n = s[i].n  BY <3>3, <4>2
        <5> QED  BY <5>1 DEF Numbers
      <4> QED  BY <4>1, <4>2
    <3>6. \A i, j \in DOMAIN t : i < j => t[i].n < t[j].n
      <4> SUFFICES ASSUME NEW i \in DOMAIN t, NEW j \in DOMAIN t, i < j  PROVE t[i].n < t[j].n  OBVIOUS
      <4>1. i + 1 < j + 1 /\ i + 1 \in DOMAIN s /\ j + 1 \in DOMAIN s  BY <3>3
      <4> QED  BY <1>6, <3>3, <4>1
    <3>7. \A j \in DOMAIN t : /\ t[j].n <= emitted + 1 /\ \A i \in DOMAIN heard : heard[i] < t[j].n
                              /\ \A m \in Nat : (t[j].n <= m /\ m <= emitted + 1) => m \in Numbers(t) \cup lost'
      <4> SUFFICES ASSUME NEW j \in DOMAIN t
                   PROVE  /\ t[j].n <= emitted + 1 /\ \A i \in DOMAIN heard : heard[i] < t[j].n
                          /\ \A m \in Nat : (t[j].n <= m /\ m <= emitted + 1) => m \in Numbers(t) \cup lost'
        OBVIOUS
      <4>1. j + 1 \in DOMAIN s /\ t[j] = s[j + 1]  BY <3>3
      <4> QED  BY <1>6, <1>7, <3>1, <3>5, <4>1
    <3>8. pending' = t /\ Numbers(pending') = Numbers(t)  BY <3>1, <3>2
    <3> QED  BY <1>0, <3>6, <3>7, <3>8 DEF KeptInv, Numbers
  <2> QED  BY <2>1, <2>2
<1> QED  BY <1>0, <1>8, <1>9 DEF CopyInv

LEMMA EventsStep == ASSUME TypeInv, EventsInv, [Next]_vars  PROVE EventsInv'
<1> USE EventsFrame DEF prefVars, eventVars, historyVars, quietVars, appOnly
<1>1. CASE UNCHANGED vars  BY <1>1 DEF vars
<1>2. CASE Module  BY <1>2, EventsDropped DEF Module, SetSink, Save, Run, Begin, HaltTransport
<1>3. CASE Main
  <2>1. CASE Create \/ StartCommand \/ StickyCommand \/ Destroy \/ TaskRemoved
    BY <2>1 DEF Create, StartCommand, StickyCommand, Destroy, TaskRemoved
  <2>2. CASE \E e \in Endpoint : Callbacks(e)
    <3>1. UNCHANGED <<pending, emitted, heard, lost, raced, copy>>
      BY <2>2 DEF Callbacks, EndpointFound, EndpointLost, ConnectionInitiated, ConnectionResult, Disconnected,
                  PayloadReceived, Callback
    <3> QED  BY <3>1
  <2> QED  BY <1>3, <2>1, <2>2, EventsDropped, EventsEmit, EventsPersist DEF Main
<1>4. CASE Listeners \/ (\E k \in {"adv", "disc"} : TransportFailed(k)) \/ (\E e \in Endpoint : Answer(e))
  BY <1>4 DEF Listeners, TransportStarted, RequestAnswered, TransportFailed, Answer
<1>5. CASE Open \/ Subscribe \/ CallStart \/ CallStop \/ Swipe
  BY <1>5 DEF Open, Subscribe, CallStart, CallStop, Swipe
<1>6. CASE Kill \/ Crash \/ Boot \/ SwitchRadio
  BY <1>6 DEF Kill, Crash, Boot, SwitchRadio, Die
<1>7. CASE \E e \in Endpoint : Nearby(e)
  BY <1>7 DEF Nearby, Post
<1> QED  BY <1>1, <1>2, <1>3, <1>4, <1>5, <1>6, <1>7 DEF Next

\* The provider hears events in order and none twice, and the buffer has no gaps but for what
\* was lost, across attachments, deaths and restarts, unless an event was emitted while the
\* buffer was drained or cleared (emit, persistEvent, attach).
THEOREM HeardCorrect == Spec => []HeardInOrder
<1>1. Init => TypeInv /\ EventsInv  BY TypeStart, EventsStart
<1>2. TypeInv /\ EventsInv /\ [Next]_vars => (TypeInv /\ EventsInv)'  BY TypeStep, EventsStep
<1>3. TypeInv /\ EventsInv => HeardInOrder
  <2> SUFFICES ASSUME TypeInv, EventsInv, ~raced
               PROVE  /\ \A i, j \in DOMAIN heard : i < j => heard[i] < heard[j]
                      /\ pending # <<>> => pending[1].n .. emitted \subseteq Numbers(pending) \cup lost
    BY DEF HeardInOrder
  <2>1. KeptInv /\ HeardInv  BY DEF EventsInv
  <2>2. pending # <<>> => 1 \in DOMAIN pending  BY EventsTyped
  <2>3. ASSUME pending # <<>>, NEW m \in pending[1].n .. emitted  PROVE m \in Numbers(pending) \cup lost
    <3>1. 1 \in DOMAIN pending /\ pending[1].n \in Nat /\ emitted \in Nat  BY <2>2, <2>3, EventsTyped
    <3>2. m \in Nat /\ pending[1].n <= m /\ m <= emitted  BY <2>3, <3>1
    <3> QED  BY <2>1, <3>1, <3>2 DEF KeptInv
  <2> QED  BY <2>1, <2>3 DEF HeardInv, Rising
<1> QED  BY <1>1, <1>2, <1>3, PTL DEF Spec

-----------------------------------------------------------------------------
(* What the main thread's queue still says about an endpoint *)

Reports == {"result", "refused", "disconnected"}
IsReport(m, e) == m.of = e /\ m.kind \in Reports
Reported(q, e) == {i \in DOMAIN q : IsReport(q[i], e)}
LastOf(S, i)   == i \in S /\ \A j \in S : j <= i

\* The last report says whether the link is open.
Tells(q, e, open) == \A i \in DOMAIN q : LastOf(Reported(q, e), i) => (q[i].kind = "result" <=> open)

\* Before it is destroyed a service hears nothing of e.
EndsWithout(q, e) == \A d, i \in DOMAIN q : (q[d].kind = "destroy" /\ i < d) => q[i].of # e

Holds(q, k) == \E i \in DOMAIN q : q[i].kind = k

\* r says the same of e as q.
Keeps(q, r, e) ==
    /\ Reported(q, e) = {} <=> Reported(r, e) = {}
    /\ \A open \in BOOLEAN : Tells(q, e, open) => Tells(r, e, open)
    /\ EndsWithout(q, e) => EndsWithout(r, e)
    /\ Holds(q, "stop") => Holds(r, "stop")
    /\ Holds(r, "destroy") => Holds(q, "destroy")

LEMMA KeepsTwice == ASSUME NEW q, NEW r, NEW s, NEW e, Keeps(q, r, e), Keeps(r, s, e)  PROVE Keeps(q, s, e)
BY DEF Keeps

LEMMA TellsTail ==
    ASSUME NEW q \in Seq(Messages), q # <<>>, NEW e
    PROVE  /\ \A open : Tells(q, e, open) => Tells(Tail(q), e, open)
           /\ EndsWithout(q, e) => EndsWithout(Tail(q), e)
           /\ (EndsWithout(q, e) /\ q[1].of = e) => ~Holds(Tail(q), "destroy")
           /\ ~IsReport(q[1], e) => (Reported(q, e) = {} <=> Reported(Tail(q), e) = {})
           /\ IsReport(q[1], e) => /\ Reported(q, e) # {}
                                   /\ \A open : (Tells(q, e, open) /\ Reported(Tail(q), e) = {}) =>
                                          (q[1].kind = "result" <=> open)
           /\ \A k : Holds(Tail(q), k) => Holds(q, k)
           /\ \A k : q[1].kind # k => (Holds(q, k) => Holds(Tail(q), k))
<1> DEFINE t == Tail(q)
<1>1. /\ 1 \in DOMAIN q
      /\ \A i \in DOMAIN t : i \in Nat /\ i + 1 \in DOMAIN q /\ t[i] = q[i + 1] /\ i > 0
      /\ \A i \in DOMAIN q : i \in Nat /\ i > 0 /\ (i # 1 => i - 1 \in DOMAIN t /\ t[i - 1] = q[i])
  BY TailIs
<1> HIDE DEF t
<1>a. \A i \in DOMAIN q : i \in Nat /\ (i # 1 => (i - 1) + 1 = i)  BY <1>1
<1>2. \A i \in DOMAIN t : i \in Reported(t, e) <=> i + 1 \in Reported(q, e)  BY <1>1 DEF Reported
<1>3. \A i \in DOMAIN q : i # 1 => (i \in Reported(q, e) <=> i - 1 \in Reported(t, e))  BY <1>1 DEF Reported
<1>4. ASSUME NEW open, Tells(q, e, open)  PROVE Tells(t, e, open)
  <2> SUFFICES ASSUME NEW i \in DOMAIN t, LastOf(Reported(t, e), i)  PROVE t[i].kind = "result" <=> open
    BY DEF Tells
  <2>1. i \in Nat /\ i > 0 /\ i + 1 \in Reported(q, e) /\ t[i] = q[i + 1] /\ i + 1 \in DOMAIN q
    BY <1>1, <1>2 DEF LastOf
  <2>2. ASSUME NEW j \in Reported(q, e)  PROVE j <= i + 1
    <3>0. j \in DOMAIN q /\ j \in Nat  BY <1>1 DEF Reported
    <3>1. CASE j = 1  BY <2>1, <3>1
    <3>2. CASE j # 1
      <4>1. j - 1 \in Reported(t, e)  BY <1>3, <3>0, <3>2
      <4>2. j - 1 <= i  BY <4>1 DEF LastOf
      <4> QED  BY <2>1, <3>0, <4>2
    <3> QED  BY <3>1, <3>2
  <2> QED  BY <1>4, <2>1, <2>2 DEF Tells, LastOf
<1>b. ASSUME EndsWithout(q, e), q[1].of = e, NEW d \in DOMAIN t  PROVE t[d].kind # "destroy"
  <2>1. 1 < d + 1 /\ d + 1 \in DOMAIN q /\ t[d] = q[d + 1] /\ 1 \in DOMAIN q  BY <1>1
  <2> QED  BY <1>b, <2>1 DEF EndsWithout
<1>6. ASSUME EndsWithout(q, e)  PROVE EndsWithout(t, e)
  <2> SUFFICES ASSUME NEW d \in DOMAIN t, NEW i \in DOMAIN t, t[d].kind = "destroy", i < d
               PROVE t[i].of # e
    BY DEF EndsWithout
  <2>1. i + 1 < d + 1 /\ i + 1 \in DOMAIN q /\ d + 1 \in DOMAIN q /\ t[i] = q[i + 1] /\ t[d] = q[d + 1]  BY <1>1
  <2> QED  BY <1>6, <2>1 DEF EndsWithout
<1>7. ~IsReport(q[1], e) => (Reported(q, e) = {} <=> Reported(t, e) = {})
  <2>1. ASSUME NEW i \in Reported(t, e)  PROVE i + 1 \in Reported(q, e)  BY <1>2 DEF Reported
  <2>2. ASSUME ~IsReport(q[1], e), NEW i \in Reported(q, e)  PROVE i - 1 \in Reported(t, e)
    <3>1. i \in DOMAIN q /\ i # 1  BY <2>2 DEF Reported
    <3> QED  BY <1>3, <3>1
  <2> QED  BY <2>1, <2>2
<1>8. ASSUME IsReport(q[1], e)
      PROVE  /\ Reported(q, e) # {}
             /\ \A open : (Tells(q, e, open) /\ Reported(t, e) = {}) => (q[1].kind = "result" <=> open)
  <2>1. 1 \in Reported(q, e)  BY <1>1, <1>8 DEF Reported
  <2>2. Reported(t, e) = {} => LastOf(Reported(q, e), 1)
    <3> SUFFICES ASSUME Reported(t, e) = {}, NEW j \in Reported(q, e)  PROVE j <= 1  BY <2>1 DEF LastOf
    <3>1. j \in DOMAIN q  BY DEF Reported
    <3> QED  BY <1>3, <3>1
  <2> QED  BY <1>1, <2>1, <2>2 DEF Tells
<1>9. \A k : Holds(t, k) => Holds(q, k)  BY <1>1 DEF Holds
<1>10. \A k : q[1].kind # k => (Holds(q, k) => Holds(t, k))  BY <1>1 DEF Holds
<1>11. (EndsWithout(q, e) /\ q[1].of = e) => ~Holds(t, "destroy")  BY <1>b DEF Holds
<1> QED  BY <1>4, <1>6, <1>7, <1>8, <1>9, <1>10, <1>11 DEF t

LEMMA TellsPush ==
    ASSUME NEW q \in Seq(Messages), NEW m \in Messages, NEW e
    PROVE  /\ ~IsReport(m, e) => /\ Reported(q, e) = {} <=> Reported(Append(q, m), e) = {}
                                 /\ \A open : Tells(q, e, open) => Tells(Append(q, m), e, open)
           /\ IsReport(m, e) => /\ Reported(Append(q, m), e) # {}
                                /\ Tells(Append(q, m), e, m.kind = "result")
           /\ m.kind # "destroy" => (EndsWithout(q, e) => EndsWithout(Append(q, m), e))
           /\ \A k : Holds(Append(q, m), k) <=> (Holds(q, k) \/ m.kind = k)
<1> DEFINE t == Append(q, m)
<1>1. /\ Len(q) + 1 \in DOMAIN t /\ t[Len(q) + 1] = m /\ Len(q) \in Nat
      /\ \A i \in DOMAIN q : i \in Nat /\ i > 0 /\ i <= Len(q) /\ i \in DOMAIN t /\ t[i] = q[i]
      /\ \A i \in DOMAIN t : i \in Nat /\ (i = Len(q) + 1 \/ i \in DOMAIN q)
  BY PushIs
<1> HIDE DEF t
<1>2. ~IsReport(m, e) => Reported(t, e) = Reported(q, e)  BY <1>1 DEF Reported
<1>3. ASSUME ~IsReport(m, e), NEW open, Tells(q, e, open)  PROVE Tells(t, e, open)
  BY <1>1, <1>2, <1>3 DEF Tells, LastOf, Reported
<1>4. ASSUME IsReport(m, e)  PROVE Reported(t, e) # {} /\ Tells(t, e, m.kind = "result")
  <2>1. Len(q) + 1 \in Reported(t, e)  BY <1>1, <1>4 DEF Reported
  <2> SUFFICES ASSUME NEW i \in DOMAIN t, LastOf(Reported(t, e), i)  PROVE t[i] = m
    BY <2>1 DEF Tells
  <2>2. Len(q) + 1 <= i  BY <2>1 DEF LastOf
  <2> QED  BY <1>1, <2>2
<1>7. ASSUME m.kind # "destroy", EndsWithout(q, e)  PROVE EndsWithout(t, e)
  <2> SUFFICES ASSUME NEW d \in DOMAIN t, NEW i \in DOMAIN t, t[d].kind = "destroy", i < d
               PROVE t[i].of # e
    BY DEF EndsWithout
  <2>1. d \in DOMAIN q  BY <1>1, <1>7
  <2>2. i \in DOMAIN q  BY <1>1, <2>1
  <2> QED  BY <1>1, <1>7, <2>1, <2>2 DEF EndsWithout
<1>8. \A k : Holds(t, k) <=> (Holds(q, k) \/ m.kind = k)  BY <1>1 DEF Holds
<1> QED  BY <1>2, <1>3, <1>4, <1>7, <1>8 DEF t

LEMMA KeepsTail ==
    ASSUME NEW q \in Seq(Messages), q # <<>>, NEW e, ~IsReport(q[1], e), q[1].kind # "stop"
    PROVE  Keeps(q, Tail(q), e)
BY TellsTail DEF Keeps

LEMMA KeepsPush ==
    ASSUME NEW q \in Seq(Messages), NEW m \in Messages, NEW e, ~IsReport(m, e),
           m.kind # "destroy"
    PROVE  Keeps(q, Append(q, m), e)
BY TellsPush DEF Keeps

\* Intents and the system's messages say nothing of an endpoint.
LEMMA KeepsIssue ==
    ASSUME NEW q \in Seq(Messages), NEW k \in Intent, Issue(q, k), NEW e \in Endpoint
    PROVE  Keeps(q, main', e) /\ Holds(main', k)
<1> DEFINE m == Message(k)
           c == Message("create")
<1>0. m \in Messages /\ c \in Messages /\ m.kind = k /\ c.kind = "create" /\ m.of = NoEndpoint /\ c.of = NoEndpoint
  BY DEF Message, Messages, Intent
<1>1. e # NoEndpoint /\ k # "destroy"  BY NearbyAssumption DEF Intent
<1> HIDE DEF m, c
<1>2. \A x \in Messages : (x = m \/ x = c) => ~IsReport(x, e)  BY <1>0, <1>1 DEF IsReport
<1>3. CASE up
  <2>1. main' = Append(q, m)  BY <1>0, <1>3, PushIs DEF Issue, m
  <2> QED  BY <1>0, <1>1, <1>2, <2>1, KeepsPush, TellsPush
<1>4. CASE ~up
  <2>1. main' = q \o <<c, m>>  BY <1>4 DEF Issue, m, c
  <2>2. PICK r : r = Append(q, c)  OBVIOUS
  <2>3. r \in Seq(Messages) /\ main' = Append(r, m)  BY <1>0, <2>1, <2>2
  <2>4. Keeps(q, r, e)  BY <1>0, <1>1, <1>2, <2>2, KeepsPush
  <2>5. Keeps(r, Append(r, m), e) /\ Holds(Append(r, m), k)  BY <1>0, <1>1, <1>2, <2>3, KeepsPush, TellsPush
  <2> QED  BY <2>3, <2>4, <2>5, KeepsTwice
<1> QED  BY <1>3, <1>4

-----------------------------------------------------------------------------
(* A link is there only while the transport runs *)

LinkInv == ~running => \A e \in Endpoint : link[e] = "away"

LEMMA ViewTyped ==
    TypeInv => /\ main \in Seq(Messages) /\ out \in Seq(Events) /\ pending \in Seq(Stored)
               /\ link \in [Endpoint -> {"away", "near", "asked", "offered", "accepted", "open"}]
               /\ view \in [Endpoint -> PeerState \cup {"none"}]
               /\ Len(out) <= 1 /\ Len(copy) <= Len(out) /\ copy \in Seq(Seq(Stored))
               /\ call \in Seq({"sink", "drain", "save", "run", "begin", "halt", "clear"})
               /\ late \subseteq Endpoint /\ blind \subseteq Endpoint /\ requests \subseteq Endpoint
               /\ service \in BOOLEAN /\ sink \in BOOLEAN /\ raced \in BOOLEAN
BY DEF TypeInv, Flags, EventTypes, QueueTypes, LinkTypes

\* Starting the transport on the main thread changes no link.
LEMMA StartLinks ==
    ASSUME TypeInv, LinkInv, StartTransport \/ UNCHANGED <<runVars, link, tasks, failed>>
    PROVE  /\ link' = link
           /\ ~running' => \A e \in Endpoint : link'[e] = "away"
<1>1. CASE ~running /\ StartTransport
  <2>1. link' = [e \in Endpoint |-> "away"]  BY <1>1 DEF StartTransport, BeginTransport
  <2>2. link = [e \in Endpoint |-> "away"]  BY <1>1, ViewTyped DEF LinkInv
  <2> QED  BY <2>1, <2>2
<1>2. CASE UNCHANGED <<runVars, link, tasks, failed>>  BY <1>2 DEF LinkInv, runVars
<1> QED  BY <1>1, <1>2 DEF StartTransport

\* The message at the head of the queue is of the system.
LEMMA TakenSystem ==
    ASSUME TypeInv, NEW k, Take(k), k \in {"create", "start", "sticky", "stop", "destroy", "removed"},
           NEW e \in Endpoint
    PROVE  /\ main # <<>> /\ main[1].kind = k /\ ~IsReport(main[1], e) /\ out = <<>>
           /\ Tail(main) \in Seq(Messages)
           /\ k # "stop" => Keeps(main, Tail(main), e)
<1>1. main \in Seq(Messages) /\ main # <<>> /\ main[1].kind = k /\ out = <<>>  BY ViewTyped, TailIs DEF Take
<1>2. ~IsReport(main[1], e)  BY <1>1 DEF IsReport, Reports
<1> QED  BY <1>1, <1>2, KeepsTail, TailIs

\* The message at the head of the queue is of an endpoint.
LEMMA TakenOf ==
    ASSUME TypeInv, NEW k, NEW e \in Endpoint, NEW event, Callback(k, e, event)
    PROVE  /\ main # <<>> /\ main[1].kind = k /\ main[1].of = e /\ out = <<>> /\ main' = Tail(main)
           /\ main' \in Seq(Messages) /\ out' = event
           /\ UNCHANGED <<pending, running, adv, disc, sink, service, up, tasks, late, call, copy, app, raced,
                          view, blind>>
<1>1. main \in Seq(Messages) /\ main # <<>>  BY ViewTyped DEF Callback, Take
<1>2. Head(main) = main[1] /\ Tail(main) \in Seq(Messages)  BY <1>1, TailIs
<1> QED  BY <1>1, <1>2 DEF Callback, Take, prefVars, quietVars, eventVars

LEMMA LinkStep == ASSUME TypeInv, LinkInv, [Next]_vars  PROVE LinkInv'
<1> USE DEF runVars, nearbyVars
<1>1. CASE UNCHANGED vars  BY <1>1 DEF vars, LinkInv
<1>2. CASE Module
  <2>1. CASE SetSink \/ Drain \/ Save \/ Run \/ Clear
    BY <2>1 DEF SetSink, Drain, Save, Run, Clear, LinkInv
  <2>2. CASE Begin \/ HaltTransport
    <3>1. \A e \in Endpoint : link'[e] = "away"
      BY <2>2 DEF Begin, BeginTransport, HaltTransport, Halt
    <3> QED  BY <3>1 DEF LinkInv
  <2> QED  BY <1>2, <2>1, <2>2 DEF Module
<1>3. CASE Create \/ StartCommand \/ StickyCommand
  <2>1. StartTransport \/ UNCHANGED <<runVars, link, tasks, failed>>
    BY <1>3 DEF Create, StartCommand, StickyCommand, RestartFromService
  <2> QED  BY <2>1, StartLinks DEF LinkInv
<1>4. CASE StopCommand \/ Kill \/ Crash \/ Boot
  <2>1. \A e \in Endpoint : link'[e] = "away"  BY <1>4 DEF StopCommand, Halt, Kill, Crash, Boot, Die
  <2> QED  BY <2>1 DEF LinkInv
<1>5. CASE Destroy \/ TaskRemoved \/ Emit \/ Persist
  BY <1>5 DEF Destroy, TaskRemoved, Emit, Persist, LinkInv
<1>6. ASSUME NEW e \in Endpoint, Callbacks(e)  PROVE LinkInv'
  <2>1. UNCHANGED running /\ (UNCHANGED link \/ running)
    BY <1>6
    DEF Callbacks, Callback, EndpointFound, EndpointLost, ConnectionInitiated, ConnectionResult,
        Disconnected, PayloadReceived
  <2> QED  BY <2>1 DEF LinkInv
<1>7. CASE Listeners \/ (\E k \in {"adv", "disc"} : TransportFailed(k))
  BY <1>7 DEF Listeners, TransportStarted, RequestAnswered, TransportFailed, LinkInv
<1>8. ASSUME NEW e \in Endpoint, Answer(e) \/ Nearby(e)  PROVE LinkInv'
  <2>1. running /\ UNCHANGED running  BY <1>8 DEF Answer, Nearby, Post
  <2> QED  BY <2>1 DEF LinkInv
<1>9. CASE Open \/ Subscribe \/ CallStart \/ CallStop \/ Swipe \/ SwitchRadio
  BY <1>9 DEF Open, Subscribe, CallStart, CallStop, Swipe, SwitchRadio, appOnly, LinkInv
<1> QED
  BY <1>1, <1>2, <1>3, <1>4, <1>5, <1>6, <1>7, <1>8, <1>9 DEF Next, Main

-----------------------------------------------------------------------------
(* The calls of the provider: who listens has a sink and an empty buffer, or will have *)

Steps == {"sink", "drain", "save", "run", "begin", "halt", "clear"}

HaltsClear(c)    == \A i \in DOMAIN c : c[i] = "halt" => i + 1 \in DOMAIN c /\ c[i + 1] = "clear"
SinkFirst(c, s)  == s \/ \A i \in DOMAIN c : c[i] = "drain" => \E j \in DOMAIN c : j < i /\ c[j] = "sink"
DrainFirst(c, d) == d \/ \A i \in DOMAIN c : c[i] = "halt" => \E j \in DOMAIN c : j < i /\ c[j] = "drain"
Has(c, k)        == \E i \in DOMAIN c : c[i] = k

Attached == sink /\ pending = <<>>

CallInv ==
    /\ HaltsClear(call) /\ SinkFirst(call, sink)
    /\ ~raced => /\ DrainFirst(call, Attached)
                 /\ app = "listening" => Attached \/ Has(call, "drain")

LEMMA CallTail ==
    ASSUME NEW c \in Seq(Steps), c # <<>>
    PROVE  /\ Tail(c) \in Seq(Steps) /\ 1 \in DOMAIN c /\ Head(c) = c[1]
           /\ HaltsClear(c) => HaltsClear(Tail(c))
           /\ HaltsClear(c) /\ c[1] = "halt" => Tail(c) # <<>> /\ Head(Tail(c)) = "clear"
           /\ \A s : SinkFirst(c, s) => SinkFirst(Tail(c), s \/ c[1] = "sink")
           /\ \A d : DrainFirst(c, d) => DrainFirst(Tail(c), d \/ c[1] = "drain")
           /\ \A s : (SinkFirst(c, s) /\ c[1] = "drain") => s
           /\ \A d : (DrainFirst(c, d) /\ c[1] = "halt") => d
           /\ \A k : Has(c, k) => Has(Tail(c), k) \/ c[1] = k
<1> DEFINE t == Tail(c)
<1>1. /\ t \in Seq(Steps) /\ 1 \in DOMAIN c /\ Head(c) = c[1]
      /\ \A i \in DOMAIN t : i \in Nat /\ i + 1 \in DOMAIN c /\ t[i] = c[i + 1] /\ i > 0
      /\ \A i \in DOMAIN c : i \in Nat /\ i > 0 /\ (i # 1 => i - 1 \in DOMAIN t /\ t[i - 1] = c[i])
  OBVIOUS
<1> HIDE DEF t
<1>2. ASSUME HaltsClear(c)  PROVE HaltsClear(t)
  <2> SUFFICES ASSUME NEW i \in DOMAIN t, t[i] = "halt"  PROVE i + 1 \in DOMAIN t /\ t[i + 1] = "clear"
    BY DEF HaltsClear
  <2>1. (i + 1) + 1 \in DOMAIN c /\ c[(i + 1) + 1] = "clear" /\ i \in Nat /\ i > 0
    BY <1>1, <1>2 DEF HaltsClear
  <2>2. (i + 1) + 1 # 1 /\ ((i + 1) + 1) - 1 = i + 1  BY <2>1
  <2>3. ((i + 1) + 1) - 1 \in DOMAIN t /\ t[((i + 1) + 1) - 1] = "clear"  BY <1>1, <2>1, <2>2
  <2> QED  BY <2>2, <2>3
<1>3. ASSUME HaltsClear(c), c[1] = "halt"  PROVE t # <<>> /\ Head(t) = "clear"
  <2>0. 1 + 1 \in DOMAIN c /\ c[1 + 1] = "clear"  BY <1>1, <1>3 DEF HaltsClear
  <2>1. 2 \in DOMAIN c /\ c[2] = "clear" /\ 2 - 1 = 1  BY <2>0
  <2>2. 1 \in DOMAIN t /\ t[1] = "clear"  BY <1>1, <2>1
  <2> QED  BY <1>1, <2>2
<1>4. ASSUME NEW k, NEW l, NEW s, s \/ \A i \in DOMAIN c : c[i] = l => \E j \in DOMAIN c : j < i /\ c[j] = k
      PROVE  (s \/ c[1] = k) \/ \A i \in DOMAIN t : t[i] = l => \E j \in DOMAIN t : j < i /\ t[j] = k
  <2> SUFFICES ASSUME ~s, c[1] # k, NEW i \in DOMAIN t, t[i] = l
               PROVE \E j \in DOMAIN t : j < i /\ t[j] = k
    OBVIOUS
  <2>1. i \in Nat /\ i + 1 \in DOMAIN c /\ c[i + 1] = l  BY <1>1
  <2>2. PICK j \in DOMAIN c : j < i + 1 /\ c[j] = k  BY <1>4, <2>1
  <2>3. j # 1 /\ j \in Nat /\ j - 1 \in DOMAIN t /\ t[j - 1] = k /\ j - 1 < i  BY <1>1, <2>1, <2>2
  <2> QED  BY <2>3
<1>5. \A s : SinkFirst(c, s) => SinkFirst(t, s \/ c[1] = "sink")  BY <1>4 DEF SinkFirst
<1>6. \A d : DrainFirst(c, d) => DrainFirst(t, d \/ c[1] = "drain")  BY <1>4 DEF DrainFirst
<1>7. \A j \in DOMAIN c : ~(j < 1)  BY <1>1
<1>8. \A k : Has(c, k) => Has(t, k) \/ c[1] = k  BY <1>1 DEF Has
<1> QED  BY <1>1, <1>2, <1>3, <1>5, <1>6, <1>7, <1>8 DEF t, SinkFirst, DrainFirst

LEMMA CallPush ==
    ASSUME NEW c \in Seq(Steps), NEW s \in Seq(Steps)
    PROVE  /\ c \o s \in Seq(Steps)
           /\ HaltsClear(c) /\ HaltsClear(s) => HaltsClear(c \o s)
           /\ \A b : (SinkFirst(c, b) /\ (SinkFirst(s, b) \/ Has(c, "sink"))) => SinkFirst(c \o s, b)
           /\ \A d : (DrainFirst(c, d) /\ (DrainFirst(s, d) \/ Has(c, "drain"))) => DrainFirst(c \o s, d)
           /\ \A k : Has(c \o s, k) <=> (Has(c, k) \/ Has(s, k))
<1>1. PICK t : t = c \o s  OBVIOUS
<1>2. /\ t \in Seq(Steps) /\ Len(c) \in Nat /\ Len(s) \in Nat
      /\ \A i \in DOMAIN c : i \in Nat /\ i <= Len(c) /\ i \in DOMAIN t /\ t[i] = c[i]
      /\ \A i \in DOMAIN s : i \in Nat /\ i > 0 /\ Len(c) + i \in DOMAIN t /\ t[Len(c) + i] = s[i]
      /\ \A i \in DOMAIN t : i \in Nat /\ (i \in DOMAIN c \/ (i > Len(c) /\ i - Len(c) \in DOMAIN s))
  <2>1. /\ t \in Seq(Steps) /\ Len(t) = Len(c) + Len(s)
        /\ \A i \in 1 .. Len(c) + Len(s) : t[i] = IF i <= Len(c) THEN c[i] ELSE s[i - Len(c)]
    BY <1>1, ConcatProperties
  <2>2. /\ Len(c) \in Nat /\ Len(s) \in Nat /\ DOMAIN t = 1 .. Len(t) /\ DOMAIN c = 1 .. Len(c)
        /\ DOMAIN s = 1 .. Len(s)
    BY <2>1, LenProperties
  <2>3. \A i \in DOMAIN s : Len(c) + i \in DOMAIN t /\ t[Len(c) + i] = s[i]
    <3> SUFFICES ASSUME NEW i \in DOMAIN s  PROVE Len(c) + i \in DOMAIN t /\ t[Len(c) + i] = s[i]  OBVIOUS
    <3>1. i \in Nat /\ i > 0 /\ Len(c) + i \in 1 .. Len(c) + Len(s) /\ ~(Len(c) + i <= Len(c))
          /\ (Len(c) + i) - Len(c) = i
      BY <2>2
    <3> QED  BY <2>1, <2>2, <3>1
  <2> QED  BY <2>1, <2>2, <2>3
<1>3. \A i \in DOMAIN t : ~(i \in DOMAIN c) => i - Len(c) \in DOMAIN s /\ t[i] = s[i - Len(c)] /\ i > Len(c)
  <2> SUFFICES ASSUME NEW i \in DOMAIN t, i \notin DOMAIN c
               PROVE i - Len(c) \in DOMAIN s /\ t[i] = s[i - Len(c)] /\ i > Len(c)
    OBVIOUS
  <2>1. i - Len(c) \in DOMAIN s /\ i \in Nat /\ Len(c) + (i - Len(c)) = i /\ i > Len(c)  BY <1>2
  <2>2. t[Len(c) + (i - Len(c))] = s[i - Len(c)]  BY <1>2, <2>1
  <2> QED  BY <2>1, <2>2
<1>4. ASSUME HaltsClear(c), HaltsClear(s)  PROVE HaltsClear(t)
  <2> SUFFICES ASSUME NEW i \in DOMAIN t, t[i] = "halt"  PROVE i + 1 \in DOMAIN t /\ t[i + 1] = "clear"
    BY DEF HaltsClear
  <2>1. CASE i \in DOMAIN c  BY <1>2, <1>4, <2>1 DEF HaltsClear
  <2>2. CASE i \notin DOMAIN c
    <3>1. i - Len(c) \in DOMAIN s /\ s[i - Len(c)] = "halt" /\ i \in Nat  BY <1>2, <1>3, <2>2
    <3>2. (i - Len(c)) + 1 \in DOMAIN s /\ s[(i - Len(c)) + 1] = "clear"  BY <1>4, <3>1 DEF HaltsClear
    <3>3. Len(c) + ((i - Len(c)) + 1) = i + 1  BY <1>2, <3>1
    <3> QED  BY <1>2, <3>2, <3>3
  <2> QED  BY <2>1, <2>2
<1>5. ASSUME NEW k, NEW l,
             \A i \in DOMAIN c : c[i] = l => \E j \in DOMAIN c : j < i /\ c[j] = k,
             (\A i \in DOMAIN s : s[i] = l => \E j \in DOMAIN s : j < i /\ s[j] = k) \/ Has(c, k),
             NEW i \in DOMAIN t, t[i] = l
      PROVE  \E j \in DOMAIN t : j < i /\ t[j] = k
  <2>1. CASE i \in DOMAIN c  BY <1>2, <1>5, <2>1
  <2>2. CASE i \notin DOMAIN c /\ Has(c, k)
    <3>1. PICK j \in DOMAIN c : c[j] = k  BY <2>2 DEF Has
    <3>2. j < i /\ j \in DOMAIN t /\ t[j] = k  BY <1>2, <1>3, <2>2, <3>1
    <3> QED  BY <3>2
  <2>3. CASE i \notin DOMAIN c /\ ~Has(c, k)
    <3>1. i - Len(c) \in DOMAIN s /\ s[i - Len(c)] = l  BY <1>3, <1>5, <2>3
    <3>2. PICK j \in DOMAIN s : j < i - Len(c) /\ s[j] = k  BY <1>5, <2>3, <3>1
    <3>3. Len(c) + j \in DOMAIN t /\ t[Len(c) + j] = k /\ Len(c) + j < i  BY <1>2, <3>1, <3>2
    <3> QED  BY <3>3
  <2> QED  BY <2>1, <2>2, <2>3
<1>6. \A b : (SinkFirst(c, b) /\ (SinkFirst(s, b) \/ Has(c, "sink"))) => SinkFirst(t, b)  BY <1>5 DEF SinkFirst
<1>7. \A d : (DrainFirst(c, d) /\ (DrainFirst(s, d) \/ Has(c, "drain"))) => DrainFirst(t, d)
  BY <1>5 DEF DrainFirst
<1>8. \A k : Has(t, k) <=> (Has(c, k) \/ Has(s, k))
  <2>1. ASSUME NEW k, Has(t, k)  PROVE Has(c, k) \/ Has(s, k)
    <3>1. PICK i \in DOMAIN t : t[i] = k  BY <2>1 DEF Has
    <3> QED  BY <1>2, <1>3, <3>1 DEF Has
  <2> QED  BY <1>2, <2>1 DEF Has
<1> QED  BY <1>1, <1>2, <1>4, <1>6, <1>7, <1>8

LEMMA CallsAre ==
    /\ AttachSteps \in Seq(Steps) /\ HaltsClear(AttachSteps) /\ Has(AttachSteps, "drain")
    /\ \A b : SinkFirst(AttachSteps, b) /\ DrainFirst(AttachSteps, b)
    /\ <<"save", "run">> \in Seq(Steps) /\ HaltsClear(<<"save", "run">>)
    /\ \A b : SinkFirst(<<"save", "run">>, b) /\ DrainFirst(<<"save", "run">>, b)
    /\ <<"halt", "clear">> \in Seq(Steps) /\ HaltsClear(<<"halt", "clear">>)
    /\ \A b : SinkFirst(<<"halt", "clear">>, b) /\ (b => DrainFirst(<<"halt", "clear">>, b))
    /\ HaltsClear(<<>>) /\ \A b : SinkFirst(<<>>, b) /\ DrainFirst(<<>>, b)
<1>1. /\ AttachSteps \in Seq(Steps) /\ DOMAIN AttachSteps = {1, 2} /\ AttachSteps[1] = "sink"
      /\ AttachSteps[2] = "drain"
  BY DEF AttachSteps, Steps
<1>2. /\ HaltsClear(AttachSteps) /\ Has(AttachSteps, "drain")
      /\ \A b : SinkFirst(AttachSteps, b) /\ DrainFirst(AttachSteps, b)
  BY <1>1 DEF HaltsClear, Has, SinkFirst, DrainFirst
<1> QED  BY <1>1, <1>2 DEF HaltsClear, SinkFirst, DrainFirst, Steps

LEMMA CallStep ==
    ASSUME TypeInv, CallInv, raced' \in BOOLEAN, raced => raced', NEW k, StepIs(k),
           (k = "sink" /\ sink') \/ (k # "sink" /\ sink' = sink), pending' = pending \/ pending' = <<>>,
           k = "drain" => pending' = <<>>, app' = app
    PROVE  CallInv'
<1>1. PICK c, t : c = call /\ t = call'  OBVIOUS
<1>2. c \in Seq(Steps) /\ c # <<>> /\ t = Tail(c) /\ c[1] = k
  BY <1>1, ViewTyped, CallTail DEF StepIs, Steps
<1>3. HaltsClear(c) /\ SinkFirst(c, sink)  BY <1>1 DEF CallInv
<1>a. SinkFirst(t, sink \/ k = "sink")  BY <1>2, <1>3, CallTail
<1>4. HaltsClear(t) /\ SinkFirst(t, sink')  BY <1>2, <1>3, <1>a, CallTail DEF SinkFirst
<1>5. ASSUME ~raced'  PROVE DrainFirst(t, Attached') /\ (app' = "listening" => Attached' \/ Has(t, "drain"))
  <2>1. DrainFirst(c, Attached) /\ (app = "listening" => Attached \/ Has(c, "drain"))
    BY <1>1, <1>5 DEF CallInv
  <2>a. k = "drain" => sink  BY <1>2, <1>3, CallTail
  <2>2. Attached \/ k = "drain" => Attached'  BY <2>a DEF Attached
  <2>3. DrainFirst(t, Attached \/ k = "drain")  BY <1>2, <2>1, CallTail
  <2>4. DrainFirst(t, Attached')  BY <2>2, <2>3 DEF DrainFirst
  <2>5. Has(c, "drain") => Has(t, "drain") \/ k = "drain"  BY <1>2, CallTail
  <2> QED  BY <2>1, <2>2, <2>4, <2>5
<1> QED  BY <1>1, <1>4, <1>5 DEF CallInv

\* A start that has found the transport stopped is the next step.
LEMMA CallRun == ASSUME TypeInv, CallInv, Run  PROVE CallInv'
<1>1. PICK c, r, t : c = call /\ r = Tail(call) /\ t = call'  OBVIOUS
<1>2. /\ c \in Seq(Steps) /\ c # <<>> /\ r = Tail(c) /\ c[1] = "run"
      /\ t = r \/ t = <<"begin">> \o r
      /\ UNCHANGED <<sink, pending, raced, app>>
  BY <1>1, ViewTyped, CallTail DEF Run, Steps, prefVars, historyVars
<1>3. /\ HaltsClear(c) /\ SinkFirst(c, sink)
      /\ ~raced => DrainFirst(c, Attached) /\ (app = "listening" => Attached \/ Has(c, "drain"))
  BY <1>1 DEF CallInv
<1>a. SinkFirst(r, sink \/ c[1] = "sink") /\ (~raced => DrainFirst(r, Attached \/ c[1] = "drain"))
  BY <1>2, <1>3, CallTail
<1>4. /\ r \in Seq(Steps) /\ HaltsClear(r) /\ SinkFirst(r, sink)
      /\ ~raced => DrainFirst(r, Attached) /\ (app = "listening" => Attached \/ Has(r, "drain"))
  BY <1>2, <1>3, <1>a, CallTail DEF SinkFirst, DrainFirst
<1>5. /\ <<"begin">> \in Seq(Steps) /\ HaltsClear(<<"begin">>)
      /\ \A b : SinkFirst(<<"begin">>, b) /\ DrainFirst(<<"begin">>, b)
  BY DEF Steps, HaltsClear, SinkFirst, DrainFirst
<1>6. /\ HaltsClear(t) /\ SinkFirst(t, sink)
      /\ ~raced => DrainFirst(t, Attached) /\ (app = "listening" => Attached \/ Has(t, "drain"))
  <2>1. CASE t = r  BY <1>4, <2>1
  <2>2. CASE t # r
    <3>1. PICK b : b = <<"begin">>  OBVIOUS
    <3>2. /\ b \in Seq(Steps) /\ t = b \o r /\ HaltsClear(b)
          /\ \A d : SinkFirst(b, d) /\ DrainFirst(b, d)
      BY <1>2, <1>5, <2>2, <3>1
    <3> QED  BY <1>4, <3>2, CallPush
  <2> QED  BY <2>1, <2>2
<1> QED  BY <1>1, <1>2, <1>6 DEF CallInv, Attached

LEMMA CallFrame ==
    ASSUME CallInv, raced' \in BOOLEAN, raced => raced', UNCHANGED <<call, sink, app>>,
           ~raced' /\ sink => pending' = pending \/ pending' = <<>>
    PROVE  CallInv'
<1>1. ~raced' => (Attached => Attached')  BY DEF Attached
<1>2. \A d, f : (DrainFirst(call, d) /\ (d => f)) => DrainFirst(call, f)  BY DEF DrainFirst
<1> QED  BY <1>1, <1>2 DEF CallInv

LEMMA CallApplication ==
    ASSUME TypeInv, CallInv, Open \/ Subscribe \/ CallStart \/ CallStop \/ Swipe  PROVE CallInv'
<1> USE CallsAre DEF appOnly, historyVars, prefVars
<1>1. PICK c, t : c = call /\ t = call'  OBVIOUS
<1>2. /\ c \in Seq(Steps) /\ HaltsClear(c) /\ SinkFirst(c, sink)
      /\ ~raced => DrainFirst(c, Attached) /\ (app = "listening" => Attached \/ Has(c, "drain"))
  BY <1>1, ViewTyped DEF CallInv, Steps
<1>3. CASE Open
  <2>1. UNCHANGED <<sink, pending, raced>> /\ app' = "created" /\ (t = AttachSteps \/ t = <<>>)
    BY <1>1, <1>3 DEF Open
  <2> QED  BY <1>1, <2>1 DEF CallInv, Attached
<1>4. CASE Subscribe
  <2>1. UNCHANGED <<sink, pending, raced>> /\ t = c \o AttachSteps  BY <1>1, <1>4 DEF Subscribe
  <2>2. /\ HaltsClear(t) /\ SinkFirst(t, sink) /\ Has(t, "drain")
        /\ ~raced => DrainFirst(t, Attached)
    BY <1>2, <2>1, CallPush
  <2> QED  BY <1>1, <2>1, <2>2 DEF CallInv, Attached
<1>5. CASE CallStart
  <2>1. UNCHANGED <<sink, pending, raced, app>> /\ t = c \o AttachSteps \o <<"save", "run">>
    BY <1>1, <1>5 DEF CallStart
  <2>2. PICK r : r = c \o AttachSteps  OBVIOUS
  <2>3. /\ r \in Seq(Steps) /\ HaltsClear(r) /\ SinkFirst(r, sink) /\ Has(r, "drain")
        /\ ~raced => DrainFirst(r, Attached)
    BY <1>2, <2>2, CallPush
  <2>4. /\ HaltsClear(t) /\ SinkFirst(t, sink) /\ Has(t, "drain")
        /\ ~raced => DrainFirst(t, Attached)
    BY <2>1, <2>2, <2>3, CallPush
  <2> QED  BY <1>1, <2>1, <2>4 DEF CallInv, Attached
<1>6. CASE CallStop
  <2>1. UNCHANGED <<sink, pending, raced, app>> /\ t = c \o <<"halt", "clear">> /\ app = "listening"
    BY <1>1, <1>6 DEF CallStop
  <2>2. HaltsClear(t) /\ SinkFirst(t, sink)  BY <1>2, <2>1, CallPush
  <2>3. ~raced => DrainFirst(t, Attached) /\ (Attached \/ Has(t, "drain"))
    <3> SUFFICES ASSUME ~raced  PROVE DrainFirst(t, Attached) /\ (Attached \/ Has(t, "drain"))  OBVIOUS
    <3>1. Attached \/ Has(c, "drain")  BY <1>2, <2>1
    <3>2. Attached => DrainFirst(<<"halt", "clear">>, Attached)  OBVIOUS
    <3> QED  BY <1>2, <2>1, <3>1, <3>2, CallPush
  <2> QED  BY <1>1, <2>1, <2>2, <2>3 DEF CallInv, Attached
<1>7. CASE Swipe
  <2>1. t = <<>> /\ app' = "closed" /\ UNCHANGED raced  BY <1>1, <1>7 DEF Swipe
  <2> QED  BY <1>1, <2>1 DEF CallInv
<1> QED  BY <1>3, <1>4, <1>5, <1>6, <1>7

LEMMA CallInvStep == ASSUME TypeInv, CallInv, [Next]_vars  PROVE CallInv'
<1>0. raced' \in BOOLEAN
  <2>1. TypeInv'  BY TypeStep
  <2> QED  BY <2>1 DEF TypeInv, Flags
<1> USE DEF prefVars, historyVars, quietVars
<1>1. CASE UNCHANGED vars  BY <1>0, <1>1, CallFrame DEF vars
<1>2. CASE Module
  <2>1. CASE SetSink  BY <1>0, <2>1, CallStep DEF SetSink
  <2>2. CASE Drain  BY <1>0, <2>2, CallStep DEF Drain
  <2>3. CASE Save  BY <1>0, <2>3, CallStep DEF Save
  <2>4. CASE Run  BY <2>4, CallRun
  <2>4a. CASE Begin  BY <1>0, <2>4a, CallStep DEF Begin
  <2>5. CASE HaltTransport  BY <1>0, <2>5, CallStep DEF HaltTransport
  <2>6. CASE Clear  BY <1>0, <2>6, CallStep DEF Clear
  <2> QED  BY <1>2, <2>1, <2>2, <2>3, <2>4, <2>4a, <2>5, <2>6 DEF Module
<1>3. CASE Main
  <2>1. CASE Create \/ StartCommand \/ StickyCommand \/ Destroy \/ TaskRemoved \/ StopCommand
    BY <1>0, <2>1, CallFrame DEF Create, StartCommand, StickyCommand, Destroy, TaskRemoved, StopCommand
  <2>2. CASE \E e \in Endpoint : Callbacks(e)
    <3>1. UNCHANGED <<call, sink, app, raced, pending>>
      BY <2>2 DEF Callbacks, EndpointFound, EndpointLost, ConnectionInitiated, ConnectionResult, Disconnected,
                  PayloadReceived, Callback
    <3> QED  BY <1>0, <3>1, CallFrame
  <2>3. CASE Emit  BY <1>0, <2>3, CallFrame DEF Emit
  <2>4. CASE Persist  BY <1>0, <2>4, CallFrame DEF Persist
  <2> QED  BY <1>3, <2>1, <2>2, <2>3, <2>4 DEF Main
<1>4. CASE Listeners \/ (\E k \in {"adv", "disc"} : TransportFailed(k)) \/ (\E e \in Endpoint : Answer(e))
  BY <1>0, <1>4, CallFrame DEF Listeners, TransportStarted, RequestAnswered, TransportFailed, Answer
<1>5. CASE Open \/ Subscribe \/ CallStart \/ CallStop \/ Swipe  BY <1>5, CallApplication
<1>6. CASE Kill \/ Crash \/ Boot
  <2>1. call' = <<>> /\ app' = "closed"  BY <1>6 DEF Kill, Crash, Boot, Die
  <2> QED  BY <2>1, CallsAre DEF CallInv
<1>7. CASE SwitchRadio  BY <1>0, <1>7, CallFrame DEF SwitchRadio
<1>8. CASE \E e \in Endpoint : Nearby(e)  BY <1>0, <1>8, CallFrame DEF Nearby, Post
<1> QED  BY <1>1, <1>2, <1>3, <1>4, <1>5, <1>6, <1>7, <1>8 DEF Next

-----------------------------------------------------------------------------
(* Events that a service which is destroyed leaves in the buffer are late *)

\* Of an endpoint that is not late nothing is kept while no service lives, and nothing is
\* left for a service that is brought down.
Clean(e) ==
    /\ ~service => e \notin Owners(pending)
    /\ Holds(main, "destroy") => /\ e \notin Owners(pending) /\ e \notin requests
                                 /\ \A i \in DOMAIN out : out[i].of # e
                                 /\ copy # <<>> => e \notin Owners(Head(copy))
    /\ EndsWithout(main, e)

LateInv == (copy # <<>> => service) /\ \A e \in Endpoint \ late : Clean(e)

LEMMA OwnersOf == Owners(<<>>) = {}
BY DEF Owners

LEMMA LateFrame ==
    ASSUME LateInv, NEW e \in Endpoint, e \notin late, service => service',
           pending' = pending \/ pending' = <<>>, copy' = copy \/ copy' = <<>>,
           out' = out \/ out' = <<>>, e \in requests' => e \in requests,
           main' = main \/ Keeps(main, main', e)
    PROVE  Clean(e)'
<1>1. Clean(e)  BY DEF LateInv
<1>2. e \in Owners(pending') => e \in Owners(pending)  BY OwnersOf
<1>3. EndsWithout(main', e) /\ (Holds(main', "destroy") => Holds(main, "destroy"))
  BY <1>1 DEF Clean, Keeps
<1>4. \A i \in DOMAIN out' : i \in DOMAIN out /\ out'[i] = out[i]  OBVIOUS
<1> QED  BY <1>1, <1>2, <1>3, <1>4 DEF Clean

LEMMA LateModule == ASSUME TypeInv, LateInv, Module  PROVE LateInv'
<1> USE DEF prefVars, nearbyVars, historyVars, eventVars
<1>1. /\ late \subseteq late' /\ UNCHANGED <<service, copy, out, requests>>
      /\ pending' = pending \/ pending' = <<>>
  BY DEF Module, SetSink, Drain, Save, Run, Begin, HaltTransport, Clear
<1>2. ASSUME NEW e \in Endpoint  PROVE main' = main \/ Keeps(main, main', e)
  <2>1. CASE Save  BY <2>1, ViewTyped, KeepsIssue DEF Save, Intent
  <2>2. CASE Clear  BY <2>2, ViewTyped, KeepsIssue DEF Clear, Intent
  <2> QED  BY <2>1, <2>2 DEF Module, SetSink, Drain, Run, Begin, HaltTransport
<1> QED  BY <1>1, <1>2, LateFrame DEF LateInv

LEMMA LateIntents ==
    ASSUME TypeInv, LateInv, Create \/ StartCommand \/ StickyCommand \/ TaskRemoved  PROVE LateInv'
<1> USE DEF prefVars, quietVars, runVars, nearbyVars
<1>1. /\ UNCHANGED <<late, pending, copy, out, requests>> /\ (service => service')
  BY DEF Create, StartCommand, StickyCommand, TaskRemoved
<1>2. ASSUME NEW e \in Endpoint  PROVE Keeps(main, main', e)
  <2>1. CASE Create  BY <2>1, TakenSystem DEF Create
  <2>2. CASE StartCommand  BY <2>2, TakenSystem DEF StartCommand
  <2>3. CASE StickyCommand  BY <2>3, TakenSystem DEF StickyCommand
  <2>4. CASE TaskRemoved
    <3>1. Tail(main) \in Seq(Messages) /\ Keeps(main, Tail(main), e)  BY <2>4, TakenSystem DEF TaskRemoved
    <3>2. CASE Issue(Tail(main), "start")  BY <3>1, <3>2, KeepsIssue, KeepsTwice DEF Intent
    <3> QED  BY <2>4, <3>1, <3>2 DEF TaskRemoved
  <2> QED  BY <2>1, <2>2, <2>3, <2>4
<1> QED  BY <1>1, <1>2, LateFrame DEF LateInv

LEMMA LateDestroy == ASSUME TypeInv, LateInv, Destroy  PROVE LateInv'
<1>1. /\ UNCHANGED <<late, pending, copy, out, requests>> /\ Take("destroy") /\ main' = Tail(main)
  BY DEF Destroy, prefVars, quietVars, nearbyVars
<1>2. copy = <<>>  BY <1>1, ViewTyped DEF Take
<1>3. ASSUME NEW e \in Endpoint, e \notin late  PROVE Clean(e)'
  <2>1. Keeps(main, main', e) /\ main # <<>> /\ main[1].kind = "destroy"  BY <1>1, TakenSystem
  <2>2. Holds(main, "destroy")  BY <2>1, ViewTyped, TailIs DEF Holds
  <2>3. Clean(e)  BY <1>3 DEF LateInv
  <2> QED  BY <1>1, <2>1, <2>2, <2>3 DEF Clean, Keeps
<1> QED  BY <1>1, <1>2, <1>3 DEF LateInv

LEMMA LateStop == ASSUME TypeInv, LateInv, StopCommand  PROVE LateInv'
<1>1. /\ pending' = <<>> /\ Take("stop") /\ UNCHANGED <<service, copy, out, requests>>
      /\ late' = late \cup Stale \cup {e \in Endpoint : link[e] # "away"}
      /\ main' = Tail(main) \/ main' = Append(Tail(main), Message("destroy"))
  BY DEF StopCommand
<1>2. copy = <<>> /\ out = <<>> /\ main # <<>>  BY <1>1, ViewTyped DEF Take
<1>3. ASSUME NEW e \in Endpoint, e \notin late'  PROVE Clean(e)'
  <2>1. e \notin Stale  BY <1>1, <1>3
  <2>2. e \notin requests /\ \A i \in DOMAIN main : main[i].of # e
    BY <2>1, NearbyAssumption DEF Stale
  <2>3. Message("destroy") \in Messages /\ Message("destroy").of # e
    BY NearbyAssumption DEF Message, Messages
  <2>4. \A i \in DOMAIN Tail(main) : Tail(main)[i].of # e
    <3> SUFFICES ASSUME NEW i \in DOMAIN Tail(main)  PROVE Tail(main)[i].of # e  OBVIOUS
    <3>1. i + 1 \in DOMAIN main /\ Tail(main)[i] = main[i + 1]  BY <1>2, ViewTyped, TailIs
    <3> QED  BY <2>2, <3>1
  <2>5. \A i \in DOMAIN main' : main'[i].of # e
    <3>1. CASE main' = Append(Tail(main), Message("destroy"))
      <4>1. PICK q, m : q = Tail(main) /\ m = Message("destroy")  OBVIOUS
      <4>2. q \in Seq(Messages)  BY <1>2, <4>1, ViewTyped, TailIs
      <4>3. \A i \in DOMAIN Append(q, m) : Append(q, m)[i] = m \/ (i \in DOMAIN q /\ Append(q, m)[i] = q[i])
        BY <2>3, <4>1, <4>2, PushIs
      <4> QED  BY <2>3, <2>4, <3>1, <4>1, <4>3
    <3> QED  BY <1>1, <2>4, <3>1
  <2>6. EndsWithout(main', e)  BY <2>5 DEF EndsWithout
  <2> QED  BY <1>1, <1>2, <2>2, <2>6, OwnersOf DEF Clean
<1> QED  BY <1>1, <1>2, <1>3 DEF LateInv

LEMMA LateCallbacks == ASSUME TypeInv, LateInv, NEW f \in Endpoint, Callbacks(f)  PROVE LateInv'
<1>1. PICK k, event : Callback(k, f, event) /\ \A i \in DOMAIN event : event[i].of = f
  <2>1. \A k : \A i \in DOMAIN Tell(k, f) : Tell(k, f)[i].of = f  BY DEF Tell
  <2>2. \A i \in DOMAIN <<>> : FALSE  OBVIOUS
  <2> QED  BY <2>1, <2>2 DEF Callbacks, EndpointFound, EndpointLost, ConnectionInitiated, ConnectionResult,
                             Disconnected, PayloadReceived
<1>2. /\ main # <<>> /\ main[1].of = f /\ main' = Tail(main) /\ out' = event /\ out = <<>>
      /\ UNCHANGED <<pending, service, late, copy>>
  BY <1>1, TakenOf
<1>3. requests' \subseteq requests \cup {f}
  BY DEF Callbacks, EndpointFound, EndpointLost, ConnectionInitiated, ConnectionResult, Disconnected,
         PayloadReceived
<1>4. ASSUME NEW e \in Endpoint, e \notin late  PROVE Clean(e)'
  <2>1. Clean(e)  BY <1>4 DEF LateInv
  <2>2. EndsWithout(main', e) /\ (Holds(main', "destroy") => Holds(main, "destroy"))
        /\ (e = f => ~Holds(main', "destroy"))
    BY <1>2, <2>1, ViewTyped, TellsTail DEF Clean
  <2> QED  BY <1>1, <1>2, <1>3, <2>1, <2>2 DEF Clean
<1> QED  BY <1>2, <1>4 DEF LateInv

LEMMA LateEmit == ASSUME TypeInv, LateInv, Emit \/ Persist  PROVE LateInv'
<1>1. UNCHANGED <<late, main, requests, service>>  BY DEF Emit, Persist, nearbyVars
<1>2. CASE Emit
  <2>1. /\ out # <<>> /\ copy = <<>> /\ UNCHANGED pending
        /\ (out' = Tail(out) /\ copy' = copy) \/ (out' = out /\ copy' = <<pending>> /\ service)
    BY <1>2, ViewTyped DEF Emit, prefVars
  <2>2. Tail(out) = <<>>  BY <2>1, ViewTyped
  <2>3. copy' # <<>> => copy' = <<pending>> /\ Head(copy') = pending /\ service  BY <2>1
  <2>4. \A i \in DOMAIN out' : i \in DOMAIN out /\ out'[i] = out[i]  BY <2>1, <2>2
  <2>5. ASSUME NEW e \in Endpoint, e \notin late  PROVE Clean(e)'
    BY <1>1, <2>1, <2>3, <2>4, <2>5 DEF LateInv, Clean
  <2> QED  BY <1>1, <2>3, <2>5 DEF LateInv
<1>3. CASE Persist
  <2>1. /\ copy # <<>> /\ out' = Tail(out) /\ copy' = <<>>
        /\ pending' = Newest(Append(Head(copy), Numbered))
    BY <1>3 DEF Persist
  <2>2. Tail(out) = <<>> /\ out # <<>> /\ 1 \in DOMAIN out /\ Head(out) = out[1] /\ service
    BY <2>1, ViewTyped DEF LateInv
  <2>3. PICK p, x : p = Head(copy) /\ x = Numbered  OBVIOUS
  <2>4. p \in Seq(Stored) /\ x \in Stored /\ x.event = out[1]
    BY <2>1, <2>2, <2>3, ViewTyped, NumberedIs DEF Numbered
  <2>5. Owners(Newest(Append(p, x))) \subseteq Owners(p) \cup {out[1].of}
    <3>1. PICK s : s = Append(p, x)  OBVIOUS
    <3>2. /\ s \in Seq(Stored) /\ s # <<>>
          /\ \A i \in DOMAIN s : s[i] = x \/ (i \in DOMAIN p /\ s[i] = p[i])
      BY <2>4, <3>1
    <3>3. Owners(s) \subseteq Owners(p) \cup {out[1].of}  BY <2>4, <3>2 DEF Owners
    <3>4. \A i \in DOMAIN Tail(s) : i + 1 \in DOMAIN s /\ Tail(s)[i] = s[i + 1]  BY <3>2
    <3>5. Owners(Tail(s)) \subseteq Owners(s)  BY <3>4 DEF Owners
    <3> QED  BY <3>1, <3>3, <3>5 DEF Newest
  <2>6. ASSUME NEW e \in Endpoint, e \notin late  PROVE Clean(e)'
    BY <1>1, <2>1, <2>2, <2>3, <2>5, <2>6 DEF LateInv, Clean
  <2> QED  BY <1>1, <2>1, <2>6 DEF LateInv
<1> QED  BY <1>2, <1>3

\* The next process starts with intents only.
LEMMA FirstMessages ==
    ASSUME TypeInv, NEW q, q \in {Revived, Booted, <<>>}
    PROVE  /\ q \in Seq(Messages) /\ \A i \in DOMAIN q : q[i].kind \in {"create", "sticky", "start", "stop"}
           /\ ~Holds(q, "destroy")
           /\ \A e \in Endpoint : Reported(q, e) = {} /\ Tells(q, e, FALSE) /\ EndsWithout(q, e)
<1>1. q \in Seq(Messages) /\ \A i \in DOMAIN q : q[i].kind \in {"create", "sticky", "start", "stop"}
  <2>1. CASE q = <<>>  BY <2>1
  <2>2. CASE q = Booted  BY <2>2 DEF Booted, Message, Messages, Intent
  <2>3. CASE q = Reissued(main)
    <3>1. q \in Seq(Messages) /\ q[1].kind = "create"  BY <2>3, ViewTyped, ReissuedIs
    <3>2. \A i \in DOMAIN q : i # 1 => q[i].kind \in Intent \/ q[i].kind = "sticky"
      BY <2>3, ViewTyped, ReissuedKinds
    <3> QED  BY <3>1, <3>2 DEF Intent
  <2>4. Revived = <<>> \/ Revived = Reissued(main)  BY DEF Revived, Reissued, Create1
  <2> QED  BY <2>1, <2>2, <2>3, <2>4
<1>2. \A e : Reported(q, e) = {}  BY <1>1 DEF Reported, IsReport, Reports
<1> QED  BY <1>1, <1>2 DEF Holds, Tells, LastOf, EndsWithout

LEMMA LateDies == ASSUME TypeInv, LateInv, Kill \/ Crash \/ Boot  PROVE LateInv'
<1>1. PICK q \in {Revived, Booted, <<>>} : Die(q)  BY DEF Kill, Crash, Boot, Booted
<1>2. /\ copy' = <<>> /\ main' = q /\ late' = Owners(pending) /\ UNCHANGED pending
  BY <1>1 DEF Die, prefVars
<1>3. ~Holds(main', "destroy") /\ \A e \in Endpoint : EndsWithout(main', e)  BY <1>2, FirstMessages
<1> QED  BY <1>2, <1>3 DEF LateInv, Clean

LEMMA LateNearby == ASSUME TypeInv, LateInv, NEW f \in Endpoint, Nearby(f)  PROVE LateInv'
<1>1. PICK k, from, to : Post(k, f, from, to)
                         /\ k \in {"found", "initiated", "result", "refused", "payload", "disconnected", "gone"}
  BY DEF Nearby
<1>2. PICK m : m = [kind |-> k, of |-> f]  OBVIOUS
<1>3. /\ m \in Messages /\ m.kind # "destroy" /\ main' = Append(main, m)
      /\ UNCHANGED <<pending, service, out, copy, requests, late>>
  BY <1>1, <1>2 DEF Post, Messages, prefVars, historyVars
<1>4. ASSUME NEW e \in Endpoint, e \notin late  PROVE Clean(e)'
  <2>1. Clean(e)  BY <1>4 DEF LateInv
  <2>2. EndsWithout(main', e) /\ (Holds(main', "destroy") => Holds(main, "destroy"))
    BY <1>3, <2>1, ViewTyped, TellsPush DEF Clean
  <2> QED  BY <1>3, <2>1, <2>2 DEF Clean
<1> QED  BY <1>3, <1>4 DEF LateInv

\* The listener of a request tells of its endpoint; one that is not late was asked by the
\* service that lives.
LEMMA LateListeners ==
    ASSUME TypeInv, LateInv, Listeners \/ (\E k \in {"adv", "disc"} : TransportFailed(k))
    PROVE  LateInv'
<1> USE DEF prefVars, quietVars
<1>1. CASE \E k \in {"adv", "disc"} : TransportStarted(k) \/ TransportFailed(k)
  BY <1>1, LateFrame DEF TransportStarted, TransportFailed, LateInv
<1>2. ASSUME NEW f \in Endpoint, RequestAnswered(f)  PROVE LateInv'
  <2>1. /\ f \in requests /\ requests' = requests \ {f} /\ late \subseteq late'
        /\ out' = Tell("connecting", f) \/ out' = Tell("rejected", f)
        /\ UNCHANGED <<pending, service, main, copy>>
    BY <1>2 DEF RequestAnswered
  <2>2. \A i \in DOMAIN out' : out'[i].of = f  BY <2>1 DEF Tell
  <2>3. ASSUME NEW e \in Endpoint, e \notin late'  PROVE Clean(e)'
    <3>1. Clean(e)  BY <2>1, <2>3 DEF LateInv
    <3> QED  BY <2>1, <2>2, <3>1 DEF Clean
  <2> QED  BY <2>1, <2>3 DEF LateInv
<1> QED  BY <1>1, <1>2 DEF Listeners

LEMMA LateStep == ASSUME TypeInv, LateInv, [Next]_vars  PROVE LateInv'
<1> USE DEF prefVars, historyVars, nearbyVars, appOnly
<1>1. CASE UNCHANGED vars  BY <1>1, LateFrame DEF vars, LateInv
<1>2. CASE Main  BY <1>2, LateIntents, LateDestroy, LateStop, LateCallbacks, LateEmit DEF Main
<1>3. CASE \E e \in Endpoint : Answer(e)  BY <1>3, LateFrame DEF Answer, LateInv
<1>4. CASE Open \/ Subscribe \/ CallStart \/ CallStop
  BY <1>4, LateFrame DEF Open, Subscribe, CallStart, CallStop, LateInv
<1>5. CASE Swipe
  <2>1. UNCHANGED <<late, pending, copy, out, requests, service>>  BY <1>5 DEF Swipe
  <2>2. ASSUME NEW e \in Endpoint  PROVE Keeps(main, main', e) \/ main' = main
    <3>1. Message("removed") \in Messages /\ Message("removed").kind = "removed"  BY DEF Message, Messages
    <3>2. ~IsReport(Message("removed"), e)  BY <3>1 DEF IsReport, Reports
    <3>3. Keeps(main, Append(main, Message("removed")), e)  BY <3>1, <3>2, ViewTyped, KeepsPush
    <3> QED  BY <1>5, <3>3 DEF Swipe
  <2> QED  BY <2>1, <2>2, LateFrame DEF LateInv
<1>6. CASE SwitchRadio  BY <1>6, LateFrame DEF SwitchRadio, LateInv
<1> QED  BY <1>1, <1>2, <1>3, <1>4, <1>5, <1>6, LateModule, LateListeners, LateDies, LateNearby DEF Next

-----------------------------------------------------------------------------
(* What is known of an endpoint, from Nearby to the provider, ends with whether it is connected *)

\* The event that is being emitted is about e.
Telling(e) == out # <<>> /\ out[1].of = e /\ out[1].kind \in PeerState

Linked(e) == link[e] = "open"
Shows(e)  == Linked(e) /\ e \notin masked

\* What may be said of an endpoint, and what must be.
Fits(kind, may, must) == (kind = "connected" => may) /\ (must => kind = "connected")

KeptTells(p, e, may, must) ==
    \A i \in DOMAIN p : LastOf(About(p, e), i) => Fits(p[i].event.kind, may, must)

Clears == call # <<>> /\ Head(call) = "clear"

\* The provider sees what Nearby knows, but for the step that empties its list and for the stop
\* that its call has issued.
Views(e) ==
    /\ (view[e] = "connected" /\ ~Linked(e)) => Clears
    /\ (view[e] # "connected" /\ Shows(e)) => Holds(main, "stop")

\* The newest word on e, be it still with the main thread, emitted, kept or heard.
Word(e) ==
    /\ Telling(e) => Fits(out[1].kind, Linked(e), Shows(e))
    /\ ~Telling(e) => /\ KeptTells(pending, e, Linked(e), Shows(e))
                      /\ (About(pending, e) = {} /\ e \notin blind /\ app # "closed") => Views(e)

Matched(e) == Tells(main, e, link[e] = "open") /\ (Reported(main, e) = {} => Word(e))

MatchedInv == ~raced => \A e \in Endpoint \ late : Matched(e)

\* r reports the same of e as q.
Says(q, r, e) ==
    /\ Reported(q, e) = {} <=> Reported(r, e) = {}
    /\ \A open \in BOOLEAN : Tells(q, e, open) => Tells(r, e, open)
    /\ Holds(q, "stop") => Holds(r, "stop")

LEMMA SaysKept == ASSUME NEW q, NEW r, NEW e, Keeps(q, r, e) \/ r = q  PROVE Says(q, r, e)
BY DEF Keeps, Says

LEMMA EmptyAbout == /\ \A e : About(<<>>, e) = {}
                    /\ \A e, may, must : KeptTells(<<>>, e, may, must)
BY DEF About, KeptTells

LEMMA OwnedAbout == \A p, e : e \notin Owners(p) => 
           About(p, e) = {} /\ \A may, must : KeptTells(p, e, may, must)
BY DEF About, Owners, KeptTells, LastOf

LEMMA MatchedFrame ==
    ASSUME NEW e \in Endpoint, Matched(e), Says(main, main', e),
           link'[e] = "open" <=> link[e] = "open", e \in masked => e \in masked',
           Telling(e)' <=> Telling(e), Telling(e)' => out' = out,
           pending' = pending, e \in blind => e \in blind', view'[e] = view[e],
           app' # "closed" => app # "closed", Clears => Clears'
    PROVE  Matched(e)'
<1>1. PICK o \in BOOLEAN : (o <=> link[e] = "open") /\ (o <=> link'[e] = "open")  OBVIOUS
<1>2. Tells(main', e, link'[e] = "open")
  <2>1. Tells(main, e, o)  BY <1>1 DEF Matched, Tells
  <2>2. Tells(main', e, o)  BY <2>1 DEF Says
  <2> QED  BY <1>1, <2>2 DEF Tells
<1>l. (Linked(e)' <=> Linked(e)) /\ (Shows(e)' => Shows(e))  BY DEF Linked, Shows
<1>3. ASSUME Reported(main', e) = {}  PROVE Word(e)'
  <2>1. Word(e)  BY <1>3 DEF Matched, Says
  <2>2. Telling(e)' => Fits(out'[1].kind, Linked(e)', Shows(e)')  BY <1>l, <2>1 DEF Word, Fits
  <2>3. ASSUME ~Telling(e)'  PROVE KeptTells(pending', e, Linked(e)', Shows(e)')
    BY <1>l, <2>1, <2>3 DEF Word, KeptTells, Fits
  <2>4. ASSUME ~Telling(e)', About(pending', e) = {}, e \notin blind', app' # "closed"  PROVE Views(e)'
    <3>1. Views(e)  BY <2>1, <2>4 DEF Word
    <3> QED  BY <1>l, <3>1 DEF Views, Says
  <2> QED  BY <2>2, <2>3, <2>4 DEF Word
<1> QED  BY <1>2, <1>3 DEF Matched

\* The kind of the last word about e is what is seen of it.
LEMMA SeenLast ==
    ASSUME NEW p \in Seq(Stored), NEW e \in Endpoint, NEW may \in BOOLEAN, NEW must \in BOOLEAN,
           KeptTells(p, e, may, must), About(p, e) # {}
    PROVE  Fits(Seen(p)[e], may, must)
<1>1. About(p, e) \in SUBSET (1 .. Len(p)) /\ Len(p) \in Nat  BY DEF About
<1>2. \E i \in About(p, e) : \A j \in About(p, e) : j <= i  BY <1>1, Greatest
<1>3. PICK i : i = CHOOSE k \in About(p, e) : \A j \in About(p, e) : j <= k  OBVIOUS
<1>4. i \in About(p, e) /\ \A j \in About(p, e) : j <= i  BY <1>2, <1>3
<1>5. Seen(p)[e] = p[i].event.kind  BY <1>3 DEF Seen
<1>6. i \in DOMAIN p /\ LastOf(About(p, e), i)  BY <1>4 DEF About, LastOf
<1> QED  BY <1>5, <1>6 DEF KeptTells

LEMMA MatchedDrain ==
    ASSUME TypeInv, CallInv, MatchedInv, Drain, ~raced', NEW e \in Endpoint, e \notin late  PROVE Matched(e)'
<1>1. /\ ~raced /\ UNCHANGED <<main, out, link, app, masked>> /\ ToSink(pending) /\ pending' = <<>>
      /\ ~Clears
  BY DEF Drain, StepIs, nearbyVars, Clears
<1>2. Matched(e)  BY <1>1 DEF MatchedInv
<1>3. (Telling(e)' <=> Telling(e)) /\ (Linked(e)' <=> Linked(e)) /\ (Shows(e)' <=> Shows(e))
  BY <1>1 DEF Telling, Linked, Shows
<1>4. ASSUME Reported(main, e) = {}, ~Telling(e), e \notin blind', app # "closed"  PROVE Views(e)'
  <2>1. Word(e)  BY <1>2, <1>4 DEF Matched
  <2>2. CASE About(pending, e) = {}
    <3>1. e \notin blind /\ view'[e] = view[e]  BY <1>1, <1>4, <2>2 DEF ToSink, Seen, Forget
    <3>2. Views(e)  BY <1>4, <2>1, <2>2, <3>1 DEF Word
    <3> QED  BY <1>1, <1>3, <3>1, <3>2 DEF Views
  <2>3. CASE About(pending, e) # {}
    <3>1. app = "listening"  BY <1>1, <1>4, <2>3, OwnedAbout DEF ToSink, Forget
    <3>2. view' = Seen(pending)  BY <1>1, <3>1 DEF ToSink
    <3>3. PICK o, m \in BOOLEAN : (o <=> Linked(e)) /\ (m <=> Shows(e))  OBVIOUS
    <3>4. KeptTells(pending, e, o, m)  BY <1>4, <2>1, <3>3 DEF Word, KeptTells, Fits
    <3>5. Fits(Seen(pending)[e], o, m)  BY <2>3, <3>4, SeenLast, ViewTyped
    <3> QED  BY <1>1, <1>3, <3>2, <3>3, <3>5 DEF Views, Fits
  <2> QED  BY <2>2, <2>3
<1>5. ASSUME Reported(main, e) = {}  PROVE Word(e)'
  <2>1. Word(e)  BY <1>2, <1>5 DEF Matched
  <2> QED  BY <1>1, <1>3, <1>4, <1>5, <2>1, EmptyAbout DEF Word, Fits
<1> QED  BY <1>1, <1>2, <1>5 DEF Matched

\* No callback, answer or event is to come for an endpoint that is not stale.
LEMMA StaleOf ==
    ASSUME NEW e \in Endpoint, e \notin Stale
    PROVE  /\ \A i \in DOMAIN main : main[i].of # e
           /\ Reported(main, e) = {} /\ \A open : Tells(main, e, open)
           /\ \A i \in DOMAIN out : out[i].of # e
<1>1. \A i \in DOMAIN main : main[i].of # e  BY NearbyAssumption DEF Stale
<1>2. \A i \in DOMAIN out : out[i].of # e  BY DEF Stale
<1>3. Reported(main, e) = {}  BY <1>1 DEF Reported, IsReport
<1> QED  BY <1>1, <1>2, <1>3 DEF Tells, LastOf

LEMMA MatchedHalt ==
    ASSUME TypeInv, CallInv, MatchedInv, HaltTransport, ~raced', NEW e \in Endpoint, e \notin late'
    PROVE  Matched(e)'
<1>1. /\ ~raced /\ UNCHANGED <<main, out, pending, view, blind, app>> /\ StepIs("halt")
      /\ e \notin late /\ e \notin Stale /\ link'[e] = "away" /\ ~Linked(e)'
  BY DEF HaltTransport, Halt, prefVars, eventVars, Linked
<1>2. call \in Seq(Steps) /\ call # <<>> /\ call[1] = "halt" /\ call' = Tail(call)
  BY <1>1, ViewTyped, CallTail DEF StepIs, Steps
<1>3. HaltsClear(call) /\ DrainFirst(call, Attached)  BY <1>1 DEF CallInv
<1>4. pending = <<>> /\ Clears'  BY <1>2, <1>3, CallTail DEF Attached, Clears
<1>5. Reported(main, e) = {} /\ Tells(main, e, link'[e] = "open") /\ ~Telling(e)'
  <2>1. out # <<>> => 1 \in DOMAIN out  BY ViewTyped
  <2> QED  BY <1>1, <2>1, StaleOf DEF Telling
<1> QED  BY <1>1, <1>4, <1>5, EmptyAbout DEF Matched, Word, Views, Shows

LEMMA MatchedClear ==
    ASSUME TypeInv, MatchedInv, Clear, ~raced', NEW e \in Endpoint, e \notin late  PROVE Matched(e)'
<1>1. /\ ~raced /\ UNCHANGED <<out, link, app, masked>> /\ pending' = <<>> /\ view'[e] = "none"
      /\ Issue(main, "stop")
  BY DEF Clear, nearbyVars
<1>2. Matched(e)  BY <1>1 DEF MatchedInv
<1>3. Keeps(main, main', e) /\ Holds(main', "stop")  BY <1>1, ViewTyped, KeepsIssue DEF Intent
<1>4. Tells(main', e, link'[e] = "open") /\ (Reported(main', e) = {} => Reported(main, e) = {})
  <2>1. PICK o \in BOOLEAN : o <=> link[e] = "open"  OBVIOUS
  <2>2. Tells(main, e, o)  BY <1>2, <2>1 DEF Matched, Tells
  <2> QED  BY <1>1, <1>3, <2>1, <2>2 DEF Keeps, Tells
<1>5. ASSUME Reported(main', e) = {}  PROVE Word(e)'
  <2>1. Word(e)  BY <1>2, <1>4, <1>5 DEF Matched
  <2>2. (Telling(e)' <=> Telling(e)) /\ (Linked(e)' <=> Linked(e)) /\ (Shows(e)' <=> Shows(e))
    BY <1>1 DEF Telling, Linked, Shows
  <2>3. Views(e)'  BY <1>1, <1>3 DEF Views
  <2> QED  BY <1>1, <2>1, <2>2, <2>3, EmptyAbout DEF Word, Fits
<1> QED  BY <1>4, <1>5 DEF Matched

LEMMA MatchedModule ==
    ASSUME TypeInv, LinkInv, CallInv, MatchedInv, Module, ~raced', NEW e \in Endpoint, e \notin late'
    PROVE  Matched(e)'
<1> USE DEF prefVars, nearbyVars, eventVars, runVars
<1>1. e \notin late /\ ~raced
  <2>1. SetSink \/ Save \/ Run => UNCHANGED <<late, raced>>  BY DEF SetSink, Save, Run, historyVars
  <2>2. Begin \/ HaltTransport => late \subseteq late' /\ UNCHANGED raced  BY DEF Begin, HaltTransport
  <2>3. Drain \/ Clear => UNCHANGED late /\ (raced => raced')  BY ViewTyped DEF Drain, Clear
  <2> QED  BY <2>1, <2>2, <2>3 DEF Module
<1>2. Matched(e)  BY <1>1 DEF MatchedInv
<1>3. CASE SetSink \/ Save \/ Run \/ Begin
  <2>1. UNCHANGED <<out, pending, blind, view, app, masked>> /\ ~Clears
    BY <1>3 DEF SetSink, Save, Run, Begin, StepIs, Clears, historyVars
  <2>2. Says(main, main', e)
    <3>1. CASE Save  BY <3>1, ViewTyped, KeepsIssue, SaysKept DEF Save, Intent
    <3> QED  BY <1>3, <3>1, SaysKept DEF SetSink, Run, Begin
  <2>3. link'[e] = link[e]
    <3>1. Begin => link[e] = "away" /\ link'[e] = "away"  BY DEF Begin, BeginTransport
    <3> QED  BY <1>3, <3>1 DEF SetSink, Save, Run
  <2>4. Telling(e)' <=> Telling(e)  BY <2>1 DEF Telling
  <2> QED  BY <1>2, <2>1, <2>2, <2>3, <2>4, MatchedFrame
<1> QED  BY <1>1, <1>3, MatchedDrain, MatchedHalt, MatchedClear DEF Module

LEMMA MatchedIntents ==
    ASSUME TypeInv, LinkInv, MatchedInv, Create \/ StartCommand \/ StickyCommand \/ Destroy \/ TaskRemoved,
           ~raced', NEW e \in Endpoint, e \notin late'
    PROVE  Matched(e)'
<1> USE DEF prefVars, quietVars, runVars, nearbyVars, eventVars
<1>1. UNCHANGED <<late, pending, out, blind, view, app, raced, call, masked>>
  BY DEF Create, StartCommand, StickyCommand, Destroy, TaskRemoved
<1>2. Matched(e)  BY <1>1 DEF MatchedInv
<1>3. Keeps(main, main', e)
  <2>1. CASE Create  BY <2>1, TakenSystem DEF Create
  <2>2. CASE StartCommand  BY <2>2, TakenSystem DEF StartCommand
  <2>3. CASE StickyCommand  BY <2>3, TakenSystem DEF StickyCommand
  <2>4. CASE Destroy  BY <2>4, TakenSystem DEF Destroy
  <2>5. CASE TaskRemoved
    <3>1. Tail(main) \in Seq(Messages) /\ Keeps(main, Tail(main), e)  BY <2>5, TakenSystem DEF TaskRemoved
    <3>2. CASE Issue(Tail(main), "start")  BY <3>1, <3>2, KeepsIssue, KeepsTwice DEF Intent
    <3> QED  BY <2>5, <3>1, <3>2 DEF TaskRemoved
  <2> QED  BY <2>1, <2>2, <2>3, <2>4, <2>5
<1>4. link' = link
  <2>1. CASE Create \/ StickyCommand
    <3>1. StartTransport \/ UNCHANGED <<runVars, link, tasks, failed>>
      BY <2>1 DEF Create, StickyCommand, RestartFromService
    <3> QED  BY <3>1, StartLinks
  <2>2. CASE StartCommand  BY <2>2, StartLinks DEF StartCommand
  <2> QED  BY <2>1, <2>2 DEF Destroy, TaskRemoved
<1>5. (Telling(e)' <=> Telling(e)) /\ (Clears => Clears')  BY <1>1 DEF Telling, Clears
<1> QED  BY <1>1, <1>2, <1>3, <1>4, <1>5, SaysKept, MatchedFrame

LEMMA MatchedStop ==
    ASSUME TypeInv, MatchedInv, StopCommand, ~raced', NEW e \in Endpoint, e \notin late'  PROVE Matched(e)'
<1>1. /\ pending' = <<>> /\ Take("stop") /\ UNCHANGED <<out, view, call, app, raced>>
      /\ e \notin late /\ e \notin Stale /\ link[e] = "away" /\ link'[e] = "away"
      /\ blind' = blind \cup Owners(pending)
      /\ main' = Tail(main) \/ main' = Append(Tail(main), Message("destroy"))
  BY DEF StopCommand, Halt, Forget
<1>2. out = <<>> /\ main # <<>>  BY <1>1 DEF Take
<1>3. Matched(e)  BY <1>1 DEF MatchedInv
<1>4. Reported(main, e) = {} /\ ~Telling(e)  BY <1>1, <1>2, StaleOf DEF Telling
<1>5. Reported(main', e) = {}
  <2>1. Tail(main) \in Seq(Messages) /\ Reported(Tail(main), e) = {}
    BY <1>1, <1>4, TakenSystem, TellsTail, ViewTyped
  <2>2. Message("destroy") \in Messages /\ ~IsReport(Message("destroy"), e)
    BY DEF Message, Messages, IsReport, Reports
  <2>3. Reported(Append(Tail(main), Message("destroy")), e) = {}  BY <2>1, <2>2, TellsPush
  <2> QED  BY <1>1, <2>1, <2>3
<1>6. (e \notin blind' /\ app # "closed") => (view[e] = "connected" => Clears)
  BY <1>1, <1>3, <1>4, OwnedAbout DEF Matched, Word, Views, Linked
<1>7. Word(e)'  BY <1>1, <1>2, <1>6, EmptyAbout DEF Word, Views, Telling, Clears, Linked, Shows
<1> QED  BY <1>5, <1>7 DEF Matched, Tells, LastOf

\* The event of a callback about e, and whether it is of a report.
LEMMA MatchedReport ==
    ASSUME TypeInv, MatchedInv, ~raced, NEW e \in Endpoint, e \notin late, NEW k, NEW told,
           Callback(k, e, Tell(told, e)), k \in Reports, told \in PeerState, k = "result" <=> told = "connected",
           link' = link
    PROVE  Matched(e)'
<1>1. /\ main # <<>> /\ main[1].kind = k /\ main[1].of = e /\ main' = Tail(main)
      /\ out' = Tell(told, e)
  BY TakenOf
<1>2. IsReport(main[1], e) /\ Tells(main, e, link[e] = "open")  BY <1>1 DEF IsReport, MatchedInv, Matched
<1>3. /\ Tells(main', e, link[e] = "open")
      /\ Reported(main', e) = {} => (k = "result" <=> link[e] = "open")
  BY <1>1, <1>2, ViewTyped, TellsTail
<1>4. Telling(e)' /\ out'[1].kind = told  BY <1>1 DEF Telling, Tell
<1> QED  BY <1>3, <1>4 DEF Matched, Word, Fits, Linked, Shows

LEMMA MatchedCallbacks ==
    ASSUME TypeInv, LinkInv, MatchedInv, NEW f \in Endpoint, Callbacks(f), ~raced',
           NEW e \in Endpoint, e \notin late'
    PROVE  Matched(e)'
<1>1. PICK k, event : /\ Callback(k, f, event) /\ \A i \in DOMAIN event : event[i].of = f
                      /\ k \in {"found", "initiated", "result", "refused", "payload", "disconnected", "gone"}
  <2>1. \A k : \A i \in DOMAIN Tell(k, f) : Tell(k, f)[i].of = f  BY DEF Tell
  <2>2. \A i \in DOMAIN <<>> : FALSE  OBVIOUS
  <2> QED  BY <2>1, <2>2 DEF Callbacks, EndpointFound, EndpointLost, ConnectionInitiated, ConnectionResult,
                             Disconnected, PayloadReceived
<1>2. /\ main # <<>> /\ main[1].kind = k /\ main[1].of = f /\ main' = Tail(main) /\ out' = event /\ out = <<>>
      /\ UNCHANGED <<pending, late, raced, view, blind, app, call>>
  BY <1>1, TakenOf
<1>3. Matched(e)  BY <1>2 DEF MatchedInv
<1>4. ~IsReport(main[1], e) => Says(main, main', e)
  BY <1>1, <1>2, KeepsTail, SaysKept, ViewTyped
<1>5. link'[e] = "open" <=> link[e] = "open"
  BY ViewTyped DEF Callbacks, EndpointFound, EndpointLost, ConnectionInitiated, ConnectionResult,
                   Disconnected, PayloadReceived
<1>6. ASSUME ~Telling(e)', ~IsReport(main[1], e)  PROVE Matched(e)'
  <2>1. ~Telling(e) /\ (Clears => Clears')  BY <1>2 DEF Telling, Clears
  <2>2. e \in masked => e \in masked'
    <3>1. CASE EndpointFound(f) \/ EndpointLost(f) \/ ConnectionInitiated(f) \/ PayloadReceived(f)
      BY <3>1 DEF EndpointFound, EndpointLost, ConnectionInitiated, PayloadReceived
    <3>2. CASE ConnectionResult(f) \/ Disconnected(f)
      <4>1. k \in {"result", "refused", "disconnected"}
        <5>1. \E j \in {"result", "refused", "disconnected"} : \E x : Callback(j, f, x)
          BY <3>2 DEF ConnectionResult, Disconnected
        <5> QED  BY <1>2, <5>1, TakenOf
      <4>2. e # f  BY <1>2, <1>6, <4>1 DEF IsReport, Reports
      <4> QED  BY <3>2, <4>2 DEF ConnectionResult, Disconnected
    <3> QED  BY <3>1, <3>2 DEF Callbacks
  <2> QED  BY <1>2, <1>3, <1>4, <1>5, <1>6, <2>1, <2>2, MatchedFrame
<1>7. CASE e # f
  <2>1. ~IsReport(main[1], e)  BY <1>2, <1>7 DEF IsReport
  <2>2. ~Telling(e)'
    <3>1. event # <<>> /\ event[1].of = e => 1 \notin DOMAIN event  BY <1>1, <1>7
    <3>2. event = <<>> \/ 1 \in DOMAIN event
      BY <1>2 DEF Callbacks, EndpointFound, EndpointLost, ConnectionInitiated, ConnectionResult,
                  Disconnected, PayloadReceived, Callback, Tell
    <3> QED  BY <1>2, <3>1, <3>2 DEF Telling
  <2> QED  BY <1>6, <2>1, <2>2
<1>8. CASE e = f
  <2>1. CASE EndpointFound(e)
    <3>1. Callback("found", e, Tell("discovered", e)) \/ Callback("found", e, <<>>)
      BY <2>1 DEF EndpointFound
    <3>2. main[1].kind = "found" /\ main[1].of = e /\ (out' = Tell("discovered", e) \/ out' = <<>>)
      BY <3>1, TakenOf
    <3>3. ~IsReport(main[1], e)  BY <3>2 DEF IsReport, Reports
    <3>5. CASE out' = Tell("discovered", e)
      <4>1. Telling(e)' /\ out'[1].kind = "discovered"  BY <3>5 DEF Telling, Tell, PeerState
      <4>2. PICK o \in BOOLEAN : (o <=> link[e] = "open") /\ (o <=> link'[e] = "open")  BY <1>5
      <4>3. Tells(main', e, o)  BY <1>3, <1>4, <3>3, <4>2 DEF Matched, Tells, Says
      <4>4. e \in masked'
        <5>1. Callback("found", e, <<>>) => out' = <<>>  BY DEF Callback
        <5> QED  BY <2>1, <3>5, <5>1 DEF EndpointFound, Tell
      <4> QED  BY <4>1, <4>2, <4>3, <4>4 DEF Matched, Word, Tells, Fits, Shows
    <3>6. CASE out' = <<>>  BY <1>6, <3>3, <3>6 DEF Telling
    <3> QED  BY <3>2, <3>5, <3>6
  <2>2. CASE EndpointLost(e)
    <3>1. Callback("gone", e, Tell("disconnected", e)) /\ e \in masked'  BY <2>2 DEF EndpointLost
    <3>2. main[1].kind = "gone" /\ out' = Tell("disconnected", e)  BY <3>1, TakenOf
    <3>3. ~IsReport(main[1], e)  BY <3>2 DEF IsReport, Reports
    <3>4. Telling(e)' /\ out'[1].kind = "disconnected"  BY <3>2 DEF Telling, Tell, PeerState
    <3>5. PICK o \in BOOLEAN : (o <=> link[e] = "open") /\ (o <=> link'[e] = "open")  BY <1>5
    <3>6. Tells(main', e, o)  BY <1>3, <1>4, <3>3, <3>5 DEF Matched, Tells, Says
    <3> QED  BY <3>1, <3>4, <3>5, <3>6 DEF Matched, Word, Tells, Fits, Shows
  <2>3. CASE ConnectionInitiated(e)
    <3>1. Callback("initiated", e, <<>>)  BY <2>3 DEF ConnectionInitiated
    <3>2. main[1].kind = "initiated" /\ out' = <<>>  BY <3>1, TakenOf
    <3> QED  BY <1>6, <3>2 DEF IsReport, Reports, Telling
  <2>4. CASE ConnectionResult(e)
    <3>1. /\ Callback("result", e, Tell("connected", e)) \/ Callback("refused", e, Tell("rejected", e))
          /\ link' = link
      BY <2>4 DEF ConnectionResult
    <3> QED  BY <1>2, <3>1, MatchedReport DEF Reports, PeerState
  <2>5. CASE Disconnected(e)
    <3>1. Callback("disconnected", e, Tell("disconnected", e)) /\ link' = link  BY <2>5 DEF Disconnected
    <3> QED  BY <1>2, <3>1, MatchedReport DEF Reports, PeerState
  <2>6. CASE PayloadReceived(e)
    <3>1. Callback("payload", e, Tell("payload", e))  BY <2>6 DEF PayloadReceived
    <3>2. main[1].kind = "payload" /\ out' = Tell("payload", e)  BY <3>1, TakenOf
    <3> QED  BY <1>6, <3>2 DEF IsReport, Reports, Telling, Tell, PeerState
  <2> QED  BY <1>8, <2>1, <2>2, <2>3, <2>4, <2>5, <2>6 DEF Callbacks
<1> QED  BY <1>7, <1>8

LEMMA MatchedListeners ==
    ASSUME TypeInv, MatchedInv, Listeners \/ (\E k \in {"adv", "disc"} : TransportFailed(k)), ~raced',
           NEW e \in Endpoint, e \notin late'
    PROVE  Matched(e)'
<1> USE DEF prefVars, quietVars, runVars, eventVars
<1>1. /\ UNCHANGED <<main, pending, link, raced, blind, view, app, call>> /\ e \notin late /\ out = <<>>
  BY DEF Listeners, TransportStarted, TransportFailed, RequestAnswered
<1>2. Matched(e) /\ Says(main, main', e) /\ (Clears => Clears') /\ ~Telling(e)
  BY <1>1, SaysKept DEF MatchedInv, Clears, Telling
<1>m. masked \subseteq masked'  BY DEF Listeners, TransportStarted, TransportFailed, RequestAnswered
<1>3. CASE ~Telling(e)'  BY <1>1, <1>2, <1>m, <1>3, MatchedFrame
<1>4. CASE Telling(e)'
  <2>1. PICK f \in Endpoint : RequestAnswered(f)
    <3>1. \A k : TransportStarted(k) \/ TransportFailed(k) => out' = out
      BY DEF TransportStarted, TransportFailed
    <3> QED  BY <1>1, <1>4, <3>1 DEF Listeners, Telling
  <2>2. out' = Tell("connecting", f) \/ out' = Tell("rejected", f)  BY <2>1 DEF RequestAnswered
  <2>3. f = e /\ out'[1].kind # "connected"  BY <1>4, <2>2 DEF Telling, Tell
  <2>4. e \in masked'  BY <2>1, <2>3 DEF RequestAnswered
  <2> QED  BY <1>1, <1>2, <1>4, <2>3, <2>4 DEF Matched, Word, Fits, Shows
<1> QED  BY <1>3, <1>4

\* The event that is emitted is the newest word of its endpoint.
LEMMA AboutNumbered ==
    ASSUME TypeInv, out # <<>>, NEW e
    PROVE  /\ Telling(e) => About(<<Numbered>>, e) = {1}
           /\ ~Telling(e) => About(<<Numbered>>, e) = {}
           /\ Numbered.event = out[1] /\ Owners(<<Numbered>>) = {out[1].of}
<1>1. PICK x : x = Numbered  OBVIOUS
<1>2. x.event = out[1]  BY <1>1 DEF Numbered
<1> QED  BY <1>1, <1>2 DEF About, Telling, Owners

LEMMA MatchedEmit ==
    ASSUME TypeInv, LateInv, MatchedInv, Emit, ~raced', NEW e \in Endpoint, e \notin late'
    PROVE  Matched(e)'
<1>1. /\ UNCHANGED <<main, pending, link, app, call, late, sink, service, masked>> /\ ~raced /\ out # <<>>
      /\ (sink \/ ~service) => out' = Tail(out)
  BY ViewTyped DEF Emit, prefVars, nearbyVars
<1>2. Matched(e) /\ Says(main, main', e) /\ (Clears => Clears')  BY <1>1, SaysKept DEF MatchedInv, Clears
<1>l. (Linked(e)' <=> Linked(e)) /\ (Shows(e)' <=> Shows(e))  BY <1>1 DEF Linked, Shows
<1>3. CASE ~sink /\ service
  <2>1. UNCHANGED <<out, view, blind>>  BY <1>3 DEF Emit, eventVars
  <2>2. Telling(e)' <=> Telling(e)  BY <2>1 DEF Telling
  <2> QED  BY <1>1, <1>2, <2>1, <2>2, MatchedFrame
<1>4. CASE sink \/ ~service
  <2>1. ~Telling(e)'
    <3>1. out' = <<>>  BY <1>1, <1>4, ViewTyped
    <3> QED  BY <3>1 DEF Telling
  <2>2. About(pending, e) = {} /\ \A may, must : KeptTells(pending, e, may, must)
    <3>1. CASE sink
      <4>1. raced' = (raced \/ pending # <<>>)  BY <1>1, <3>1 DEF Emit
      <4>2. pending = <<>>  BY <1>1, <4>1
      <4> QED  BY <4>2, EmptyAbout
    <3>2. CASE ~service  BY <1>1, <3>2, OwnedAbout DEF LateInv, Clean
    <3> QED  BY <1>4, <3>1, <3>2
  <2>3. ASSUME Reported(main, e) = {}, e \notin blind', app # "closed"  PROVE Views(e)'
    <3>1. Word(e)  BY <1>2, <2>3 DEF Matched
    <3>2. CASE Telling(e)
      <4>1. sink /\ app = "listening"
        BY <1>1, <1>4, <2>3, <3>2, AboutNumbered DEF Emit, ToSink, Forget, Telling
      <4>2. view' = Seen(<<Numbered>>)  BY <1>1, <4>1 DEF Emit, ToSink
      <4>s. PICK s : s = <<Numbered>>  OBVIOUS
      <4>3. PICK o, m \in BOOLEAN : (o <=> Linked(e)) /\ (m <=> Shows(e))  OBVIOUS
      <4>4. s \in Seq(Stored) /\ About(s, e) = {1} /\ s[1].event = out[1]
        BY <1>1, <3>2, <4>s, NumberedIs, AboutNumbered
      <4>5. KeptTells(s, e, o, m)  BY <3>1, <3>2, <4>3, <4>4 DEF KeptTells, LastOf, Word, Fits
      <4>6. Fits(Seen(s)[e], o, m)  BY <4>4, <4>5, SeenLast
      <4> QED  BY <1>1, <1>l, <4>2, <4>s, <4>3, <4>6 DEF Views, Fits
    <3>3. CASE ~Telling(e)
      <4>1. About(<<Numbered>>, e) = {}  BY <1>1, <3>3, AboutNumbered
      <4>2. view'[e] = view[e] /\ e \notin blind
        <5>1. CASE sink  BY <1>1, <2>3, <4>1, <5>1 DEF Emit, ToSink, Seen, Forget
        <5>2. CASE ~sink  BY <1>1, <1>4, <2>3, <5>2 DEF Emit, Forget
        <5> QED  BY <5>1, <5>2
      <4>3. Views(e)  BY <2>2, <2>3, <3>1, <3>3, <4>2 DEF Word
      <4> QED  BY <1>1, <1>2, <1>l, <4>2, <4>3 DEF Views
    <3> QED  BY <3>2, <3>3
  <2> QED  BY <1>1, <1>2, <2>1, <2>2, <2>3 DEF Matched, Word
<1> QED  BY <1>3, <1>4

\* What is written last is the newest word; what a full list drops is forgotten.
LEMMA NewestTells ==
    ASSUME NEW p \in Seq(Stored), NEW x \in Stored, NEW e, NEW may \in BOOLEAN,
           NEW must \in BOOLEAN,
           (x.event.of = e /\ x.event.kind \in PeerState) => Fits(x.event.kind, may, must),
           ~(x.event.of = e /\ x.event.kind \in PeerState) => KeptTells(p, e, may, must)
    PROVE  /\ KeptTells(Newest(Append(p, x)), e, may, must)
           /\ About(Newest(Append(p, x)), e) = {} =>
                  \/ Len(Append(p, x)) > MaxPending /\ Append(p, x)[1].event.of = e
                  \/ About(p, e) = {} /\ ~(x.event.of = e /\ x.event.kind \in PeerState)
<1>1. PICK s : s = Append(p, x)  OBVIOUS
<1>2. /\ s \in Seq(Stored) /\ s # <<>> /\ Len(p) \in Nat /\ Len(p) + 1 \in DOMAIN s /\ s[Len(p) + 1] = x
      /\ \A i \in DOMAIN p : i \in DOMAIN s /\ s[i] = p[i] /\ i <= Len(p) /\ i \in Nat
      /\ \A i \in DOMAIN s : i \in Nat /\ (i = Len(p) + 1 \/ i \in DOMAIN p)
  BY <1>1
<1>3. KeptTells(s, e, may, must)
  <2>1. CASE x.event.of = e /\ x.event.kind \in PeerState
    <3>1. Len(p) + 1 \in About(s, e)  BY <1>2, <2>1 DEF About
    <3>2. ASSUME NEW i \in DOMAIN s, LastOf(About(s, e), i)  PROVE s[i] = x
      <4>1. Len(p) + 1 <= i  BY <3>1, <3>2 DEF LastOf
      <4> QED  BY <1>2, <4>1
    <3> QED  BY <2>1, <3>2 DEF KeptTells
  <2>2. CASE ~(x.event.of = e /\ x.event.kind \in PeerState)
    <3>1. About(s, e) = About(p, e)  BY <1>2, <2>2 DEF About
    <3> QED  BY <1>2, <2>2, <3>1 DEF KeptTells, LastOf, About
  <2> QED  BY <2>1, <2>2
<1>4. About(s, e) = {} => About(p, e) = {} /\ ~(x.event.of = e /\ x.event.kind \in PeerState)
  BY <1>2 DEF About
<1>5. PICK t : t = Tail(s)  OBVIOUS
<1>6. /\ 1 \in DOMAIN s
      /\ \A i \in DOMAIN t : i \in Nat /\ i > 0 /\ i + 1 \in DOMAIN s /\ t[i] = s[i + 1]
      /\ \A i \in DOMAIN s : i \in Nat /\ i > 0 /\ (i # 1 => i - 1 \in DOMAIN t /\ t[i - 1] = s[i] /\ (i - 1) + 1 = i)
  BY <1>2, <1>5
<1>7. KeptTells(t, e, may, must)
  <2> SUFFICES ASSUME NEW i \in DOMAIN t, LastOf(About(t, e), i)  PROVE Fits(t[i].event.kind, may, must)
    BY DEF KeptTells
  <2>1. i \in Nat /\ i + 1 \in DOMAIN s /\ t[i] = s[i + 1] /\ i + 1 \in About(s, e)  BY <1>6 DEF LastOf, About
  <2>2. ASSUME NEW j \in About(s, e)  PROVE j <= i + 1
    <3>1. j \in DOMAIN s /\ j \in Nat /\ s[j].event.of = e /\ s[j].event.kind \in PeerState  BY <1>2 DEF About
    <3>2. CASE j = 1  BY <1>6, <3>2
    <3>3. CASE j # 1
      <4>1. j - 1 \in About(t, e)  BY <1>6, <3>1, <3>3 DEF About
      <4>2. j - 1 <= i  BY <4>1 DEF LastOf
      <4> QED  BY <2>1, <3>1, <4>2
    <3> QED  BY <3>2, <3>3
  <2>3. LastOf(About(s, e), i + 1)  BY <2>1, <2>2 DEF LastOf
  <2> QED  BY <1>3, <2>1, <2>3 DEF KeptTells
<1>8. About(t, e) = {} => About(s, e) = {} \/ s[1].event.of = e
  <2> SUFFICES ASSUME About(t, e) = {}, NEW i \in About(s, e)  PROVE s[1].event.of = e  OBVIOUS
  <2>1. i \in DOMAIN s /\ s[i].event.of = e /\ s[i].event.kind \in PeerState  BY DEF About
  <2>2. i # 1 => i - 1 \in About(t, e)  BY <1>6, <2>1 DEF About
  <2> QED  BY <2>1, <2>2
<1> QED  BY <1>1, <1>3, <1>4, <1>5, <1>7, <1>8 DEF Newest

LEMMA MatchedPersist ==
    ASSUME TypeInv, EventsInv, MatchedInv, Persist, ~raced', NEW e \in Endpoint, e \notin late'
    PROVE  Matched(e)'
<1>1. /\ UNCHANGED <<main, link, app, call, late, view, masked>> /\ ~raced /\ copy # <<>>
      /\ out' = Tail(out)
  BY ViewTyped DEF Persist, nearbyVars
<1>2. Head(copy) = pending /\ out # <<>> /\ out' = <<>>  BY <1>1, ViewTyped DEF EventsInv, CopyInv
<1>3. PICK x : x = Numbered  OBVIOUS
<1>4. PICK s : s = Append(pending, x)  OBVIOUS
<1>5. /\ pending' = Newest(s)
      /\ blind' = blind \cup Owners(IF Len(s) > MaxPending THEN <<Head(s)>> ELSE <<>>)
  BY <1>2, <1>3, <1>4 DEF Persist, Forget
<1>6. x \in Stored /\ x.event = out[1] /\ pending \in Seq(Stored)
  BY <1>2, <1>3, NumberedIs, AboutNumbered, ViewTyped
<1>7. Len(s) > MaxPending => s[1].event.of \in blind'
  <2>1. Head(s) = s[1]  BY <1>4
  <2> QED  BY <1>5, <2>1 DEF Owners
<1>8. Matched(e) /\ ~Telling(e)'  BY <1>1, <1>2 DEF MatchedInv, Telling
<1>9. Telling(e) <=> (x.event.of = e /\ x.event.kind \in PeerState)  BY <1>2, <1>6 DEF Telling
<1>10. ASSUME Reported(main, e) = {}  PROVE Word(e)'
  <2>1. Word(e)  BY <1>8, <1>10 DEF Matched
  <2>2. PICK o, m \in BOOLEAN : (o <=> Linked(e)) /\ (m <=> Shows(e))  OBVIOUS
  <2>3. Telling(e) => Fits(x.event.kind, o, m)  BY <1>6, <2>1, <2>2 DEF Word, Fits
  <2>4. ~Telling(e) => KeptTells(pending, e, o, m)  BY <2>1, <2>2 DEF Word, KeptTells, Fits
  <2>5. KeptTells(pending', e, o, m)  BY <1>4, <1>5, <1>6, <1>9, <2>3, <2>4, NewestTells
  <2>6. (About(pending', e) = {} /\ e \notin blind') => About(pending, e) = {} /\ ~Telling(e)
    BY <1>4, <1>5, <1>6, <1>7, <1>9, <2>3, <2>4, NewestTells
  <2>7. e \notin blind' => e \notin blind  BY <1>5
  <2>8. (About(pending', e) = {} /\ e \notin blind' /\ app # "closed") => Views(e)
    BY <2>1, <2>6, <2>7 DEF Word
  <2>9. (Linked(e)' <=> Linked(e)) /\ (Shows(e)' <=> Shows(e))  BY <1>1 DEF Linked, Shows
  <2>10. KeptTells(pending', e, Linked(e)', Shows(e)')  BY <2>2, <2>5, <2>9 DEF KeptTells, Fits
  <2> QED  BY <1>1, <1>8, <2>8, <2>9, <2>10 DEF Word, Views, Clears
<1> QED  BY <1>1, <1>8, <1>10 DEF Matched

LEMMA MatchedApplication ==
    ASSUME TypeInv, MatchedInv, Open \/ Subscribe \/ CallStart \/ CallStop \/ Swipe, ~raced',
           NEW e \in Endpoint, e \notin late'
    PROVE  Matched(e)'
<1> USE DEF appOnly, historyVars, prefVars, nearbyVars
<1>1. UNCHANGED <<late, raced, link, out, pending, masked>>  BY DEF Open, Subscribe, CallStart, CallStop, Swipe
<1>2. Matched(e) /\ (Telling(e)' <=> Telling(e))  BY <1>1 DEF MatchedInv, Telling
<1>l. (Linked(e)' <=> Linked(e)) /\ (Shows(e)' <=> Shows(e))  BY <1>1 DEF Linked, Shows
<1>3. CASE Subscribe \/ CallStart \/ CallStop \/ Swipe
  <2>1. UNCHANGED <<view, blind>> /\ (app' # "closed" => app # "closed")
    BY <1>3 DEF Subscribe, CallStart, CallStop, Swipe
  <2>2. Clears => Clears'
    <3>1. \A x \in Seq(Steps) : call # <<>> => call \o x # <<>> /\ Head(call \o x) = Head(call)
      BY ViewTyped DEF Steps
    <3>2. AttachSteps \in Seq(Steps) /\ AttachSteps \o <<"save", "run">> \in Seq(Steps)
          /\ <<"halt", "clear">> \in Seq(Steps)
      BY CallsAre
    <3>3. call \o AttachSteps \o <<"save", "run">> = call \o (AttachSteps \o <<"save", "run">>)
      <4>1. call \in Seq(Steps) /\ AttachSteps \in Seq(Steps) /\ <<"save", "run">> \in Seq(Steps)
        BY CallsAre, ViewTyped DEF Steps
      <4>2. \A a, b, c \in Seq(Steps) : (a \o b) \o c = a \o (b \o c)  BY ConcatAssociative
      <4> QED  BY <4>1, <4>2
    <3>4. CASE Subscribe  BY <3>1, <3>2, <3>4 DEF Clears, Subscribe
    <3>5. CASE CallStart
      <4>1. PICK x \in Seq(Steps) : call' = call \o x  BY <3>2, <3>3, <3>5 DEF CallStart
      <4> QED  BY <3>1, <4>1 DEF Clears
    <3>6. CASE CallStop
      <4>1. PICK x \in Seq(Steps) : call' = call \o x  BY <3>2, <3>6 DEF CallStop
      <4> QED  BY <3>1, <4>1 DEF Clears
    <3>7. CASE Swipe  BY <3>7 DEF Clears, Swipe
    <3> QED  BY <1>3, <3>4, <3>5, <3>6, <3>7
  <2>3. Says(main, main', e)
    <3>1. Message("removed") \in Messages /\ Message("removed").kind = "removed"  BY DEF Message, Messages
    <3>2. ~IsReport(Message("removed"), e)  BY <3>1 DEF IsReport, Reports
    <3>3. Keeps(main, Append(main, Message("removed")), e)  BY <3>1, <3>2, ViewTyped, KeepsPush
    <3> QED  BY <1>3, <3>3, SaysKept DEF Subscribe, CallStart, CallStop, Swipe
  <2> QED  BY <1>1, <1>2, <2>1, <2>2, <2>3, MatchedFrame
<1>4. CASE Open
  <2>1. UNCHANGED main /\ view'[e] = "none" /\ (e \notin blind' => link[e] = "away")  BY <1>4 DEF Open
  <2>2. e \notin blind' => Views(e)'  BY <1>1, <2>1 DEF Views, Linked, Shows
  <2>3. KeptTells(pending', e, Linked(e)', Shows(e)') <=> KeptTells(pending, e, Linked(e), Shows(e))
    BY <1>1, <1>l DEF KeptTells, Fits
  <2> QED  BY <1>1, <1>2, <1>l, <2>1, <2>2, <2>3 DEF Matched, Word, Fits
<1> QED  BY <1>3, <1>4

LEMMA MatchedDies ==
    ASSUME TypeInv, Kill \/ Crash \/ Boot, NEW e \in Endpoint, e \notin late'  PROVE Matched(e)'
<1>1. PICK q \in {Revived, Booted, <<>>} : Die(q)  BY DEF Kill, Crash, Boot, Booted
<1>2. /\ main' = q /\ out' = <<>> /\ late' = Owners(pending) /\ UNCHANGED pending /\ link'[e] = "away"
      /\ app' = "closed"
  BY <1>1 DEF Die, prefVars
<1>3. Tells(main', e, link'[e] = "open")
  <2>1. Reported(main', e) = {}  BY <1>2, FirstMessages
  <2> QED  BY <2>1 DEF Tells, LastOf
<1>4. KeptTells(pending', e, Linked(e)', Shows(e)')  BY <1>2, OwnedAbout
<1> QED  BY <1>2, <1>3, <1>4 DEF Matched, Word, Telling

LEMMA MatchedNearby ==
    ASSUME TypeInv, MatchedInv, NEW f \in Endpoint, Nearby(f), ~raced', NEW e \in Endpoint, e \notin late'
    PROVE  Matched(e)'
<1>1. PICK k, from, to :
          /\ Post(k, f, from, to) /\ k \in Reports \cup {"found", "gone", "initiated", "payload"}
          /\ k = "result" => to = "open"
          /\ k \in {"refused", "disconnected"} => to # "open"
          /\ k \notin Reports => (from = "open" <=> to = "open")
  <2>1. ASSUME NEW k, NEW from, NEW to, Post(k, f, from, to),
               <<k, from, to>> \in {<<"initiated", "away", "asked">>, <<"initiated", "near", "asked">>,
                   <<"result", "accepted", "open">>, <<"refused", "accepted", "near">>,
                   <<"payload", "open", "open">>, <<"disconnected", "open", "near">>}
                   \cup {<<"found", link[f], IF link[f] = "away" THEN "near" ELSE link[f]>>,
                         <<"gone", link[f], IF link[f] = "near" THEN "away" ELSE link[f]>>}
        PROVE  /\ k \in Reports \cup {"found", "gone", "initiated", "payload"}
               /\ k = "result" => to = "open"
               /\ k \in {"refused", "disconnected"} => to # "open"
               /\ k \notin Reports => (from = "open" <=> to = "open")
    BY <2>1 DEF Reports
  <2> QED  BY <2>1 DEF Nearby
<1>2. PICK m : m = [kind |-> k, of |-> f]  OBVIOUS
<1>3. /\ m \in Messages /\ m.kind = k /\ m.of = f /\ main' = Append(main, m)
      /\ link[f] = from /\ link' = [link EXCEPT ![f] = to]
      /\ UNCHANGED <<pending, out, late, raced, view, blind, app, call, masked>>
  BY <1>1, <1>2 DEF Post, Messages, Reports, prefVars, historyVars, eventVars
<1>4. Matched(e) /\ (Telling(e)' <=> Telling(e)) /\ (Clears => Clears')
  BY <1>3 DEF MatchedInv, Telling, Clears
<1>5. CASE ~IsReport(m, e)
  <2>1. Says(main, main', e)  BY <1>3, <1>5, ViewTyped, TellsPush DEF Says
  <2>2. link'[e] = "open" <=> link[e] = "open"
    <3>1. CASE e # f  BY <1>3, <3>1, ViewTyped
    <3>2. CASE e = f
      <4>1. k \notin Reports  BY <1>3, <1>5, <3>2 DEF IsReport
      <4>2. (from = "open" <=> to = "open")  BY <1>1, <4>1 DEF Reports
      <4> QED  BY <1>3, <3>2, <4>2, ViewTyped
    <3> QED  BY <3>1, <3>2
  <2> QED  BY <1>3, <1>4, <2>1, <2>2, MatchedFrame
<1>6. CASE IsReport(m, e)
  <2>1. e = f /\ k \in Reports /\ link'[e] = to  BY <1>3, <1>6, ViewTyped DEF IsReport
  <2>2. k = "result" <=> to = "open"  BY <1>1, <2>1 DEF Reports
  <2>3. Reported(main', e) # {} /\ Tells(main', e, k = "result")  BY <1>3, <1>6, TellsPush, ViewTyped
  <2> QED  BY <2>1, <2>2, <2>3 DEF Matched, Tells
<1> QED  BY <1>5, <1>6

\* What the invariants of this part say together.
ViewInv == TypeInv /\ EventsInv /\ LinkInv /\ CallInv /\ LateInv /\ MatchedInv

LEMMA MatchedStep == ASSUME ViewInv, [Next]_vars  PROVE MatchedInv'
<1> SUFFICES ASSUME ~raced', NEW e \in Endpoint, e \notin late'  PROVE Matched(e)'  BY DEF MatchedInv
<1>0. TypeInv /\ EventsInv /\ LinkInv /\ CallInv /\ LateInv /\ MatchedInv  BY DEF ViewInv
<1> USE DEF prefVars, historyVars, nearbyVars, eventVars
<1>1. CASE UNCHANGED vars \/ SwitchRadio \/ (\E f \in Endpoint : Answer(f))
  <2>1. UNCHANGED <<main, pending, out, late, raced, view, blind, app, call, masked>>  BY <1>1 DEF vars, SwitchRadio, Answer
  <2>2. link'[e] = "open" <=> link[e] = "open"  BY <1>0, <1>1, ViewTyped DEF vars, SwitchRadio, Answer
  <2>3. Matched(e) /\ (Telling(e)' <=> Telling(e)) /\ (Clears => Clears') /\ Says(main, main', e)
    BY <1>0, <2>1, SaysKept DEF MatchedInv, Telling, Clears
  <2> QED  BY <2>1, <2>2, <2>3, MatchedFrame
<1>2. CASE Main
  BY <1>0, <1>2, MatchedIntents, MatchedStop, MatchedCallbacks, MatchedEmit, MatchedPersist DEF Main
<1>3. CASE Kill \/ Crash \/ Boot  BY <1>0, <1>3, MatchedDies
<1> QED  BY <1>0, <1>1, <1>2, <1>3, MatchedModule, MatchedListeners, MatchedApplication, MatchedNearby DEF Next

LEMMA ViewStart == Init => ViewInv
<1> SUFFICES ASSUME Init  PROVE ViewInv  OBVIOUS
<1>1. TypeInv /\ EventsInv  BY TypeStart, EventsStart
<1> USE DEF Init
<1>2. LinkInv  BY DEF LinkInv
<1>3. CallInv  BY CallsAre DEF CallInv
<1>4. LateInv  BY OwnersOf DEF LateInv, Clean, EndsWithout, Holds
<1>5. MatchedInv  BY EmptyAbout DEF MatchedInv, Matched, Tells, Word, Telling
<1> QED  BY <1>1, <1>2, <1>3, <1>4, <1>5 DEF ViewInv

\* When both threads rest, what the provider shows as connected is connected, if it has heard the
\* endpoint's last event and nothing about it was to come when the transport stopped; and what is
\* connected is shown so unless discovery spoke of it since (emitPeer, onDisconnected, attach, stop).
THEOREM ViewCorrect == Spec => []ViewMatches
<1>1. Init => ViewInv  BY ViewStart
<1>2. ViewInv /\ [Next]_vars => ViewInv'
  <2> SUFFICES ASSUME ViewInv, [Next]_vars  PROVE ViewInv'  OBVIOUS
  <2>1. TypeInv /\ EventsInv /\ LinkInv /\ CallInv /\ LateInv /\ MatchedInv  BY DEF ViewInv
  <2>2. TypeInv' /\ EventsInv'  BY <2>1, TypeStep, EventsStep
  <2>3. LinkInv' /\ CallInv' /\ LateInv'  BY <2>1, LinkStep, CallInvStep, LateStep
  <2>4. MatchedInv'  BY MatchedStep
  <2> QED  BY <2>2, <2>3, <2>4 DEF ViewInv
<1>3. ViewInv => ViewMatches
  <2> SUFFICES ASSUME ViewInv, Quiet, app = "listening", ~raced, NEW e \in Endpoint \ (blind \cup late)
               PROVE  /\ view[e] = "connected" => Linked(e)
                      /\ Shows(e) => view[e] = "connected"
    BY DEF ViewMatches, Linked, Shows
  <2>1. CallInv /\ MatchedInv  BY DEF ViewInv
  <2>2. main = <<>> /\ out = <<>> /\ call = <<>>  BY DEF Quiet
  <2>3. ~Has(call, "drain")  BY <2>2 DEF Has
  <2>4. pending = <<>>  BY <2>1, <2>3 DEF CallInv, Attached
  <2>5. Matched(e)  BY <2>1 DEF MatchedInv
  <2>6. Reported(main, e) = {} /\ ~Telling(e)  BY <2>2 DEF Reported, Telling
  <2>7. Views(e)  BY <2>4, <2>5, <2>6, EmptyAbout DEF Matched, Word
  <2> QED  BY <2>2, <2>7 DEF Views, Clears, Holds
<1> QED  BY <1>1, <1>2, <1>3, PTL DEF Spec
=============================================================================
