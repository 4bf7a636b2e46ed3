---------------------------- MODULE BleMeshProofs ----------------------------
(***************************************************************************)
(* Proofs about the Bluetooth transport, for any devices, any sizes of     *)
(* chunks and frames and any budget of lost chunks, broken connections,    *)
(* stops and deaths: its types (TypeCorrect), that whoever has heard an    *)
(* announcement can answer (AnswerCorrect), that the frames the            *)
(* application gets are whole (WholeCorrect), and that a frame of which    *)
(* every chunk has arrived has been delivered (DeliveryCorrect).           *)
(***************************************************************************)
EXTENDS BleMesh, FiniteSetTheorems, SequenceTheorems, TLAPS

-----------------------------------------------------------------------------
(* The invariants of the proofs, by their parts *)

ChunkType == [kind : {"chunk"}, id : Nat, total : Nat, index : Nat, length : Nat, size : Nat,
              content : Nat, of : Device, n : Nat, life : Nat]
Message == [kind : {"connect", "subscribe"}] \cup ChunkType

\* What the variables hold.
RangesInv ==
    /\ platform \in [Device -> {"ios", "android"}]
    /\ most \in [Faults -> Nat] /\ [platform |-> platform, most |-> most] \in Scenarios
    /\ spent \in [Faults -> Nat] /\ \A f \in Faults : spent[f] <= most[f]
    /\ run \in [Device -> BOOLEAN]
    /\ found \in [Device -> SUBSET Device] /\ known \in [Device -> SUBSET Device]
    /\ tx \in [Device -> SUBSET Device] /\ subs \in [Device -> SUBSET Device]
    /\ frameCounter \in [Device -> Nat] /\ made \in [Device -> Nat]
    /\ \A d \in Device : frameCounter[d] <= made[d]
    /\ sending \in [Device -> SUBSET [to : Device, read : Nat]]
    /\ \A d \in Device : \A s \in sending[d] : s.to \in Peers(d) /\ s.read <= frameCounter[d]
    /\ starts \in [Device -> Nat] /\ life \in [Device -> Nat]
    /\ conn \in [Pair -> {"out", "asked", "up", "ready"}]
    /\ ends \in [Pair -> SUBSET Device]
    /\ view \in [Device -> [Device -> Shown]]

\* What the air and the assemblies hold.
AirInv ==
    /\ down \in [Pair -> Seq(Message)]
    /\ up \in [Pair -> Seq(ChunkType)]
    /\ arrived \in [Device -> SUBSET ChunkType]
    /\ heard \subseteq Device \X Pair
    /\ DOMAIN seen = Device /\ DOMAIN got = Device /\ DOMAIN assemblies = Device
    /\ \A k \in Pair : \A i \in DOMAIN down[k] : down[k][i].kind = "chunk" => down[k][i].of = k[1]
    /\ \A k \in Pair : \A i \in DOMAIN up[k] : up[k][i].of = k[2]

\* The parts of an assembly have arrived, under its key and at their place.
FiledInv ==
    \A d \in Device : \A key \in DOMAIN assemblies[d] : \A i \in DOMAIN assemblies[d][key] :
        /\ assemblies[d][key][i] \in arrived[d]
        /\ assemblies[d][key][i].of = key[1] /\ assemblies[d][key][i].id = key[2]
        /\ assemblies[d][key][i].index = i

\* The end of a connection is owed to nobody before it is gone; its central knows the peripheral.
LinkInv ==
    /\ \A d \in Device : run[d] => starts[d] > 0
    /\ \A k \in Pair :
           /\ conn[k] # "out" => ends[k] = {} /\ k[2] \in known[k[1]] /\ starts[k[1]] > 0
           /\ conn[k] \in {"up", "ready"} => starts[k[2]] > 0
           /\ conn[k] = "ready" => k[2] \in tx[k[1]]
           /\ down[k] # <<>> => conn[k] \in {"up", "ready"}
           /\ up[k] # <<>> => conn[k] = "ready"
           /\ \A i \in DOMAIN down[k] : down[k][i].kind = "chunk" => conn[k] = "ready"

TypeInv == RangesInv /\ AirInv /\ FiledInv /\ LinkInv

\* The subscription of an iPhone is at its peripheral, or on the way before every chunk.
Asks(q) == \E j \in DOMAIN q : q[j].kind = "subscribe" /\ \A i \in 1..j-1 : q[i].kind # "chunk"

AskedInv ==
    /\ \A k \in Pair : conn[k] = "ready" /\ platform[k[1]] = "ios" => k[1] \in subs[k[2]] \/ Asks(down[k])
    /\ \A h \in heard : /\ conn[h[2]] = "ready" /\ h[1] \in {h[2][1], h[2][2]}
                        /\ h[1] = h[2][2] /\ platform[h[2][1]] = "ios" => h[2][1] \in subs[h[1]]

\* The chunks that are under way or have arrived.
UnderWay == UNION {{c \in Range(down[k]) : c.kind = "chunk"} \cup Range(up[k]) : k \in Pair}
Known == UnderWay \cup UNION {arrived[d] : d \in Device}

\* A chunk is cut from a frame of its length.
Cut1(c) ==
    /\ c.length = FrameLength(c.content) /\ c.total = ChunkCount(c.length) /\ c.index < c.total
    /\ c.size = IF (c.index + 1) * ChunkSize <= c.length THEN ChunkSize ELSE c.length - c.index * ChunkSize

\* It belongs to a frame that its sender has made; until the ids begin again they go up with the frames.
Made(c) ==
    /\ c.n <= made[c.of] /\ c.life <= life[c.of]
    /\ c.life = life[c.of] => c.id <= frameCounter[c.of] /\ c.n - c.id = made[c.of] - frameCounter[c.of]

Same(a, b) == a.id = b.id /\ a.life = b.life /\ a.content = b.content

FrameInv ==
    /\ \A c \in Known : Cut1(c) /\ Made(c)
    /\ \A a, b \in Known : a.of = b.of => /\ a.n = b.n => Same(a, b)
                                          /\ a.life = b.life /\ a.id = b.id => a.n = b.n
    /\ \A c \in Known : c.life = life[c.of] =>
           \A s \in sending[c.of] : s.read = frameCounter[c.of]

\* What the application gets of the frame of chunk c.
Delivered(d, c) == \E f \in got[d] : \A i \in DOMAIN f : f[i].of = c.of /\ f[i].n = c.n
Owns(d, c) == {b \in arrived[d] : b.of = c.of /\ b.id = c.id}

ArrivalInv ==
    \A d \in Device : \A c \in arrived[d] :
        (\A b \in Owns(d, c) : b.n = c.n) =>
            \/ Delivered(d, c)
            \/ /\ <<c.of, c.id>> \in DOMAIN assemblies[d]
               /\ DOMAIN assemblies[d][<<c.of, c.id>>] = {b.index : b \in Owns(d, c)}
               /\ DOMAIN assemblies[d][<<c.of, c.id>>] # 0..c.total - 1

-----------------------------------------------------------------------------
(* Chunks and bytes *)

LEMMA DivIs ==
    ASSUME NEW C \in Nat \ {0}, NEW q \in Nat, NEW r \in 0..C - 1
    PROVE  (q * C + r) \div C = q /\ (q * C + r) % C = r
<1> DEFINE m == q * C + r
           p == m \div C
<1>0. m \in Nat  OBVIOUS
<1>1. p \in Nat /\ p * C <= m /\ m < (p + 1) * C  BY <1>0
<1>2. ~(p < q)
  <2> SUFFICES ASSUME p < q  PROVE FALSE  OBVIOUS
  <2>1. p + 1 <= q  BY <1>1
  <2>2. (p + 1) * C <= q * C  BY <1>1, <2>1
  <2> QED  BY <1>1, <2>2
<1>3. ~(q < p)
  <2> SUFFICES ASSUME q < p  PROVE FALSE  OBVIOUS
  <2>1. q + 1 <= p  BY <1>1
  <2>2. (q + 1) * C <= p * C  BY <1>1, <2>1
  <2>3. (q + 1) * C = q * C + C  OBVIOUS
  <2> QED  BY <1>1, <2>2, <2>3
<1>4. p = q  BY <1>1, <1>2, <1>3
<1>5. m = C * (m \div C) + (m % C)  BY <1>0
<1> QED  BY <1>4, <1>5

LEMMA CountIs ==
    ASSUME NEW length \in Nat \ {0}
    PROVE  /\ ChunkCount(length) \in Nat \ {0}
           /\ (ChunkCount(length) - 1) * ChunkSize < length
           /\ length <= ChunkCount(length) * ChunkSize
<1> DEFINE m == length + ChunkSize - 1
           N == m \div ChunkSize
<1>0. ChunkSize \in Nat \ {0} /\ m \in Nat  BY BleAssumption
<1>1. N \in Nat /\ N * ChunkSize <= m /\ m < (N + 1) * ChunkSize  BY <1>0
<1>2. (N + 1) * ChunkSize = N * ChunkSize + ChunkSize /\ (N - 1) * ChunkSize = N * ChunkSize - ChunkSize
  BY <1>0, <1>1
<1>3. (N - 1) * ChunkSize < length /\ length <= N * ChunkSize
  <2>1. PICK a \in Int : a = N * ChunkSize  BY <1>0, <1>1
  <2> QED  BY <1>0, <1>1, <1>2, <2>1
<1>4. N # 0  BY <1>0, <1>3
<1> QED  BY <1>1, <1>3, <1>4 DEF ChunkCount

\* Bytes that chunk i (from 0) of a frame carries.
ChunkBytes(i, length) == IF (i + 1) * ChunkSize <= length THEN ChunkSize ELSE length - i * ChunkSize

LEMMA BytesIs ==
    ASSUME NEW length \in Nat \ {0}, NEW i \in 0..ChunkCount(length) - 1
    PROVE  ChunkBytes(i, length) \in 1..ChunkSize
<1>1. ChunkSize \in Nat \ {0}  BY BleAssumption
<1>2. PICK N \in Nat : N = ChunkCount(length)  BY CountIs
<1>3. (N - 1) * ChunkSize < length  BY <1>2, CountIs
<1>4. i \in Nat /\ i <= N - 1  BY <1>2
<1>5. i * ChunkSize <= (N - 1) * ChunkSize /\ (i + 1) * ChunkSize = i * ChunkSize + ChunkSize  BY <1>1, <1>2, <1>4
<1>6. PICK a \in Int, b \in Int : a = i * ChunkSize /\ b = (N - 1) * ChunkSize  BY <1>1, <1>2, <1>4
<1> QED  BY <1>1, <1>3, <1>5, <1>6 DEF ChunkBytes

LEMMA SizeWhole ==
    ASSUME NEW length \in Nat \ {0}, NEW o \in Nat, NEW s, DOMAIN s = o..o + ChunkCount(length) - 1,
           \A i \in DOMAIN s : s[i].size = ChunkBytes(i - o, length)
    PROVE  SizeOf(s) = length
<1>0. ChunkSize \in Nat \ {0}  BY BleAssumption
<1>1. PICK N \in Nat : N = ChunkCount(length) /\ N # 0  BY CountIs
<1>2. (N - 1) * ChunkSize < length /\ length <= N * ChunkSize  BY <1>1, CountIs
<1> DEFINE B == UNION {{i} \X (1..s[i].size) : i \in DOMAIN s}
           f == [b \in 1..length |-> <<o + ((b - 1) \div ChunkSize), ((b - 1) % ChunkSize) + 1>>]
<1>3. ASSUME NEW b \in 1..length
      PROVE  f[b] \in B /\ b = (f[b][1] - o) * ChunkSize + f[b][2]
  <2>1. PICK q, r : q = (b - 1) \div ChunkSize /\ r = (b - 1) % ChunkSize  OBVIOUS
  <2>2. q \in Nat /\ r \in 0..ChunkSize - 1 /\ b - 1 = q * ChunkSize + r  BY <1>0, <2>1
  <2>3. q < N
    <3> SUFFICES ASSUME N <= q  PROVE FALSE  BY <1>1, <2>2
    <3>1. N * ChunkSize <= q * ChunkSize  BY <1>0, <1>1, <2>2
    <3>2. PICK a \in Int, c \in Int : a = N * ChunkSize /\ c = q * ChunkSize  BY <1>0, <1>1, <2>2
    <3> QED  BY <1>0, <1>2, <2>2, <3>1, <3>2
  <2>4. o + q \in DOMAIN s /\ o + q - o = q  BY <1>1, <2>2, <2>3
  <2>5. r + 1 \in 1..ChunkBytes(q, length)
    <3>1. (q + 1) * ChunkSize = q * ChunkSize + ChunkSize  BY <1>0, <2>2
    <3>2. PICK a \in Int : a = q * ChunkSize  BY <1>0, <2>2
    <3> QED  BY <1>0, <2>2, <3>1, <3>2 DEF ChunkBytes
  <2>6. s[o + q].size = ChunkBytes(q, length)
    <3>1. PICK i : i = o + q  OBVIOUS
    <3>2. s[i].size = ChunkBytes(i - o, length) /\ i - o = q  BY <2>2, <2>4, <3>1
    <3> QED  BY <3>1, <3>2
  <2>7. f[b] = <<o + q, r + 1>>  BY <2>1
  <2>8. f[b] \in B  BY <2>4, <2>5, <2>6, <2>7
  <2>9. f[b][1] - o = q /\ f[b][2] = r + 1  BY <2>2, <2>7
  <2>10. q * ChunkSize + (r + 1) = b
    <3>1. PICK a \in Int : a = q * ChunkSize  BY <1>0, <2>2
    <3> QED  BY <2>2, <3>1
  <2>11. (f[b][1] - o) * ChunkSize + f[b][2] = b  BY <2>9, <2>10
  <2> QED  BY <2>8, <2>11
<1>4. ASSUME NEW c \in B  PROVE \E b \in 1..length : f[b] = c
  <2>1. PICK i \in DOMAIN s : c \in {i} \X (1..s[i].size)  OBVIOUS
  <2>2. PICK j \in 1..s[i].size : c = <<i, j>>  BY <2>1
  <2>3. PICK q : q = i - o  OBVIOUS
  <2>4. q \in 0..N - 1 /\ i = o + q  BY <1>1, <2>3
  <2>5. s[i].size = ChunkBytes(q, length) /\ ChunkBytes(q, length) \in 1..ChunkSize
    BY <1>1, <2>3, <2>4, BytesIs
  <2>6. j \in 1..ChunkBytes(q, length) /\ j \in Nat /\ j - 1 \in 0..ChunkSize - 1  BY <1>0, <2>5
  <2>7. PICK a : a = q * ChunkSize  OBVIOUS
  <2>8. a \in Nat /\ (q + 1) * ChunkSize = a + ChunkSize  BY <1>0, <2>4, <2>7
  <2>a. ChunkBytes(q, length) = IF a + ChunkSize <= length THEN ChunkSize ELSE length - a
    BY <2>7, <2>8 DEF ChunkBytes
  <2>9. a + j \in 1..length  BY <1>0, <2>5, <2>6, <2>8, <2>a
  <2>10. a + j - 1 = q * ChunkSize + (j - 1)  BY <2>6, <2>7, <2>8
  <2>11. (a + j - 1) \div ChunkSize = q /\ (a + j - 1) % ChunkSize = j - 1
    <3>0. q \in Nat  BY <2>4
    <3>1. PICK r \in 0..ChunkSize - 1 : r = j - 1  BY <2>6
    <3>2. (q * ChunkSize + r) \div ChunkSize = q /\ (q * ChunkSize + r) % ChunkSize = r
      BY <1>0, <3>0, <3>1, DivIs, Zenon
    <3>3. q * ChunkSize + r = a + j - 1  BY <2>10, <3>1
    <3> QED  BY <3>1, <3>2, <3>3
  <2>b. PICK b \in 1..length : b = a + j  BY <2>9
  <2>d. f[b] = <<o + ((b - 1) \div ChunkSize), ((b - 1) % ChunkSize) + 1>>  OBVIOUS
  <2>e. (b - 1) \div ChunkSize = q /\ (b - 1) % ChunkSize = j - 1
    <3>1. b - 1 = a + j - 1  BY <2>6, <2>8, <2>b
    <3> QED  BY <2>11, <3>1
  <2>12. f[a + j] = <<o + q, j - 1 + 1>>  BY <2>b, <2>d, <2>e
  <2>g. o + q = i /\ j - 1 + 1 = j  BY <2>4, <2>6
  <2>13. f[a + j] = c  BY <2>2, <2>12, <2>g
  <2> QED  BY <2>9, <2>13
<1> HIDE DEF B, f
<1>5. DOMAIN f = 1..length /\ f = [b \in 1..length |-> f[b]]  BY DEF f
<1>6. f \in [1..length -> B]  BY <1>3, <1>5
<1>7. f \in Surjection(1..length, B)  BY <1>4, <1>6 DEF Surjection
<1>8. \A a, b \in 1..length : f[a] = f[b] => a = b
  <2> SUFFICES ASSUME NEW a \in 1..length, NEW b \in 1..length, f[a] = f[b]  PROVE a = b  OBVIOUS
  <2>1. a = (f[a][1] - o) * ChunkSize + f[a][2]  BY <1>3
  <2>2. b = (f[b][1] - o) * ChunkSize + f[b][2]  BY <1>3
  <2> QED  BY <2>1, <2>2
<1>9. f \in Injection(1..length, B)  BY <1>5, <1>6, <1>8 DEF Injection, IsInjective
<1>10. f \in Bijection(1..length, B)  BY <1>7, <1>9 DEF Bijection
<1>11. IsFiniteSet(1..length) /\ Cardinality(1..length) = length  BY FS_Interval
<1>12. Cardinality(B) = length  BY <1>10, <1>11, FS_Bijection DEF ExistsBijection
<1> QED  BY <1>12 DEF SizeOf, B

-----------------------------------------------------------------------------
(* Queues *)

LEMMA TailIs ==
    ASSUME NEW S, NEW q \in Seq(S), q # <<>>
    PROVE  /\ Tail(q) \in Seq(S) /\ 1 \in DOMAIN q /\ Head(q) = q[1] /\ q[1] \in S
           /\ \A i \in DOMAIN Tail(q) : i + 1 \in DOMAIN q /\ Tail(q)[i] = q[i + 1]
           /\ \A i \in DOMAIN q : i # 1 => i - 1 \in DOMAIN Tail(q)
<1>1. /\ Tail(q) \in Seq(S) /\ Len(Tail(q)) = Len(q) - 1 /\ Len(q) \in Nat /\ Len(q) # 0
      /\ \A i \in 1..Len(q) - 1 : Tail(q)[i] = q[i + 1]
      /\ Head(q) = q[1]
  OBVIOUS
<1>2. DOMAIN q = 1..Len(q) /\ DOMAIN Tail(q) = 1..Len(q) - 1  BY <1>1
<1>3. 1 \in DOMAIN q /\ \A i \in DOMAIN q : q[i] \in S  BY <1>1, <1>2
<1> QED  BY <1>1, <1>2, <1>3

LEMMA JoinIs ==
    ASSUME NEW S, NEW q \in Seq(S), NEW r \in Seq(S)
    PROVE  /\ q \o r \in Seq(S)
           /\ \A i \in DOMAIN q : i \in DOMAIN (q \o r) /\ (q \o r)[i] = q[i]
           /\ \A i \in DOMAIN (q \o r) : i \in DOMAIN q \/ \E j \in DOMAIN r : (q \o r)[i] = r[j] /\ i > Len(q)
<1>1. PICK a, b, t : a = Len(q) /\ b = Len(r) /\ t = q \o r  OBVIOUS
<1>2. /\ a \in Nat /\ b \in Nat /\ t \in Seq(S) /\ Len(t) = a + b
      /\ DOMAIN q = 1..a /\ DOMAIN r = 1..b /\ DOMAIN t = 1..a + b
  BY <1>1
<1>3. \A i \in 1..a + b : t[i] = IF i <= a THEN q[i] ELSE r[i - a]  BY <1>1
<1>4. ASSUME NEW i \in DOMAIN t, i \notin DOMAIN q
      PROVE  \E j \in DOMAIN r : t[i] = r[j] /\ i > a
  <2>1. i \in 1..a + b /\ i - a \in DOMAIN r /\ i > a  BY <1>2, <1>4
  <2>2. t[i] = r[i - a]  BY <1>2, <1>3, <2>1
  <2> QED  BY <2>1, <2>2
<1>5. \A i \in DOMAIN q : i \in DOMAIN t /\ t[i] = q[i]  BY <1>2, <1>3
<1> QED  BY <1>1, <1>2, <1>4, <1>5

LEMMA PushIs ==
    ASSUME NEW S, NEW q \in Seq(S), NEW m \in S
    PROVE  /\ Append(q, m) \in Seq(S)
           /\ \A i \in DOMAIN q : i \in DOMAIN Append(q, m) /\ Append(q, m)[i] = q[i]
           /\ \A i \in DOMAIN Append(q, m) : i \in DOMAIN q \/ (i = Len(q) + 1 /\ Append(q, m)[i] = m)
           /\ Len(q) + 1 \in DOMAIN Append(q, m)
<1>1. /\ Append(q, m) \in Seq(S) /\ Len(Append(q, m)) = Len(q) + 1 /\ Len(q) \in Nat
      /\ \A i \in 1..Len(q) : Append(q, m)[i] = q[i]
      /\ Append(q, m)[Len(q) + 1] = m
  OBVIOUS
<1>2. DOMAIN q = 1..Len(q) /\ DOMAIN Append(q, m) = 1..Len(q) + 1  BY <1>1
<1> QED  BY <1>1, <1>2

-----------------------------------------------------------------------------
(* Frames *)

LEMMA PairIs == \A k \in Pair : /\ k[1] \in Device /\ k[2] \in Device /\ k[1] # k[2] /\ k = <<k[1], k[2]>>
                                /\ <<k[2], k[1]>> \in Pair /\ k[2] \in Peers(k[1])
BY DEF Pair, Peers

LEMMA PeerIs ==
    \A d \in Device : \A p \in Peers(d) : p \in Device /\ p # d /\ <<d, p>> \in Pair /\ <<p, d>> \in Pair
BY DEF Pair, Peers

LEMMA LengthIs == ASSUME NEW content  PROVE FrameLength(content) \in Nat \ {0}
BY BleAssumption DEF FrameLength

\* The chunks of the frame that d makes in this step.
Fresh(d, content) ==
    {c \in ChunkType : /\ c.of = d /\ c.n = made[d] + 1 /\ c.life = life[d] /\ c.content = content
                       /\ c.id = frameCounter'[d] /\ Cut1(c)}

LEMMA OnAirIs ==
    ASSUME NEW S, NEW chunks \in Seq(S), NEW air \in OnAir(chunks)
    PROVE  air \in Seq(S)
<1>1. PICK pick \in UNION {[1..m -> DOMAIN chunks] : m \in 0..Len(chunks)} :
          air = [i \in DOMAIN pick |-> chunks[pick[i]]]
  BY DEF OnAir
<1>2. PICK m \in 0..Len(chunks) : pick \in [1..m -> DOMAIN chunks]  OBVIOUS
<1>3. m \in Nat /\ \A i \in 1..m : chunks[pick[i]] \in S  BY <1>2
<1>4. air \in [1..m -> S]  BY <1>1, <1>2, <1>3
<1> QED  BY <1>3, <1>4

LEMMA ChunksAre ==
    ASSUME RangesInv, NEW d \in Device, NEW content \in Nat, NEW read \in Nat, frameCounter'[d] = read + 1
    PROVE  MakeChunks(d, NextFrameId(read), content) \in Seq(Fresh(d, content))
<1>0. made[d] \in Nat /\ life[d] \in Nat  BY DEF RangesInv
<1>1. PICK length \in Nat \ {0} : length = FrameLength(content)  BY LengthIs
<1>2. PICK N \in Nat \ {0} : N = ChunkCount(length)  BY CountIs
<1>3. ChunkSize \in Nat \ {0}  BY BleAssumption
<1> DEFINE c(i) == [kind |-> "chunk", id |-> read + 1, total |-> N, index |-> i - 1, length |-> length,
                    size |-> IF i * ChunkSize <= length THEN ChunkSize ELSE length - (i - 1) * ChunkSize,
                    content |-> content, of |-> d, n |-> made[d] + 1, life |-> life[d]]
<1>4. MakeChunks(d, NextFrameId(read), content) = [i \in 1..N |-> c(i)]
  BY <1>1, <1>2 DEF MakeChunks, NextFrameId
<1>5. ASSUME NEW i \in 1..N  PROVE c(i) \in Fresh(d, content)
  <2>1. PICK j \in 0..N - 1 : j = i - 1  OBVIOUS
  <2>2. j + 1 = i /\ j \in Nat /\ j < N  BY <2>1
  <2>3. c(i).size = ChunkBytes(j, length)  BY <2>1, <2>2 DEF ChunkBytes
  <2>4. ChunkBytes(j, length) \in Nat  BY <1>2, <1>3, BytesIs
  <2>5. c(i) \in ChunkType  BY <1>0, <2>1, <2>2, <2>3, <2>4 DEF ChunkType
  <2>6. c(i).size = IF (c(i).index + 1) * ChunkSize <= length THEN ChunkSize ELSE length - c(i).index * ChunkSize
    BY <2>1, <2>2
  <2>7. Cut1(c(i))  BY <1>1, <1>2, <2>1, <2>2, <2>6 DEF Cut1
  <2> QED  BY <2>5, <2>7 DEF Fresh
<1> HIDE DEF c
<1> QED  BY <1>4, <1>5

LEMMA FreshIs == ASSUME NEW d, NEW content, NEW air \in Seq(Fresh(d, content))
                 PROVE  /\ air \in Seq(ChunkType) /\ air \in Seq(Message)
                        /\ \A i \in DOMAIN air : air[i] \in Fresh(d, content)
<1>1. Fresh(d, content) \subseteq ChunkType /\ Fresh(d, content) \subseteq Message  BY DEF Fresh, Message
<1> HIDE DEF Fresh
<1> QED  BY <1>1

\* What d's frame for p, sent by way of via, does to the queues.
Sent(d, p, via, state, air, downs, ups) ==
    /\ down' \in [Pair -> Seq(Message)] /\ up' \in [Pair -> Seq(ChunkType)]
    /\ \A k \in Pair : \/ down'[k] = downs[k]
                       \/ k = <<d, p>> /\ via = "write" /\ state = "ready" /\ down'[k] = downs[k] \o air
    /\ \A k \in Pair : \/ up'[k] = ups[k]
                       \/ k = <<p, d>> /\ via = "notify" /\ conn[k] = "ready" /\ up'[k] = ups[k] \o air

LEMMA TransmitIs ==
    ASSUME RangesInv, NEW d \in Device, NEW p \in Peers(d), NEW via, NEW content \in Nat, NEW state,
           NEW downs \in [Pair -> Seq(Message)], NEW ups \in [Pair -> Seq(ChunkType)], NEW read \in Nat,
           Transmit(d, p, via, content, state, downs, ups, read)
    PROVE  /\ frameCounter' = [frameCounter EXCEPT ![d] = read + 1]
           /\ made' = [made EXCEPT ![d] = made[d] + 1]
           /\ spent' \in [Faults -> Nat] /\ \A f \in Faults : spent'[f] <= most[f]
           /\ \E air \in Seq(Fresh(d, content)) : Sent(d, p, via, state, air, downs, ups)
<1> DEFINE chunks == MakeChunks(d, NextFrameId(read), content)
<1>3. /\ frameCounter' = [frameCounter EXCEPT ![d] = read + 1]
      /\ made' = [made EXCEPT ![d] = made[d] + 1]
  BY DEF Transmit, NextFrameId
<1>1. chunks \in Seq(Fresh(d, content))
  <2>1. frameCounter'[d] = read + 1  BY <1>3 DEF RangesInv
  <2> QED  BY <2>1, ChunksAre
<1>2. PICK air \in OnAir(chunks) :
          /\ Len(air) # Len(chunks) => spent.lost < most.lost
          /\ spent' = [spent EXCEPT !.lost = @ + IF Len(air) = Len(chunks) THEN 0 ELSE 1]
          /\ down' = IF via = "write" /\ state = "ready"
                     THEN [downs EXCEPT ![<<d, p>>] = @ \o air] ELSE downs
          /\ up' = IF via = "notify" /\ conn[<<p, d>>] = "ready"
                   THEN [ups EXCEPT ![<<p, d>>] = @ \o air] ELSE ups
  BY DEF Transmit
<1>4. air \in Seq(Fresh(d, content))  BY <1>1, OnAirIs
<1> HIDE DEF chunks
<1>5. PICK a : a = (IF Len(air) = Len(chunks) THEN 0 ELSE 1)  OBVIOUS
<1>6. a \in {0, 1} /\ (a = 1 => spent.lost < most.lost)  BY <1>2, <1>5
<1>7. spent' = [spent EXCEPT !.lost = @ + a]  BY <1>2, <1>5
<1>8. spent \in [Faults -> Nat] /\ most \in [Faults -> Nat] /\ \A f \in Faults : spent[f] <= most[f]
  BY DEF RangesInv
<1>9. spent' \in [Faults -> Nat] /\ \A f \in Faults : spent'[f] <= most[f]
  <2>1. spent.lost \in Nat /\ most.lost \in Nat /\ spent.lost <= most.lost  BY <1>8 DEF Faults
  <2>2. PICK l : l = spent.lost + a  OBVIOUS
  <2>3. l \in Nat /\ l <= most.lost  BY <1>6, <2>1, <2>2
  <2>4. spent' = [spent EXCEPT !.lost = l]  BY <1>7, <1>8, <2>2 DEF Faults
  <2> QED  BY <1>8, <2>3, <2>4 DEF Faults
<1>10. <<d, p>> \in Pair /\ <<p, d>> \in Pair  BY PeerIs
<1>11. air \in Seq(ChunkType) /\ air \in Seq(Message)  BY <1>4, FreshIs
<1>12. PICK q, r : q = downs[<<d, p>>] \o air /\ r = ups[<<p, d>>] \o air  OBVIOUS
<1>13. q \in Seq(Message) /\ r \in Seq(ChunkType)
  <2>1. downs[<<d, p>>] \in Seq(Message) /\ ups[<<p, d>>] \in Seq(ChunkType)  BY <1>10
  <2> QED  BY <1>11, <1>12, <2>1, JoinIs
<1>14. /\ down' = IF via = "write" /\ state = "ready" THEN [downs EXCEPT ![<<d, p>>] = q] ELSE downs
       /\ up' = IF via = "notify" /\ conn[<<p, d>>] = "ready" THEN [ups EXCEPT ![<<p, d>>] = r] ELSE ups
  BY <1>2, <1>12
<1>15. Sent(d, p, via, state, air, downs, ups)
  <2>1. down' \in [Pair -> Seq(Message)]  BY <1>13, <1>14
  <2>2. up' \in [Pair -> Seq(ChunkType)]  BY <1>13, <1>14
  <2>3. \A k \in Pair : \/ down'[k] = downs[k]
                        \/ k = <<d, p>> /\ via = "write" /\ state = "ready" /\ down'[k] = downs[k] \o air
    BY <1>10, <1>12, <1>14
  <2>4. \A k \in Pair : \/ up'[k] = ups[k]
                        \/ k = <<p, d>> /\ via = "notify" /\ conn[k] = "ready" /\ up'[k] = ups[k] \o air
    BY <1>10, <1>12, <1>14
  <2> QED  BY <2>1, <2>2, <2>3, <2>4 DEF Sent
<1> QED  BY <1>3, <1>4, <1>9, <1>15

\* How d's frame gets its id: a callback takes the next one, and the ids begin again when a call has
\* read the counter before; a call goes on from what it has read.
Numbers(d) ==
    \/ /\ frameCounter' = [frameCounter EXCEPT ![d] = frameCounter[d] + 1] /\ sending' = sending
       /\ life' = IF sending[d] = {} THEN life ELSE [life EXCEPT ![d] = life[d] + 1]
    \/ /\ \E s \in sending[d] : frameCounter' = [frameCounter EXCEPT ![d] = s.read + 1]
       /\ sending' = [sending EXCEPT ![d] = {}] /\ life' = life

\* A step in which d sends a frame to p; downs: the queues to the peripherals before.
Sends(d, p, via, downs) ==
    /\ Numbers(d)
    /\ made' = [made EXCEPT ![d] = made[d] + 1]
    /\ spent' \in [Faults -> Nat] /\ \A f \in Faults : spent'[f] <= most[f]
    /\ \E content \in Nat : \E air \in Seq(Fresh(d, content)) :
           Sent(d, p, via, conn'[<<d, p>>], air, downs, up)
    /\ downs \in [Pair -> Seq(Message)]
    /\ UNCHANGED <<fixed, run, found, known, takenVars, ends, seen, starts, heard>>

LEMMA AnnounceIs ==
    ASSUME RangesInv, NEW d \in Device, NEW p \in Peers(d), NEW via, NEW state,
           NEW downs \in [Pair -> Seq(Message)], up \in [Pair -> Seq(ChunkType)],
           Announce(d, p, via, state, downs)
    PROVE  /\ Numbers(d) /\ made' = [made EXCEPT ![d] = made[d] + 1]
           /\ spent' \in [Faults -> Nat] /\ \A f \in Faults : spent'[f] <= most[f]
           /\ \E content \in Nat : \E air \in Seq(Fresh(d, content)) : Sent(d, p, via, state, air, downs, up)
           /\ UNCHANGED <<starts, heard>>
<1>1. /\ Transmit(d, p, via, starts[d], state, downs, up, frameCounter[d])
      /\ life' = IF sending[d] = {} THEN life ELSE [life EXCEPT ![d] = life[d] + 1]
      /\ UNCHANGED <<sending, starts, heard>>
  BY DEF Announce
<1>2. starts[d] \in Nat /\ frameCounter[d] \in Nat  BY DEF RangesInv
<1>3. /\ frameCounter' = [frameCounter EXCEPT ![d] = frameCounter[d] + 1]
      /\ made' = [made EXCEPT ![d] = made[d] + 1]
      /\ spent' \in [Faults -> Nat] /\ \A f \in Faults : spent'[f] <= most[f]
      /\ \E air \in Seq(Fresh(d, starts[d])) : Sent(d, p, via, state, air, downs, up)
  BY <1>1, <1>2, TransmitIs
<1> QED  BY <1>1, <1>2, <1>3 DEF Numbers

LEMMA TakenIs ==
    ASSUME AirInv, NEW k \in Pair, down[k] # <<>>
    PROVE  /\ Taken(k) \in [Pair -> Seq(Message)] /\ Taken(k)[k] = Tail(down[k])
           /\ \A l \in Pair : l # k => Taken(k)[l] = down[l]
           /\ Head(down[k]) = down[k][1] /\ 1 \in DOMAIN down[k] /\ down[k][1] \in Message
<1>1. down \in [Pair -> Seq(Message)] /\ down[k] \in Seq(Message)  BY DEF AirInv
<1>2. PICK t : t = Tail(down[k])  OBVIOUS
<1>3. t \in Seq(Message) /\ Head(down[k]) = down[k][1] /\ 1 \in DOMAIN down[k] /\ down[k][1] \in Message
  BY <1>1, <1>2, TailIs
<1>4. Taken(k) = [down EXCEPT ![k] = t]  BY <1>2 DEF Taken
<1> QED  BY <1>1, <1>2, <1>3, <1>4

\* The queues when the central of k has found the characteristics.
Asked(k) == [down EXCEPT ![k] = Append(@, [kind |-> "subscribe"])]

LEMMA AskedIs ==
    ASSUME AirInv, NEW k \in Pair
    PROVE  /\ Asked(k) \in [Pair -> Seq(Message)] /\ Asked(k)[k] = Append(down[k], [kind |-> "subscribe"])
           /\ \A l \in Pair : l # k => Asked(k)[l] = down[l]
<1>1. down \in [Pair -> Seq(Message)] /\ down[k] \in Seq(Message) /\ [kind |-> "subscribe"] \in Message
  BY DEF AirInv, Message
<1>2. PICK t : t = Append(down[k], [kind |-> "subscribe"])  OBVIOUS
<1>3. t \in Seq(Message)  BY <1>1, <1>2, PushIs
<1>4. Asked(k) = [down EXCEPT ![k] = t]  BY <1>2 DEF Asked
<1> QED  BY <1>1, <1>2, <1>3, <1>4

LEMMA SendDiscovered ==
    ASSUME TypeInv, NEW k \in Pair,
           DidDiscoverCharacteristics(k[1], k[2]) \/ OnServicesDiscovered(k[1], k[2])
    PROVE  /\ conn[k] = "up" /\ conn' = [conn EXCEPT ![k] = "ready"]
           /\ tx' = [tx EXCEPT ![k[1]] = @ \cup {k[2]}]
           /\ Sends(k[1], k[2], "write", IF platform[k[1]] = "ios" THEN Asked(k) ELSE down)
           /\ UNCHANGED <<subs, view>>
<1> DEFINE queues == IF platform[k[1]] = "ios" THEN Asked(k) ELSE down
<1>1. k = <<k[1], k[2]>> /\ k[1] \in Device /\ k[2] \in Peers(k[1])  BY PairIs
<1>2. Discovered(k[1], k[2], queues)
  BY <1>1 DEF DidDiscoverCharacteristics, OnServicesDiscovered, Asked
<1>3. queues \in [Pair -> Seq(Message)] /\ up \in [Pair -> Seq(ChunkType)]
  BY AskedIs DEF TypeInv, AirInv
<1> HIDE DEF queues
<1>4. conn[k] = "up" /\ conn' = [conn EXCEPT ![k] = "ready"] /\ tx' = [tx EXCEPT ![k[1]] = @ \cup {k[2]}]
  BY <1>1, <1>2 DEF Discovered
<1>6. Announce(k[1], k[2], "write", "ready", queues)  BY <1>2 DEF Discovered
<1>7. RangesInv  BY DEF TypeInv
<1>8. /\ Numbers(k[1]) /\ made' = [made EXCEPT ![k[1]] = made[k[1]] + 1]
      /\ spent' \in [Faults -> Nat] /\ \A f \in Faults : spent'[f] <= most[f]
      /\ \E content \in Nat : \E air \in Seq(Fresh(k[1], content)) :
             Sent(k[1], k[2], "write", "ready", air, queues, up)
      /\ UNCHANGED <<starts, heard>>
  BY <1>1, <1>3, <1>6, <1>7, AnnounceIs
<1>9. conn'[<<k[1], k[2]>>] = "ready"
  <2>1. DOMAIN conn = Pair  BY <1>7 DEF RangesInv
  <2>2. conn'[k] = "ready"  BY <1>4, <2>1
  <2> QED  BY <1>1, <2>2
<1>10. UNCHANGED <<fixed, run, found, known, subs, takenVars, ends, appVars>>
  BY <1>2 DEF Discovered
<1>11. UNCHANGED <<fixed, run, found, known, takenVars, ends, seen, starts, heard>> /\ UNCHANGED <<subs, view>>
  BY <1>8, <1>10 DEF appVars
<1>12. Sends(k[1], k[2], "write", queues)  BY <1>3, <1>8, <1>9, <1>11 DEF Sends
<1> QED  BY <1>4, <1>11, <1>12 DEF queues

LEMMA SendSubscribed ==
    ASSUME TypeInv, NEW k \in Pair, DidSubscribe(k) \/ OnDescriptorWriteRequest(k)
    PROVE  /\ down[k] # <<>> /\ down[k][1].kind = "subscribe"
           /\ subs' = [subs EXCEPT ![k[2]] = @ \cup {k[1]}]
           /\ \E via : Sends(k[2], k[1], via, Taken(k))
           /\ view' \in [Device -> [Device -> Shown]]
           /\ UNCHANGED <<tx, conn>>
<1>1. /\ k[2] \in Device /\ k[1] \in Peers(k[2]) /\ k[1] \in Device
  BY PairIs DEF Peers
<1>2. PICK via :
          /\ Next1(k, "subscribe")
          /\ subs' = [subs EXCEPT ![k[2]] = @ \cup {k[1]}]
          /\ Announce(k[2], k[1], via, conn[<<k[2], k[1]>>], Taken(k))
          /\ view' = view \/ view' = [view EXCEPT ![k[2]][k[1]] = "connected"]
          /\ UNCHANGED <<fixed, run, found, known, tx, takenVars, conn, ends, seen>>
  BY DEF DidSubscribe, OnDescriptorWriteRequest, appVars
<1>3. RangesInv /\ AirInv  BY DEF TypeInv
<1>4. down[k] # <<>> /\ Head(down[k]).kind = "subscribe"  BY <1>2 DEF Next1
<1>5. Taken(k) \in [Pair -> Seq(Message)] /\ down[k][1].kind = "subscribe" /\ up \in [Pair -> Seq(ChunkType)]
  BY <1>3, <1>4, TakenIs DEF AirInv
<1>7. /\ Numbers(k[2]) /\ made' = [made EXCEPT ![k[2]] = made[k[2]] + 1]
      /\ spent' \in [Faults -> Nat] /\ \A f \in Faults : spent'[f] <= most[f]
      /\ \E content \in Nat : \E air \in Seq(Fresh(k[2], content)) :
             Sent(k[2], k[1], via, conn[<<k[2], k[1]>>], air, Taken(k), up)
      /\ UNCHANGED <<starts, heard>>
  <2>1. PICK downs, state : downs = Taken(k) /\ state = conn[<<k[2], k[1]>>]  OBVIOUS
  <2>2. Announce(k[2], k[1], via, state, downs)  BY <1>2, <2>1
  <2>3. downs \in [Pair -> Seq(Message)]  BY <1>5, <2>1
  <2> QED  BY <1>1, <1>3, <1>5, <2>1, <2>2, <2>3, AnnounceIs
<1>8. /\ UNCHANGED <<fixed, run, found, known, takenVars, ends, seen, starts, heard>>
      /\ UNCHANGED <<tx, conn>>
  BY <1>2, <1>7
<1>9. Sends(k[2], k[1], via, Taken(k))  BY <1>5, <1>7, <1>8 DEF Sends
<1>10. view' \in [Device -> [Device -> Shown]]
  <2>1. view \in [Device -> [Device -> Shown]] /\ "connected" \in Shown  BY <1>3 DEF RangesInv, Shown
  <2>2. PICK row : row = [view[k[2]] EXCEPT ![k[1]] = "connected"]  OBVIOUS
  <2>3. row \in [Device -> Shown]  BY <1>1, <2>1, <2>2
  <2>4. view' = view \/ view' = [view EXCEPT ![k[2]] = row]  BY <1>2, <2>2
  <2> QED  BY <1>1, <2>1, <2>3, <2>4
<1> QED  BY <1>2, <1>4, <1>5, <1>8, <1>9, <1>10

LEMMA SendsNumbered ==
    ASSUME TypeInv, NEW d \in Device, SendNumbered(d)
    PROVE  (\E p \in Peers(d) : \E via : Sends(d, p, via, down)) /\ UNCHANGED <<tx, subs, conn, view>>
<1>1. PICK s \in sending[d] :
          /\ Transmit(d, s.to, Route(d, s.to, subs[d]), Data, conn[<<d, s.to>>], down, up, s.read)
          /\ sending' = [sending EXCEPT ![d] = {}]
          /\ UNCHANGED <<fixed, run, moduleVars, takenVars, conn, ends, appVars, historyVars>>
  BY DEF SendNumbered
<1>2. PICK p, via, read : p = s.to /\ via = Route(d, p, subs[d]) /\ read = s.read  OBVIOUS
<1>3. RangesInv /\ down \in [Pair -> Seq(Message)] /\ up \in [Pair -> Seq(ChunkType)] /\ Data \in Nat
  BY DEF TypeInv, AirInv, Data
<1>4. p \in Peers(d) /\ read \in Nat  BY <1>2, <1>3 DEF RangesInv
<1>5. Transmit(d, p, via, Data, conn[<<d, p>>], down, up, read)  BY <1>1, <1>2
<1>6. /\ frameCounter' = [frameCounter EXCEPT ![d] = read + 1]
      /\ made' = [made EXCEPT ![d] = made[d] + 1]
      /\ spent' \in [Faults -> Nat] /\ \A f \in Faults : spent'[f] <= most[f]
      /\ \E air \in Seq(Fresh(d, Data)) : Sent(d, p, via, conn[<<d, p>>], air, down, up)
  BY <1>3, <1>4, <1>5, TransmitIs
<1>7. /\ UNCHANGED <<fixed, run, found, known, takenVars, ends, seen, starts, heard>>
      /\ UNCHANGED <<tx, subs, conn, view, life>>
  BY <1>1 DEF moduleVars, appVars, historyVars
<1>8. Numbers(d)  BY <1>1, <1>2, <1>6, <1>7 DEF Numbers
<1>9. Sends(d, p, via, down)  BY <1>3, <1>6, <1>7, <1>8 DEF Sends
<1> QED  BY <1>4, <1>7, <1>9

\* A step of which nothing is seen outside: a call reads the counter, or no step at all.
Quiet == UNCHANGED <<fixed, run, moduleVars, takenVars, airVars, appVars, historyVars>>

LEMMA QuietSteps ==
    ASSUME \/ \E d \in Device : \E p \in Peers(d) : SendFrame(d, p)
           \/ UNCHANGED vars
    PROVE  Quiet
BY DEF SendFrame, vars, Quiet

-----------------------------------------------------------------------------
(* The other steps *)

\* The connections of gone break.
Broken(gone) ==
    /\ gone \subseteq Pair
    /\ conn' = [k \in Pair |-> IF k \in gone THEN "out" ELSE conn[k]]
    /\ down' = [k \in Pair |-> IF k \in gone THEN <<>> ELSE down[k]]
    /\ up' = [k \in Pair |-> IF k \in gone THEN <<>> ELSE up[k]]
    /\ ends' \in [Pair -> SUBSET Device]
    /\ \A k \in Pair \ gone : conn[k] # "out" => ends'[k] = {}
    /\ heard' = {h \in heard : h[2] \notin gone}
    /\ spent' \in [Faults -> Nat] /\ \A f \in Faults : spent'[f] <= most[f]
    /\ UNCHANGED <<fixed, found, made, got, starts>>

LEMMA SpentIs ==
    ASSUME RangesInv, NEW f \in Faults, spent[f] < most[f], spent' = [spent EXCEPT ![f] = spent[f] + 1]
    PROVE  spent' \in [Faults -> Nat] /\ \A g \in Faults : spent'[g] <= most[g]
<1>1. spent \in [Faults -> Nat] /\ most \in [Faults -> Nat] /\ \A g \in Faults : spent[g] <= most[g]
  BY DEF RangesInv
<1>2. spent[f] + 1 \in Nat /\ spent[f] + 1 <= most[f]  BY <1>1
<1> QED  BY <1>1, <1>2

LEMMA CutBreaks ==
    ASSUME TypeInv, NEW k \in Pair, Cut(k)
    PROVE  Broken({k}) /\ UNCHANGED <<run, known, tx, subs, frameVars, takenVars, view, seen, life>>
<1>1. RangesInv /\ k[1] \in Device /\ k[2] \in Device  BY PairIs DEF TypeInv
<1>2. spent' \in [Faults -> Nat] /\ \A f \in Faults : spent'[f] <= most[f]
  <2>1. spent.cut < most.cut /\ spent' = [spent EXCEPT !.cut = @ + 1]  BY DEF Cut
  <2>2. "cut" \in Faults  BY DEF Faults
  <2>3. spent["cut"] < most["cut"] /\ spent' = [spent EXCEPT !["cut"] = spent["cut"] + 1]  BY <2>1
  <2> QED  BY <1>1, <2>2, <2>3, SpentIs
<1> DEFINE owed == [ends EXCEPT ![k] = {k[1], k[2]}]
<1>3. ends \in [Pair -> SUBSET Device] /\ owed \in [Pair -> SUBSET Device]  BY <1>1 DEF RangesInv
<1>4. Break({k}, owed)  BY DEF Cut
<1>5. ends' = owed  BY <1>3, <1>4 DEF Break
<1>6. \A l \in Pair \ {k} : conn[l] # "out" => ends'[l] = {}
  BY <1>3, <1>5 DEF TypeInv, LinkInv
<1>7. UNCHANGED <<fixed, run, moduleVars, frameVars, takenVars, appVars, starts, life>>  BY DEF Cut
<1>8. /\ UNCHANGED <<fixed, found, made, got, starts>>
      /\ UNCHANGED <<run, known, tx, subs, frameVars, takenVars, view, seen, life>>
  BY <1>7 DEF moduleVars, frameVars, takenVars, appVars
<1> HIDE DEF owed
<1> QED  BY <1>2, <1>3, <1>4, <1>5, <1>6, <1>8 DEF Broken, Break

LEMMA EndBreaks ==
    ASSUME TypeInv, NEW d \in Device, Stop(d) \/ Die(d)
    PROVE  /\ Broken(Own(d)) /\ Forgotten(d)
           /\ \/ UNCHANGED <<frameCounter, sending, life, seen>>
              \/ /\ frameCounter' = [frameCounter EXCEPT ![d] = 0] /\ sending' = [sending EXCEPT ![d] = {}]
                 /\ life' = [life EXCEPT ![d] = @ + 1] /\ seen' = [seen EXCEPT ![d] = {}]
<1>1. PICK heardOf :
          /\ Forgotten(d) /\ Break(Own(d), Owed(d, heardOf))
          /\ UNCHANGED <<fixed, found, made, got, starts>>
          /\ \/ UNCHANGED <<frameCounter, sending, life, seen>>
             \/ /\ frameCounter' = [frameCounter EXCEPT ![d] = 0] /\ sending' = [sending EXCEPT ![d] = {}]
                /\ life' = [life EXCEPT ![d] = @ + 1] /\ seen' = [seen EXCEPT ![d] = {}]
  <2>1. CASE Stop(d)  BY <2>1 DEF Stop, frameVars
  <2>2. CASE Die(d)   BY <2>2 DEF Die
  <2> QED  BY <2>1, <2>2
<1>2. RangesInv /\ Own(d) \subseteq Pair  BY DEF TypeInv, Own
<1>3. spent' \in [Faults -> Nat] /\ \A f \in Faults : spent'[f] <= most[f]
  <2>1. spent.ends < most.ends /\ spent' = [spent EXCEPT !.ends = @ + 1]  BY <1>1 DEF Forgotten
  <2>2. "ends" \in Faults  BY DEF Faults
  <2>3. spent["ends"] < most["ends"] /\ spent' = [spent EXCEPT !["ends"] = spent["ends"] + 1]  BY <2>1
  <2> QED  BY <1>2, <2>2, <2>3, SpentIs
<1> DEFINE owed == Owed(d, heardOf)
<1>4. \A k \in Pair : owed[k] = IF d \notin {k[1], k[2]} THEN ends[k]
                                ELSE {e \in {k[1], k[2]} : /\ \/ e \in ends[k]
                                                              \/ k \in Own(d) /\ conn[k] # "asked"
                                                           /\ e = d => k \in heardOf}
  BY DEF Owed
<1>5. \A k \in Pair : owed[k] \in SUBSET Device /\ (k \notin Own(d) => owed[k] \subseteq ends[k])
  <2> SUFFICES ASSUME NEW k \in Pair
               PROVE  owed[k] \in SUBSET Device /\ (k \notin Own(d) => owed[k] \subseteq ends[k])
    OBVIOUS
  <2>1. k[1] \in Device /\ k[2] \in Device /\ ends[k] \in SUBSET Device  BY <1>2, PairIs DEF RangesInv
  <2> QED  BY <1>4, <2>1
<1> HIDE DEF owed
<1>6. ends' = [k \in Pair |-> owed[k]]  BY <1>1 DEF Break, owed
<1>7. ends' \in [Pair -> SUBSET Device]  BY <1>5, <1>6
<1>8. \A k \in Pair \ Own(d) : conn[k] # "out" => ends'[k] = {}
  <2>1. \A k \in Pair : conn[k] # "out" => ends[k] = {}  BY DEF TypeInv, LinkInv
  <2> QED  BY <1>5, <1>6, <2>1
<1> QED  BY <1>1, <1>2, <1>3, <1>7, <1>8 DEF Broken, Break

\* A chunk arrives at d from p over k; the queues lose their first message at most.
Arrives(d, p, k, chunk) ==
    /\ d \in Device /\ p \in Device /\ k \in Pair
    /\ k = <<d, p>> \/ k = <<p, d>>
    /\ chunk \in ChunkType /\ chunk.of = p /\ conn[k] = "ready"
    /\ \/ d = k[1] /\ chunk = up[k][1] /\ up[k] # <<>> /\ up' = [up EXCEPT ![k] = Tail(@)] /\ down' = down
       \/ d = k[2] /\ chunk = down[k][1] /\ down[k] # <<>> /\ down' = Taken(k) /\ up' = up
    /\ ConsumeChunk(d, p, k, chunk)
    /\ UNCHANGED <<fixed, run, moduleVars, frameVars, conn, ends, starts, life, spent>>

LEMMA ArrivesIs ==
    ASSUME TypeInv, NEW k \in Pair, WriteArrives(k) \/ NotificationArrives(k)
    PROVE  \E d, p, chunk : Arrives(d, p, k, chunk)
<1>0. k = <<k[1], k[2]>> /\ k[1] \in Device /\ k[2] \in Device  BY PairIs
<1>1. CASE WriteArrives(k)
  <2>1. down[k] # <<>> /\ Head(down[k]).kind = "chunk" /\ down' = Taken(k)
        /\ ConsumeChunk(k[2], k[1], k, Head(down[k]))
        /\ UNCHANGED <<fixed, run, moduleVars, frameVars, conn, ends, up, starts, life, spent>>
    BY <1>1 DEF WriteArrives, Next1
  <2>2. PICK chunk : chunk = down[k][1]  OBVIOUS
  <2>3. Head(down[k]) = chunk /\ 1 \in DOMAIN down[k] /\ chunk \in Message /\ chunk.kind = "chunk"
    BY <2>1, <2>2, TakenIs DEF TypeInv
  <2>4. chunk \in ChunkType
    <3>1. chunk \notin [kind : {"connect", "subscribe"}]  BY <2>3
    <3> QED  BY <2>3, <3>1 DEF Message
  <2>5. chunk.of = k[1]  BY <2>2, <2>3 DEF TypeInv, AirInv
  <2>6. conn[k] = "ready"  BY <2>2, <2>3 DEF TypeInv, LinkInv
  <2>7. Arrives(k[2], k[1], k, chunk)
    BY <1>0, <2>1, <2>2, <2>3, <2>4, <2>5, <2>6 DEF Arrives
  <2> QED  BY <2>7
<1>2. CASE NotificationArrives(k)
  <2>1. up[k] # <<>> /\ up' = [up EXCEPT ![k] = Tail(@)]
        /\ ConsumeChunk(k[1], k[2], k, Head(up[k]))
        /\ UNCHANGED <<fixed, run, moduleVars, frameVars, conn, ends, down, starts, life, spent>>
    BY <1>2 DEF NotificationArrives
  <2>2. up[k] \in Seq(ChunkType)  BY DEF TypeInv, AirInv
  <2>3. PICK chunk : chunk = up[k][1]  OBVIOUS
  <2>4. Head(up[k]) = chunk /\ 1 \in DOMAIN up[k] /\ chunk \in ChunkType  BY <2>1, <2>2, <2>3, TailIs
  <2>5. chunk.of = k[2]  BY <2>3, <2>4 DEF TypeInv, AirInv
  <2>6. conn[k] = "ready"  BY <2>1 DEF TypeInv, LinkInv
  <2>7. Arrives(k[1], k[2], k, chunk)
    BY <1>0, <2>1, <2>3, <2>4, <2>5, <2>6 DEF Arrives
  <2> QED  BY <2>7
<1> QED  BY <1>1, <1>2

LEMMA ConsumeIs ==
    ASSUME TypeInv, NEW d, NEW p, NEW k, NEW chunk, Arrives(d, p, k, chunk)
    PROVE  /\ arrived' = [arrived EXCEPT ![d] = @ \cup {chunk}]
           /\ DOMAIN assemblies' = Device /\ \A e \in Device : e # d => assemblies'[e] = assemblies[e]
           /\ view' \in [Device -> [Device -> Shown]]
           /\ DOMAIN seen' = Device /\ DOMAIN got' = Device
           /\ heard \subseteq heard' /\ heard' \subseteq heard \cup {<<d, k>>}
<1>1. d \in Device /\ p \in Device /\ ConsumeChunk(d, p, k, chunk)  BY DEF Arrives
<1>2. /\ arrived' = [arrived EXCEPT ![d] = @ \cup {chunk}]
      /\ \E a : assemblies' = [assemblies EXCEPT ![d] = a]
  BY <1>1 DEF ConsumeChunk
<1>3. \/ UNCHANGED <<got, view, seen, heard>>
      \/ \E f : got' = [got EXCEPT ![d] = @ \cup {f}] /\ Announced(d, p, k, f)
  BY <1>1 DEF ConsumeChunk
<1>4. /\ view' = view \/ view' = [view EXCEPT ![d][p] = "verified"]
      /\ seen' = seen \/ \E id : seen' = [seen EXCEPT ![d] = @ \cup {id}]
      /\ heard' = heard \/ heard' = heard \cup {<<d, k>>}
      /\ got' = got \/ \E f : got' = [got EXCEPT ![d] = @ \cup {f}]
  BY <1>3 DEF Announced
<1>5. DOMAIN seen = Device /\ DOMAIN got = Device /\ DOMAIN assemblies = Device  BY DEF TypeInv, AirInv
<1>6. view \in [Device -> [Device -> Shown]] /\ "verified" \in Shown  BY DEF TypeInv, RangesInv, Shown
<1>7. view' \in [Device -> [Device -> Shown]]  BY <1>1, <1>4, <1>6
<1>8. DOMAIN assemblies' = Device /\ \A e \in Device : e # d => assemblies'[e] = assemblies[e]
  BY <1>1, <1>2, <1>5
<1> QED  BY <1>2, <1>4, <1>5, <1>7, <1>8

\* The chunks in downs are under way to the same peripherals.
Within(downs) ==
    \A k \in Pair : \A i \in DOMAIN downs[k] :
        downs[k][i].kind = "chunk" => \E j \in DOMAIN down[k] : down[k][j] = downs[k][i]

LEMMA WithinTaken == ASSUME AirInv, NEW k \in Pair, down[k] # <<>>  PROVE Within(Taken(k))
<1>1. /\ Taken(k)[k] = Tail(down[k]) /\ \A l \in Pair : l # k => Taken(k)[l] = down[l]  BY TakenIs
<1>2. down[k] \in Seq(Message)  BY DEF AirInv
<1>3. \A i \in DOMAIN Tail(down[k]) : i + 1 \in DOMAIN down[k] /\ Tail(down[k])[i] = down[k][i + 1]
  BY <1>2, TailIs
<1> QED  BY <1>1, <1>3 DEF Within

LEMMA WithinAsked == ASSUME AirInv, NEW k \in Pair  PROVE Within(Asked(k))
<1>1. /\ Asked(k)[k] = Append(down[k], [kind |-> "subscribe"])
      /\ \A l \in Pair : l # k => Asked(k)[l] = down[l]
  BY AskedIs
<1>2. PICK t : t = Append(down[k], [kind |-> "subscribe"])  OBVIOUS
<1>3. down[k] \in Seq(Message) /\ [kind |-> "subscribe"] \in Message  BY DEF AirInv, Message
<1>4. /\ \A i \in DOMAIN down[k] : i \in DOMAIN t /\ t[i] = down[k][i]
      /\ \A i \in DOMAIN t : i \in DOMAIN down[k] \/ t[i] = [kind |-> "subscribe"]
  BY <1>2, <1>3, PushIs
<1>5. \A i \in DOMAIN t : t[i].kind = "chunk" => \E j \in DOMAIN down[k] : down[k][j] = t[i]  BY <1>4
<1> QED  BY <1>1, <1>2, <1>5 DEF Within

LEMMA WithinDown == Within(down)
BY DEF Within

\* What is under way after a send was before, or belongs to one new frame.
LEMMA SendChunks ==
    ASSUME TypeInv, NEW d \in Device, NEW p \in Peers(d), NEW via, NEW downs,
           Sends(d, p, via, downs), Within(downs)
    PROVE  /\ down' \in [Pair -> Seq(Message)] /\ up' \in [Pair -> Seq(ChunkType)]
           /\ \E content \in Nat :
                /\ \A k \in Pair : \A i \in DOMAIN down'[k] :
                       down'[k][i].kind = "chunk" =>
                           \/ \E j \in DOMAIN down[k] : down[k][j] = down'[k][i]
                           \/ k = <<d, p>> /\ conn'[k] = "ready" /\ down'[k][i] \in Fresh(d, content)
                /\ \A k \in Pair : \A i \in DOMAIN up'[k] :
                       \/ \E j \in DOMAIN up[k] : up[k][j] = up'[k][i]
                       \/ k = <<p, d>> /\ conn[k] = "ready" /\ up'[k][i] \in Fresh(d, content)
           /\ \A k \in Pair : down'[k] = downs[k] \/ conn'[k] = "ready"
           /\ \A k \in Pair : up'[k] = up[k] \/ conn[k] = "ready"
<1>1. PICK content \in Nat : \E air \in Seq(Fresh(d, content)) : Sent(d, p, via, conn'[<<d, p>>], air, downs, up)
  BY DEF Sends
<1>2. PICK air \in Seq(Fresh(d, content)) : Sent(d, p, via, conn'[<<d, p>>], air, downs, up)  BY <1>1
<1>3. /\ down' \in [Pair -> Seq(Message)] /\ up' \in [Pair -> Seq(ChunkType)]
      /\ \A k \in Pair : \/ down'[k] = downs[k]
                         \/ k = <<d, p>> /\ conn'[k] = "ready" /\ down'[k] = downs[k] \o air
      /\ \A k \in Pair : \/ up'[k] = up[k]
                         \/ k = <<p, d>> /\ conn[k] = "ready" /\ up'[k] = up[k] \o air
  BY <1>2 DEF Sent
<1>4. downs \in [Pair -> Seq(Message)] /\ up \in [Pair -> Seq(ChunkType)]  BY DEF Sends, TypeInv, AirInv
<1>5. air \in Seq(ChunkType) /\ air \in Seq(Message) /\ \A i \in DOMAIN air : air[i] \in Fresh(d, content)
  BY <1>2, FreshIs
<1>6. ASSUME NEW k \in Pair, NEW i \in DOMAIN down'[k], down'[k][i].kind = "chunk"
      PROVE  \/ \E j \in DOMAIN down[k] : down[k][j] = down'[k][i]
             \/ k = <<d, p>> /\ conn'[k] = "ready" /\ down'[k][i] \in Fresh(d, content)
  <2>1. CASE down'[k] = downs[k]  BY <1>6, <2>1 DEF Within
  <2>2. CASE k = <<d, p>> /\ conn'[k] = "ready" /\ down'[k] = downs[k] \o air
    <3>1. PICK q, t : q = downs[k] /\ t = q \o air  OBVIOUS
    <3>2. q \in Seq(Message)  BY <1>4, <3>1
    <3>3. /\ \A j \in DOMAIN q : t[j] = q[j]
          /\ \A j \in DOMAIN t : j \in DOMAIN q \/ \E l \in DOMAIN air : t[j] = air[l]
      BY <1>5, <3>1, <3>2, JoinIs
    <3>4. i \in DOMAIN t /\ down'[k][i] = t[i]  BY <1>6, <2>2, <3>1
    <3>5. CASE i \in DOMAIN q  BY <1>6, <3>1, <3>3, <3>4, <3>5 DEF Within
    <3>6. CASE \E l \in DOMAIN air : t[i] = air[l]  BY <1>5, <2>2, <3>4, <3>6
    <3> QED  BY <3>3, <3>4, <3>5, <3>6
  <2> QED  BY <1>3, <2>1, <2>2
<1>7. ASSUME NEW k \in Pair, NEW i \in DOMAIN up'[k]
      PROVE  \/ \E j \in DOMAIN up[k] : up[k][j] = up'[k][i]
             \/ k = <<p, d>> /\ conn[k] = "ready" /\ up'[k][i] \in Fresh(d, content)
  <2>1. CASE up'[k] = up[k]  BY <1>7, <2>1
  <2>2. CASE k = <<p, d>> /\ conn[k] = "ready" /\ up'[k] = up[k] \o air
    <3>1. PICK q, t : q = up[k] /\ t = q \o air  OBVIOUS
    <3>2. q \in Seq(ChunkType)  BY <1>4, <3>1
    <3>3. /\ \A j \in DOMAIN q : t[j] = q[j]
          /\ \A j \in DOMAIN t : j \in DOMAIN q \/ \E l \in DOMAIN air : t[j] = air[l]
      BY <1>5, <3>1, <3>2, JoinIs
    <3>4. i \in DOMAIN t /\ up'[k][i] = t[i]  BY <1>7, <2>2, <3>1
    <3>5. CASE i \in DOMAIN q  BY <3>1, <3>3, <3>4, <3>5
    <3>6. CASE \E l \in DOMAIN air : t[i] = air[l]  BY <1>5, <2>2, <3>4, <3>6
    <3> QED  BY <3>3, <3>4, <3>5, <3>6
  <2> QED  BY <1>3, <2>1, <2>2
<1> QED  BY <1>3, <1>6, <1>7

-----------------------------------------------------------------------------
(* Types *)

LEMMA TypeStart == Init => TypeInv
<1> SUFFICES ASSUME Init  PROVE TypeInv  OBVIOUS
<1>1. PICK scenario \in Scenarios : platform = scenario.platform /\ most = scenario.most  BY DEF Init
<1>2. /\ scenario \in [platform : [Device -> {"ios", "android"}], most : [Faults -> Nat]]
      /\ [platform |-> platform, most |-> most] = scenario
  BY <1>1, BleAssumption
<1>3. RangesInv
  <2>1. "none" \in Shown  BY DEF Shown
  <2>2. most \in [Faults -> Nat] /\ platform \in [Device -> {"ios", "android"}]  BY <1>1, <1>2
  <2> QED  BY <1>1, <1>2, <2>1, <2>2 DEF Init, RangesInv
<1>4. AirInv
  <2>1. \A k \in Pair : down[k] = <<>> /\ up[k] = <<>>  BY DEF Init
  <2>2. down \in [Pair -> Seq(Message)] /\ up \in [Pair -> Seq(ChunkType)]  BY DEF Init
  <2>3. \A k \in Pair : \A i \in DOMAIN down[k] : FALSE  BY <2>1
  <2>4. \A k \in Pair : \A i \in DOMAIN up[k] : FALSE  BY <2>1
  <2>5. arrived \in [Device -> SUBSET ChunkType] /\ heard \subseteq Device \X Pair  BY DEF Init
  <2>6. DOMAIN seen = Device /\ DOMAIN got = Device /\ DOMAIN assemblies = Device  BY DEF Init
  <2> QED  BY <2>2, <2>3, <2>4, <2>5, <2>6 DEF AirInv
<1>5. FiledInv
  <2>1. \A d \in Device : assemblies[d] = <<>>  BY DEF Init
  <2>2. \A d \in Device : \A key \in DOMAIN assemblies[d] : FALSE  BY <2>1
  <2> QED  BY <2>2 DEF FiledInv
<1>6. LinkInv
  <2>1. \A k \in Pair : down[k] = <<>> /\ up[k] = <<>> /\ conn[k] = "out"  BY DEF Init
  <2>2. \A k \in Pair : \A i \in DOMAIN down[k] : FALSE  BY <2>1
  <2>3. \A d \in Device : run[d] = FALSE  BY DEF Init
  <2> QED  BY <2>1, <2>2, <2>3 DEF LinkInv
<1> QED  BY <1>3, <1>4, <1>5, <1>6 DEF TypeInv

LEMMA SendRanges ==
    ASSUME TypeInv, NEW d \in Device, NEW p \in Peers(d), NEW via, NEW downs, Sends(d, p, via, downs),
           conn' \in [Pair -> {"out", "asked", "up", "ready"}],
           tx' \in [Device -> SUBSET Device], subs' \in [Device -> SUBSET Device],
           view' \in [Device -> [Device -> Shown]]
    PROVE  RangesInv'
<1>1. /\ Numbers(d) /\ made' = [made EXCEPT ![d] = made[d] + 1]
      /\ spent' \in [Faults -> Nat] /\ \A f \in Faults : spent'[f] <= most[f]
      /\ UNCHANGED <<platform, most, run, found, known, ends, starts>>
  BY DEF Sends, fixed
<1>2. RangesInv  BY DEF TypeInv
<1>3. /\ frameCounter \in [Device -> Nat] /\ made \in [Device -> Nat] /\ life \in [Device -> Nat]
      /\ sending \in [Device -> SUBSET [to : Device, read : Nat]]
      /\ \A e \in Device : frameCounter[e] <= made[e]
      /\ \A e \in Device : \A s \in sending[e] : s.to \in Peers(e) /\ s.read <= frameCounter[e]
  BY <1>2 DEF RangesInv
<1>4. /\ frameCounter' \in [Device -> Nat] /\ life' \in [Device -> Nat]
      /\ sending' \in [Device -> SUBSET [to : Device, read : Nat]]
      /\ \A e \in Device : frameCounter'[e] <= made[e] \/ (e = d /\ frameCounter'[e] <= made[e] + 1)
      /\ \A e \in Device : \A s \in sending'[e] : s.to \in Peers(e) /\ s.read <= frameCounter'[e]
  <2>1. CASE /\ frameCounter' = [frameCounter EXCEPT ![d] = frameCounter[d] + 1] /\ sending' = sending
             /\ life' = IF sending[d] = {} THEN life ELSE [life EXCEPT ![d] = life[d] + 1]
    <3>1. /\ frameCounter'[d] = frameCounter[d] + 1
          /\ \A e \in Device : e # d => frameCounter'[e] = frameCounter[e]
      BY <1>3, <2>1
    <3>2. \A e \in Device : \A s \in sending[e] : s.read <= frameCounter'[e]
      <4> SUFFICES ASSUME NEW e \in Device, NEW s \in sending[e]  PROVE s.read <= frameCounter'[e]  OBVIOUS
      <4>1. s.read \in Nat /\ frameCounter[e] \in Nat /\ s.read <= frameCounter[e]  BY <1>3
      <4> QED  BY <3>1, <4>1
    <3>3. life' \in [Device -> Nat]  BY <1>3, <2>1
    <3>4. \A e \in Device : frameCounter'[e] <= made[e] \/ (e = d /\ frameCounter'[e] <= made[e] + 1)
      BY <1>3, <3>1
    <3> QED  BY <1>3, <2>1, <3>2, <3>3, <3>4
  <2>2. ASSUME NEW s \in sending[d], frameCounter' = [frameCounter EXCEPT ![d] = s.read + 1],
               sending' = [sending EXCEPT ![d] = {}], life' = life
        PROVE  /\ frameCounter' \in [Device -> Nat] /\ life' \in [Device -> Nat]
               /\ sending' \in [Device -> SUBSET [to : Device, read : Nat]]
               /\ \A e \in Device : frameCounter'[e] <= made[e] \/ (e = d /\ frameCounter'[e] <= made[e] + 1)
               /\ \A e \in Device : \A t \in sending'[e] : t.to \in Peers(e) /\ t.read <= frameCounter'[e]
    <3>1. s.read \in Nat /\ s.read <= made[d]
      <4>1. s.read \in Nat /\ frameCounter[d] \in Nat /\ made[d] \in Nat /\ s.read <= frameCounter[d]  BY <1>3
      <4> QED  BY <1>3, <4>1
    <3>2. /\ frameCounter'[d] = s.read + 1 /\ \A e \in Device : e # d => frameCounter'[e] = frameCounter[e]
          /\ frameCounter' \in [Device -> Nat]
      BY <1>3, <2>2, <3>1
    <3>3. sending'[d] = {} /\ \A e \in Device : e # d => sending'[e] = sending[e]  BY <1>3, <2>2
    <3>4. \A e \in Device : frameCounter'[e] <= made[e] \/ (e = d /\ frameCounter'[e] <= made[e] + 1)
      BY <1>3, <3>1, <3>2
    <3>5. \A e \in Device : \A t \in sending'[e] : t.to \in Peers(e) /\ t.read <= frameCounter'[e]
      BY <1>3, <3>2, <3>3
    <3>6. sending' \in [Device -> SUBSET [to : Device, read : Nat]]  BY <1>3, <2>2
    <3> QED  BY <1>3, <2>2, <3>2, <3>4, <3>5, <3>6
  <2> QED  BY <1>1, <2>1, <2>2 DEF Numbers
<1>5. made' \in [Device -> Nat] /\ made'[d] = made[d] + 1 /\ \A e \in Device : e # d => made'[e] = made[e]
  BY <1>1, <1>3
<1>6. \A e \in Device : frameCounter'[e] <= made'[e]
  <2> SUFFICES ASSUME NEW e \in Device  PROVE frameCounter'[e] <= made'[e]  OBVIOUS
  <2>1. frameCounter'[e] \in Nat /\ made[e] \in Nat  BY <1>3, <1>4
  <2> QED  BY <1>4, <1>5, <2>1
<1> QED  BY <1>1, <1>2, <1>4, <1>5, <1>6 DEF RangesInv, Peers

LEMMA EndRanges ==
    ASSUME TypeInv, NEW d \in Device, Stop(d) \/ Die(d)
    PROVE  RangesInv'
<1>1. /\ Broken(Own(d)) /\ Forgotten(d)
      /\ \/ UNCHANGED <<frameCounter, sending, life>>
         \/ /\ frameCounter' = [frameCounter EXCEPT ![d] = 0] /\ sending' = [sending EXCEPT ![d] = {}]
            /\ life' = [life EXCEPT ![d] = @ + 1]
  BY EndBreaks
<1>2. RangesInv  BY DEF TypeInv
<1>3. /\ platform' = platform /\ most' = most /\ found' = found /\ made' = made /\ starts' = starts
      /\ spent' \in [Faults -> Nat] /\ \A f \in Faults : spent'[f] <= most[f]
      /\ ends' \in [Pair -> SUBSET Device]
      /\ conn' = [k \in Pair |-> IF k \in Own(d) THEN "out" ELSE conn[k]]
  BY <1>1 DEF Broken, fixed
<1>4. /\ known' = [known EXCEPT ![d] = {}] /\ tx' = [tx EXCEPT ![d] = {}] /\ subs' = [subs EXCEPT ![d] = {}]
      /\ run' = [run EXCEPT ![d] = FALSE] /\ view' = [view EXCEPT ![d] = [p \in Device |-> "none"]]
  BY <1>1 DEF Forgotten
<1>5. /\ frameCounter' \in [Device -> Nat] /\ life' \in [Device -> Nat]
      /\ sending' \in [Device -> SUBSET [to : Device, read : Nat]]
      /\ \A e \in Device : frameCounter'[e] <= made'[e]
      /\ \A e \in Device : \A s \in sending'[e] : s.to \in Peers(e) /\ s.read <= frameCounter'[e]
  <2>1. CASE UNCHANGED <<frameCounter, sending, life>>  BY <1>2, <1>3, <2>1 DEF RangesInv
  <2>2. CASE /\ frameCounter' = [frameCounter EXCEPT ![d] = 0] /\ sending' = [sending EXCEPT ![d] = {}]
             /\ life' = [life EXCEPT ![d] = @ + 1]
    BY <1>2, <1>3, <2>2 DEF RangesInv
  <2> QED  BY <1>1, <2>1, <2>2
<1>6. view' \in [Device -> [Device -> Shown]]
  <2>1. [p \in Device |-> "none"] \in [Device -> Shown]  BY DEF Shown
  <2> QED  BY <1>2, <1>4, <2>1 DEF RangesInv
<1>7. conn' \in [Pair -> {"out", "asked", "up", "ready"}]  BY <1>2, <1>3 DEF RangesInv
<1>8. /\ known' \in [Device -> SUBSET Device] /\ tx' \in [Device -> SUBSET Device]
      /\ subs' \in [Device -> SUBSET Device] /\ run' \in [Device -> BOOLEAN]
  BY <1>2, <1>4 DEF RangesInv
<1> QED  BY <1>2, <1>3, <1>5, <1>6, <1>7, <1>8 DEF RangesInv, Peers

\* A device is told of another, of a connection, or of its end.
Told(k) ==
    \/ DidDiscover(k[1], k[2]) \/ OnScanResult(k[1], k[2])
    \/ Connected(k[1], k[2]) \/ ConnectFails(k[1], k[2])
    \/ CentralConnected(k) \/ CentralLosesLink(k) \/ PeripheralLosesLink(k)

LEMMA ToldRanges == ASSUME TypeInv, NEW k \in Pair, Told(k)  PROVE RangesInv'
<1>0. k = <<k[1], k[2]>> /\ k[1] \in Device /\ k[2] \in Device  BY PairIs
<1>1. RangesInv  BY DEF TypeInv
<1>2. /\ "connecting" \in Shown /\ "connected" \in Shown /\ "unavailable" \in Shown  BY DEF Shown
<1>3. UNCHANGED <<fixed, run, frameVars, starts, life, spent>>
  BY DEF Told, DidDiscover, OnScanResult, Ask, Connected, ConnectFails, CentralConnected, CentralLosesLink,
         PeripheralLosesLink, historyVars
<1>4. conn' \in [Pair -> {"out", "asked", "up", "ready"}] /\ ends' \in [Pair -> SUBSET Device]
  <2>1. \/ conn' = conn
        \/ \E s \in {"out", "asked", "up"} : conn' = [conn EXCEPT ![k] = s]
    BY <1>0 DEF Told, DidDiscover, OnScanResult, Ask, Connected, ConnectFails, CentralConnected,
                CentralLosesLink, PeripheralLosesLink
  <2>2. ends' = ends \/ \E e : ends' = [ends EXCEPT ![k] = @ \ {e}]
    BY <1>0 DEF Told, DidDiscover, OnScanResult, Ask, Connected, ConnectFails, CentralConnected,
                CentralLosesLink, PeripheralLosesLink
  <2>3. conn \in [Pair -> {"out", "asked", "up", "ready"}] /\ ends \in [Pair -> SUBSET Device]
    BY <1>1 DEF RangesInv
  <2>4. conn' \in [Pair -> {"out", "asked", "up", "ready"}]  BY <2>1, <2>3
  <2>5. ends' \in [Pair -> SUBSET Device]  BY <2>2, <2>3
  <2> QED  BY <2>4, <2>5
<1>5. /\ found' \in [Device -> SUBSET Device] /\ known' \in [Device -> SUBSET Device]
      /\ tx' \in [Device -> SUBSET Device] /\ subs' \in [Device -> SUBSET Device]
  <2>1. found' = found \/ found' = [found EXCEPT ![k[1]] = @ \cup {k[2]}]
    BY DEF Told, DidDiscover, OnScanResult, Ask, Connected, ConnectFails, CentralConnected,
           CentralLosesLink, PeripheralLosesLink, moduleVars
  <2>2. \/ known' = known \/ known' = [known EXCEPT ![k[1]] = @ \cup {k[2]}]
        \/ known' = [known EXCEPT ![k[1]] = @ \ {k[2]}]
    BY DEF Told, DidDiscover, OnScanResult, Ask, Connected, ConnectFails, CentralConnected,
           CentralLosesLink, PeripheralLosesLink, moduleVars
  <2>3. tx' = tx \/ tx' = [tx EXCEPT ![k[1]] = @ \ {k[2]}]
    BY DEF Told, DidDiscover, OnScanResult, Ask, Connected, ConnectFails, CentralConnected,
           CentralLosesLink, PeripheralLosesLink, moduleVars
  <2>4. subs' = subs \/ subs' = [subs EXCEPT ![k[2]] = @ \ {k[1]}]
    BY DEF Told, DidDiscover, OnScanResult, Ask, Connected, ConnectFails, CentralConnected,
           CentralLosesLink, PeripheralLosesLink, moduleVars
  <2>5. /\ found \in [Device -> SUBSET Device] /\ known \in [Device -> SUBSET Device]
        /\ tx \in [Device -> SUBSET Device] /\ subs \in [Device -> SUBSET Device]
    BY <1>1 DEF RangesInv
  <2>6. found' \in [Device -> SUBSET Device]  BY <1>0, <2>1, <2>5
  <2>7. known' \in [Device -> SUBSET Device]  BY <1>0, <2>2, <2>5
  <2>8. tx' \in [Device -> SUBSET Device] /\ subs' \in [Device -> SUBSET Device]  BY <1>0, <2>3, <2>4, <2>5
  <2> QED  BY <2>6, <2>7, <2>8
<1>6. \/ view' = view
      \/ \E a, b \in Device : \E s \in Shown : view' = [view EXCEPT ![a][b] = s]
  BY <1>0, <1>2 DEF Told, DidDiscover, OnScanResult, Ask, Connected, ConnectFails, CentralConnected, CentralLosesLink,
               PeripheralLosesLink
<1>7. view' \in [Device -> [Device -> Shown]]
  <2>1. view \in [Device -> [Device -> Shown]]  BY <1>1 DEF RangesInv
  <2>2. ASSUME NEW a \in Device, NEW b \in Device, NEW s \in Shown, view' = [view EXCEPT ![a][b] = s]
        PROVE  view' \in [Device -> [Device -> Shown]]
    <3>1. PICK row : row = [view[a] EXCEPT ![b] = s]  OBVIOUS
    <3>2. row \in [Device -> Shown] /\ view' = [view EXCEPT ![a] = row]  BY <2>1, <2>2, <3>1
    <3> QED  BY <2>1, <3>2
  <2> QED  BY <1>6, <2>1, <2>2
<1> QED  BY <1>1, <1>3, <1>4, <1>5, <1>7 DEF RangesInv, fixed, frameVars

LEMMA RangesStep == ASSUME TypeInv, [Next]_vars  PROVE RangesInv'
<1>0. RangesInv  BY DEF TypeInv
<1>1. ASSUME NEW d \in Device, Start(d)  PROVE RangesInv'
  BY <1>0, <1>1 DEF Start, RangesInv, fixed, frameVars, airVars, appVars
<1>2. ASSUME NEW d \in Device, Stop(d) \/ Die(d)  PROVE RangesInv'  BY <1>2, EndRanges
<1>3. ASSUME NEW d \in Device, SendNumbered(d)  PROVE RangesInv'
  <2>0. PICK p \in Peers(d) : \E via : Sends(d, p, via, down)  BY <1>3, SendsNumbered
  <2>1. PICK via : Sends(d, p, via, down)  BY <2>0
  <2>2. UNCHANGED <<tx, subs, conn, view>>  BY <1>3, SendsNumbered
  <2>3. /\ conn' \in [Pair -> {"out", "asked", "up", "ready"}]
        /\ tx' \in [Device -> SUBSET Device] /\ subs' \in [Device -> SUBSET Device]
        /\ view' \in [Device -> [Device -> Shown]]
    BY <1>0, <2>2 DEF RangesInv
  <2> QED  BY <2>1, <2>3, SendRanges
<1>4. ASSUME NEW k \in Pair, Told(k)  PROVE RangesInv'  BY <1>4, ToldRanges
<1>5. ASSUME NEW k \in Pair, DidDiscoverCharacteristics(k[1], k[2]) \/ OnServicesDiscovered(k[1], k[2])
      PROVE  RangesInv'
  <2>1. k[1] \in Device /\ k[2] \in Peers(k[1]) /\ k[2] \in Device  BY PairIs
  <2>2. PICK downs : downs = IF platform[k[1]] = "ios" THEN Asked(k) ELSE down  OBVIOUS
  <2>3. Sends(k[1], k[2], "write", downs)  BY <1>5, <2>2, SendDiscovered
  <2>4. /\ conn' = [conn EXCEPT ![k] = "ready"] /\ tx' = [tx EXCEPT ![k[1]] = @ \cup {k[2]}]
        /\ UNCHANGED <<subs, view>>
    BY <1>5, SendDiscovered
  <2>5. /\ conn' \in [Pair -> {"out", "asked", "up", "ready"}]
        /\ tx' \in [Device -> SUBSET Device] /\ subs' \in [Device -> SUBSET Device]
        /\ view' \in [Device -> [Device -> Shown]]
    BY <1>0, <2>1, <2>4 DEF RangesInv
  <2> QED  BY <2>1, <2>3, <2>5, SendRanges
<1>6. ASSUME NEW k \in Pair, DidSubscribe(k) \/ OnDescriptorWriteRequest(k)  PROVE RangesInv'
  <2>1. k[2] \in Device /\ k[1] \in Peers(k[2]) /\ k[1] \in Device  BY PairIs DEF Peers
  <2>2. PICK via : Sends(k[2], k[1], via, Taken(k))  BY <1>6, SendSubscribed
  <2>3. PICK downs : downs = Taken(k)  OBVIOUS
  <2>4. /\ subs' = [subs EXCEPT ![k[2]] = @ \cup {k[1]}] /\ UNCHANGED <<tx, conn>>
        /\ view' \in [Device -> [Device -> Shown]]
    BY <1>6, SendSubscribed
  <2>5. /\ conn' \in [Pair -> {"out", "asked", "up", "ready"}]
        /\ tx' \in [Device -> SUBSET Device] /\ subs' \in [Device -> SUBSET Device]
    BY <1>0, <2>1, <2>4 DEF RangesInv
  <2>6. Sends(k[2], k[1], via, downs)  BY <2>2, <2>3
  <2> QED  BY <2>1, <2>4, <2>5, <2>6, SendRanges
<1>7. ASSUME NEW k \in Pair, WriteArrives(k) \/ NotificationArrives(k)  PROVE RangesInv'
  <2>1. PICK d, p, chunk : Arrives(d, p, k, chunk)  BY <1>7, ArrivesIs
  <2>2. view' \in [Device -> [Device -> Shown]]  BY <2>1, ConsumeIs
  <2>3. UNCHANGED <<fixed, run, moduleVars, frameVars, conn, ends, starts, life, spent>>  BY <2>1 DEF Arrives
  <2> QED  BY <1>0, <2>2, <2>3 DEF RangesInv, fixed, moduleVars, frameVars
<1>8. ASSUME NEW k \in Pair, Cut(k)  PROVE RangesInv'
  <2>1. Broken({k}) /\ UNCHANGED <<run, known, tx, subs, frameVars, takenVars, view, seen, life>>
    BY <1>8, CutBreaks
  <2>2. conn' \in [Pair -> {"out", "asked", "up", "ready"}]  BY <1>0, <2>1 DEF Broken, RangesInv
  <2> QED  BY <1>0, <2>1, <2>2 DEF Broken, RangesInv, fixed, frameVars
<1>9. ASSUME NEW d \in Device, NEW p \in Peers(d), SendFrame(d, p)  PROVE RangesInv'
  <2>1. /\ sending' = [sending EXCEPT ![d] = {[to |-> p, read |-> frameCounter[d]]}]
        /\ spent.sent < most.sent /\ spent' = [spent EXCEPT !.sent = @ + 1]
        /\ UNCHANGED <<fixed, run, moduleVars, frameCounter, made, airVars, appVars, historyVars>>
    BY <1>9 DEF SendFrame
  <2>2. spent' \in [Faults -> Nat] /\ \A f \in Faults : spent'[f] <= most[f]
    <3>1. "sent" \in Faults  BY DEF Faults
    <3>2. spent["sent"] < most["sent"] /\ spent' = [spent EXCEPT !["sent"] = spent["sent"] + 1]  BY <2>1
    <3> QED  BY <1>0, <3>1, <3>2, SpentIs
  <2>3. p \in Device /\ frameCounter[d] \in Nat  BY <1>0, PeerIs DEF RangesInv
  <2>4. PICK s : s = [to |-> p, read |-> frameCounter[d]]  OBVIOUS
  <2>5. s \in [to : Device, read : Nat] /\ s.to = p /\ s.read = frameCounter[d]  BY <2>3, <2>4
  <2>6. sending' = [sending EXCEPT ![d] = {s}]  BY <2>1, <2>4
  <2>7. sending' \in [Device -> SUBSET [to : Device, read : Nat]]  BY <1>0, <2>5, <2>6 DEF RangesInv
  <2>8. \A e \in Device : \A t \in sending'[e] : t.to \in Peers(e) /\ t.read <= frameCounter[e]
    <3> SUFFICES ASSUME NEW e \in Device, NEW t \in sending'[e]
                 PROVE  t.to \in Peers(e) /\ t.read <= frameCounter[e]
      OBVIOUS
    <3>1. CASE e = d  BY <1>0, <2>3, <2>5, <2>6, <3>1 DEF RangesInv
    <3>2. CASE e # d  BY <1>0, <2>6, <3>2 DEF RangesInv
    <3> QED  BY <3>1, <3>2
  <2> QED
    BY <1>0, <2>1, <2>2, <2>7, <2>8 DEF RangesInv, Peers, fixed, moduleVars, airVars, appVars, historyVars
<1>10. CASE UNCHANGED vars
  BY <1>0, <1>10 DEF RangesInv, vars, fixed, moduleVars, frameVars, airVars, appVars, historyVars
<1> QED
  BY <1>1, <1>2, <1>3, <1>4, <1>5, <1>6, <1>7, <1>8, <1>9, <1>10 DEF Next, Radio, Callback, Told

\* The chunks under way after the step were before.
NoNewChunks ==
    /\ down' \in [Pair -> Seq(Message)] /\ up' \in [Pair -> Seq(ChunkType)]
    /\ Within(down')
    /\ \A k \in Pair : \A i \in DOMAIN up'[k] : \E j \in DOMAIN up[k] : up[k][j] = up'[k][i]

LEMMA ToldAir ==
    ASSUME TypeInv, NEW k \in Pair, Told(k)
    PROVE  /\ NoNewChunks /\ up' = up
           /\ \A l \in Pair : l # k => down'[l] = down[l]
           /\ \/ down' = down
              \/ conn[k] = "asked" /\ conn'[k] = "up" /\ down'[k] = Append(down[k], [kind |-> "connect"])
              \/ down[k] # <<>> /\ down[k][1].kind = "connect" /\ down'[k] = Tail(down[k]) /\ conn' = conn
           /\ UNCHANGED <<takenVars, seen, heard>>
<1>0. k = <<k[1], k[2]>> /\ AirInv /\ RangesInv  BY PairIs DEF TypeInv
<1>1. UNCHANGED <<takenVars, seen, heard, up>>
  BY DEF Told, DidDiscover, OnScanResult, Ask, Connected, ConnectFails, CentralConnected,
         CentralLosesLink, PeripheralLosesLink, historyVars
<1>2. \/ down' = down
      \/ down[k] # <<>> /\ Head(down[k]).kind = "connect" /\ down' = Taken(k) /\ conn' = conn
      \/ /\ conn[k] = "asked" /\ conn' = [conn EXCEPT ![k] = "up"]
         /\ down' = [down EXCEPT ![k] = Append(@, [kind |-> "connect"])]
  BY <1>0 DEF Told, DidDiscover, OnScanResult, Ask, Connected, ConnectFails, CentralConnected,
         CentralLosesLink, PeripheralLosesLink, Next1
<1>3. down \in [Pair -> Seq(Message)] /\ up \in [Pair -> Seq(ChunkType)]  BY <1>0 DEF AirInv
<1>4. CASE down' = down  BY <1>1, <1>3, <1>4, WithinDown DEF NoNewChunks
<1>5. CASE down[k] # <<>> /\ Head(down[k]).kind = "connect" /\ down' = Taken(k) /\ conn' = conn
  BY <1>0, <1>1, <1>3, <1>5, TakenIs, WithinTaken DEF NoNewChunks
<1>6. CASE /\ conn[k] = "asked" /\ conn' = [conn EXCEPT ![k] = "up"]
           /\ down' = [down EXCEPT ![k] = Append(@, [kind |-> "connect"])]
  <2>1. PICK q, t : q = down[k] /\ t = Append(q, [kind |-> "connect"])  OBVIOUS
  <2>2. q \in Seq(Message) /\ [kind |-> "connect"] \in Message  BY <1>3, <2>1 DEF Message
  <2>3. /\ t \in Seq(Message) /\ \A i \in DOMAIN q : t[i] = q[i]
        /\ \A i \in DOMAIN t : i \in DOMAIN q \/ t[i] = [kind |-> "connect"]
    BY <2>1, <2>2, PushIs
  <2>4. down' = [down EXCEPT ![k] = t]  BY <1>6, <2>1
  <2>5. down'[k] = t /\ \A l \in Pair : l # k => down'[l] = down[l]  BY <1>3, <2>4
  <2>6. \A i \in DOMAIN t : t[i].kind = "chunk" => \E j \in DOMAIN q : q[j] = t[i]  BY <2>3
  <2>7. Within(down')  BY <2>1, <2>5, <2>6 DEF Within
  <2>8. down' \in [Pair -> Seq(Message)]  BY <1>3, <2>3, <2>4
  <2>9. conn'[k] = "up"  BY <1>0, <1>6 DEF RangesInv
  <2> QED  BY <1>1, <1>3, <1>6, <2>1, <2>5, <2>7, <2>8, <2>9 DEF NoNewChunks
<1> QED  BY <1>1, <1>2, <1>4, <1>5, <1>6

LEMMA ArrivesAir ==
    ASSUME TypeInv, NEW d, NEW p, NEW k, NEW chunk, Arrives(d, p, k, chunk)
    PROVE  /\ NoNewChunks
           /\ \A l \in Pair : down'[l] = down[l] \/ (l = k /\ down[k] # <<>> /\ down'[l] = Tail(down[l]))
           /\ \A l \in Pair : up'[l] = up[l] \/ conn[l] = "ready"
           /\ \/ \E j \in DOMAIN down[k] : down[k][j] = chunk
              \/ \E j \in DOMAIN up[k] : up[k][j] = chunk
<1>0. AirInv /\ k \in Pair /\ conn[k] = "ready"  BY DEF TypeInv, Arrives
<1>1. down \in [Pair -> Seq(Message)] /\ up \in [Pair -> Seq(ChunkType)]  BY <1>0 DEF AirInv
<1>2. CASE chunk = up[k][1] /\ up[k] # <<>> /\ up' = [up EXCEPT ![k] = Tail(@)] /\ down' = down
  <2>1. PICK q, t : q = up[k] /\ t = Tail(q)  OBVIOUS
  <2>2. q \in Seq(ChunkType) /\ q # <<>>  BY <1>0, <1>1, <1>2, <2>1
  <2>3. t \in Seq(ChunkType) /\ 1 \in DOMAIN q /\ \A i \in DOMAIN t : i + 1 \in DOMAIN q /\ t[i] = q[i + 1]
    BY <2>1, <2>2, TailIs
  <2>4. up' = [up EXCEPT ![k] = t]  BY <1>2, <2>1
  <2>5. up' \in [Pair -> Seq(ChunkType)]  BY <1>1, <2>3, <2>4
  <2>6. up'[k] = t /\ \A l \in Pair : l # k => up'[l] = up[l]  BY <1>0, <1>1, <2>4
  <2>7. \A l \in Pair : \A i \in DOMAIN up'[l] : \E j \in DOMAIN up[l] : up[l][j] = up'[l][i]
    <3> SUFFICES ASSUME NEW l \in Pair, NEW i \in DOMAIN up'[l]
                 PROVE  \E j \in DOMAIN up[l] : up[l][j] = up'[l][i]
      OBVIOUS
    <3>1. CASE l # k  BY <2>6, <3>1
    <3>2. CASE l = k  BY <2>1, <2>3, <2>6, <3>2
    <3> QED  BY <3>1, <3>2
  <2> QED  BY <1>0, <1>1, <1>2, <2>1, <2>3, <2>5, <2>6, <2>7, WithinDown DEF NoNewChunks
<1>3. CASE chunk = down[k][1] /\ down[k] # <<>> /\ down' = Taken(k) /\ up' = up
  <2>1. /\ Taken(k) \in [Pair -> Seq(Message)] /\ Taken(k)[k] = Tail(down[k]) /\ 1 \in DOMAIN down[k]
        /\ \A l \in Pair : l # k => Taken(k)[l] = down[l]
    BY <1>0, <1>3, TakenIs
  <2>2. Within(Taken(k))  BY <1>0, <1>3, WithinTaken
  <2> QED  BY <1>1, <1>3, <2>1, <2>2 DEF NoNewChunks
<1> QED  BY <1>2, <1>3 DEF Arrives

LEMMA BrokenAir ==
    ASSUME TypeInv, NEW gone, Broken(gone)
    PROVE  /\ NoNewChunks /\ heard' \subseteq heard
           /\ \A k \in Pair : down'[k] = down[k] \/ down'[k] = <<>>
           /\ \A k \in Pair : up'[k] = up[k] \/ up'[k] = <<>>
<1>1. down \in [Pair -> Seq(Message)] /\ up \in [Pair -> Seq(ChunkType)]  BY DEF TypeInv, AirInv
<1>2. /\ down' = [k \in Pair |-> IF k \in gone THEN <<>> ELSE down[k]]
      /\ up' = [k \in Pair |-> IF k \in gone THEN <<>> ELSE up[k]]
      /\ heard' = {h \in heard : h[2] \notin gone}
  BY DEF Broken
<1>3. /\ \A k \in Pair : down'[k] = down[k] \/ down'[k] = <<>>
      /\ \A k \in Pair : up'[k] = up[k] \/ up'[k] = <<>>
  BY <1>2
<1>4. down' \in [Pair -> Seq(Message)] /\ up' \in [Pair -> Seq(ChunkType)]
  <2>1. <<>> \in Seq(Message) /\ <<>> \in Seq(ChunkType)  OBVIOUS
  <2> QED  BY <1>1, <1>2, <2>1
<1>5. DOMAIN <<>> = {}  OBVIOUS
<1>6. Within(down')  BY <1>3, <1>5 DEF Within
<1>7. \A k \in Pair : \A i \in DOMAIN up'[k] : \E j \in DOMAIN up[k] : up[k][j] = up'[k][i]  BY <1>3, <1>5
<1> QED  BY <1>2, <1>3, <1>4, <1>6, <1>7 DEF NoNewChunks

LEMMA OldAir ==
    ASSUME AirInv, NoNewChunks, arrived' \in [Device -> SUBSET ChunkType], heard' \subseteq Device \X Pair,
           DOMAIN seen' = Device, DOMAIN got' = Device, DOMAIN assemblies' = Device
    PROVE  AirInv'
<1>1. \A k \in Pair : \A i \in DOMAIN down'[k] : down'[k][i].kind = "chunk" => down'[k][i].of = k[1]
  <2> SUFFICES ASSUME NEW k \in Pair, NEW i \in DOMAIN down'[k], down'[k][i].kind = "chunk"
               PROVE  down'[k][i].of = k[1]
    OBVIOUS
  <2>1. PICK j \in DOMAIN down[k] : down[k][j] = down'[k][i]  BY DEF NoNewChunks, Within
  <2> QED  BY <2>1 DEF AirInv
<1>2. \A k \in Pair : \A i \in DOMAIN up'[k] : up'[k][i].of = k[2]
  <2> SUFFICES ASSUME NEW k \in Pair, NEW i \in DOMAIN up'[k]  PROVE up'[k][i].of = k[2]  OBVIOUS
  <2>1. PICK j \in DOMAIN up[k] : up[k][j] = up'[k][i]  BY DEF NoNewChunks
  <2> QED  BY <2>1 DEF AirInv
<1> QED  BY <1>1, <1>2 DEF AirInv, NoNewChunks

LEMMA SendAir ==
    ASSUME TypeInv, NEW d \in Device, NEW p \in Peers(d), NEW via, NEW downs,
           Sends(d, p, via, downs), Within(downs)
    PROVE  AirInv'
<1>1. AirInv  BY DEF TypeInv
<1>2. PICK content \in Nat :
          /\ \A k \in Pair : \A i \in DOMAIN down'[k] :
                 down'[k][i].kind = "chunk" =>
                     \/ \E j \in DOMAIN down[k] : down[k][j] = down'[k][i]
                     \/ k = <<d, p>> /\ conn'[k] = "ready" /\ down'[k][i] \in Fresh(d, content)
          /\ \A k \in Pair : \A i \in DOMAIN up'[k] :
                 \/ \E j \in DOMAIN up[k] : up[k][j] = up'[k][i]
                 \/ k = <<p, d>> /\ conn[k] = "ready" /\ up'[k][i] \in Fresh(d, content)
  BY SendChunks
<1>3. down' \in [Pair -> Seq(Message)] /\ up' \in [Pair -> Seq(ChunkType)]  BY SendChunks
<1>4. \A k \in Pair : \A i \in DOMAIN down'[k] : down'[k][i].kind = "chunk" => down'[k][i].of = k[1]
  <2> SUFFICES ASSUME NEW k \in Pair, NEW i \in DOMAIN down'[k], down'[k][i].kind = "chunk"
               PROVE  down'[k][i].of = k[1]
    OBVIOUS
  <2>1. CASE \E j \in DOMAIN down[k] : down[k][j] = down'[k][i]  BY <1>1, <2>1 DEF AirInv
  <2>2. CASE k = <<d, p>> /\ down'[k][i] \in Fresh(d, content)  BY <2>2 DEF Fresh
  <2> QED  BY <1>2, <2>1, <2>2
<1>5. \A k \in Pair : \A i \in DOMAIN up'[k] : up'[k][i].of = k[2]
  <2> SUFFICES ASSUME NEW k \in Pair, NEW i \in DOMAIN up'[k]  PROVE up'[k][i].of = k[2]  OBVIOUS
  <2>1. CASE \E j \in DOMAIN up[k] : up[k][j] = up'[k][i]  BY <1>1, <2>1 DEF AirInv
  <2>2. CASE k = <<p, d>> /\ up'[k][i] \in Fresh(d, content)  BY <2>2 DEF Fresh
  <2> QED  BY <1>2, <2>1, <2>2
<1>6. UNCHANGED <<arrived, heard, seen, got, assemblies>>  BY DEF Sends, takenVars
<1> QED  BY <1>1, <1>3, <1>4, <1>5, <1>6 DEF AirInv

\* The step is a send by one device to another.
SendStep ==
    \E d \in Device : \E p \in Peers(d) : \E via, downs : Sends(d, p, via, downs) /\ Within(downs)

LEMMA SendSteps ==
    ASSUME TypeInv,
           \/ \E d \in Device : SendNumbered(d)
           \/ \E k \in Pair : \/ DidDiscoverCharacteristics(k[1], k[2]) \/ OnServicesDiscovered(k[1], k[2])
                              \/ DidSubscribe(k) \/ OnDescriptorWriteRequest(k)
    PROVE  SendStep
<1>0. AirInv  BY DEF TypeInv
<1>1. ASSUME NEW d \in Device, SendNumbered(d)  PROVE SendStep
  <2>0. PICK p \in Peers(d) : \E via : Sends(d, p, via, down)  BY <1>1, SendsNumbered
  <2>1. PICK via : Sends(d, p, via, down)  BY <2>0
  <2> QED  BY <2>1, WithinDown DEF SendStep
<1>2. ASSUME NEW k \in Pair, DidDiscoverCharacteristics(k[1], k[2]) \/ OnServicesDiscovered(k[1], k[2])
      PROVE  SendStep
  <2>1. PICK downs : downs = IF platform[k[1]] = "ios" THEN Asked(k) ELSE down  OBVIOUS
  <2>2. Sends(k[1], k[2], "write", downs)  BY <1>2, <2>1, SendDiscovered
  <2>3. Within(downs)  BY <1>0, <2>1, WithinAsked, WithinDown
  <2> QED  BY <2>2, <2>3, PairIs DEF SendStep
<1>3. ASSUME NEW k \in Pair, DidSubscribe(k) \/ OnDescriptorWriteRequest(k)  PROVE SendStep
  <2>1. down[k] # <<>>  BY <1>3, SendSubscribed
  <2>2. PICK via : Sends(k[2], k[1], via, Taken(k))  BY <1>3, SendSubscribed
  <2>3. Within(Taken(k))  BY <1>0, <2>1, WithinTaken
  <2>4. k[2] \in Device /\ k[1] \in Peers(k[2])  BY PairIs DEF Peers
  <2> QED  BY <2>2, <2>3, <2>4 DEF SendStep
<1> QED  BY <1>1, <1>2, <1>3

LEMMA AirStep == ASSUME TypeInv, [Next]_vars  PROVE AirInv'
<1>0. AirInv  BY DEF TypeInv
<1>1. CASE SendStep  BY <1>1, SendAir DEF SendStep
<1>2. ASSUME NEW k \in Pair, Told(k)  PROVE AirInv'
  <2>1. NoNewChunks /\ UNCHANGED <<takenVars, seen, heard>>  BY <1>2, ToldAir
  <2>2. UNCHANGED <<arrived, heard, seen, got, assemblies>>  BY <2>1 DEF takenVars
  <2>3. arrived' \in [Device -> SUBSET ChunkType] /\ heard' \subseteq Device \X Pair
        /\ DOMAIN seen' = Device /\ DOMAIN got' = Device /\ DOMAIN assemblies' = Device
    BY <1>0, <2>2 DEF AirInv
  <2> QED  BY <1>0, <2>1, <2>3, OldAir
<1>3. ASSUME NEW k \in Pair, WriteArrives(k) \/ NotificationArrives(k)  PROVE AirInv'
  <2>1. PICK d, p, chunk : Arrives(d, p, k, chunk)  BY <1>3, ArrivesIs
  <2>2. /\ arrived' = [arrived EXCEPT ![d] = @ \cup {chunk}]
        /\ DOMAIN assemblies' = Device /\ DOMAIN seen' = Device /\ DOMAIN got' = Device
        /\ heard' \subseteq heard \cup {<<d, k>>}
    BY <2>1, ConsumeIs
  <2>3. d \in Device /\ chunk \in ChunkType  BY <2>1 DEF Arrives
  <2>4. arrived' \in [Device -> SUBSET ChunkType] /\ heard' \subseteq Device \X Pair
    BY <1>0, <2>2, <2>3 DEF AirInv
  <2>5. NoNewChunks  BY <2>1, ArrivesAir
  <2> QED  BY <1>0, <2>2, <2>4, <2>5, OldAir
<1>4. ASSUME NEW k \in Pair, Cut(k)  PROVE AirInv'
  <2>1. Broken({k}) /\ UNCHANGED <<takenVars, seen>>  BY <1>4, CutBreaks
  <2>2. NoNewChunks /\ heard' \subseteq heard  BY <2>1, BrokenAir
  <2>3. UNCHANGED <<arrived, seen, got, assemblies>>  BY <2>1 DEF takenVars
  <2>4. arrived' \in [Device -> SUBSET ChunkType] /\ heard' \subseteq Device \X Pair
        /\ DOMAIN seen' = Device /\ DOMAIN got' = Device /\ DOMAIN assemblies' = Device
    BY <1>0, <2>2, <2>3 DEF AirInv
  <2> QED  BY <1>0, <2>2, <2>4, OldAir
<1>5. ASSUME NEW d \in Device, Stop(d) \/ Die(d)  PROVE AirInv'
  <2>1. Broken(Own(d)) /\ Forgotten(d) /\ (seen' = seen \/ seen' = [seen EXCEPT ![d] = {}])
    BY <1>5, EndBreaks
  <2>2. NoNewChunks /\ heard' \subseteq heard  BY <2>1, BrokenAir
  <2>3. /\ arrived' = [arrived EXCEPT ![d] = {}] /\ assemblies' = [assemblies EXCEPT ![d] = <<>>]
        /\ got' = got
    BY <2>1 DEF Forgotten, Broken
  <2>4. arrived' \in [Device -> SUBSET ChunkType] /\ heard' \subseteq Device \X Pair
        /\ DOMAIN seen' = Device /\ DOMAIN got' = Device /\ DOMAIN assemblies' = Device
    BY <1>0, <2>1, <2>2, <2>3 DEF AirInv
  <2> QED  BY <1>0, <2>2, <2>4, OldAir
<1>6. ASSUME NEW d \in Device, Start(d)  PROVE AirInv'
  BY <1>0, <1>6 DEF Start, AirInv, takenVars, airVars, appVars
<1>7. CASE Quiet
  BY <1>0, <1>7 DEF AirInv, Quiet, takenVars, airVars, appVars, historyVars
<1> QED
  BY <1>1, <1>2, <1>3, <1>4, <1>5, <1>6, <1>7, SendSteps, QuietSteps DEF Next, Radio, Callback, Told

\* What an arrival does to the assemblies of its receiver.
Stored(d, chunk, key, parts) ==
    /\ DOMAIN parts = DOMAIN Parts(d, key) \cup {chunk.index} /\ parts[chunk.index] = chunk
    /\ \A i \in DOMAIN Parts(d, key) : i # chunk.index => parts[i] = Parts(d, key)[i]
    /\ key \notin DOMAIN assemblies[d] => Parts(d, key) = <<>>
    /\ key \in DOMAIN assemblies[d] => Parts(d, key) = assemblies[d][key]
    /\ \A other \in DOMAIN assemblies'[d] : other # key =>
           other \in DOMAIN assemblies[d] /\ assemblies'[d][other] = assemblies[d][other]
    /\ \A other \in DOMAIN assemblies[d] : other # key =>
           other \in DOMAIN assemblies'[d] /\ assemblies'[d][other] = assemblies[d][other]
    /\ IF Forgets(d, parts, chunk) THEN key \notin DOMAIN assemblies'[d]
       ELSE key \in DOMAIN assemblies'[d] /\ assemblies'[d][key] = parts

LEMMA StoredIs ==
    ASSUME TypeInv, NEW d, NEW p, NEW k, NEW chunk, Arrives(d, p, k, chunk)
    PROVE  Stored(d, chunk, <<p, chunk.id>>, Added(d, p, chunk))
<1>0. PICK key, parts : key = <<p, chunk.id>> /\ parts = Added(d, p, chunk)  OBVIOUS
<1>1. d \in Device /\ ConsumeChunk(d, p, k, chunk)  BY DEF Arrives
<1>2. /\ DOMAIN parts = DOMAIN Parts(d, key) \cup {chunk.index} /\ parts[chunk.index] = chunk
      /\ \A i \in DOMAIN Parts(d, key) : i # chunk.index => parts[i] = Parts(d, key)[i]
  BY <1>0 DEF Added, Put
<1>3. /\ key \notin DOMAIN assemblies[d] => Parts(d, key) = <<>>
      /\ key \in DOMAIN assemblies[d] => Parts(d, key) = assemblies[d][key]
  BY DEF Parts
<1>4. PICK a : a = assemblies[d]  OBVIOUS
<1>5. assemblies' = [assemblies EXCEPT ![d] = IF Forgets(d, parts, chunk) THEN Restrict(a, DOMAIN a \ {key})
                                                                         ELSE Put(a, key, parts)]
  BY <1>0, <1>1, <1>4 DEF ConsumeChunk
<1>6. DOMAIN assemblies = Device  BY DEF TypeInv, AirInv
<1>7. assemblies'[d] = IF Forgets(d, parts, chunk) THEN Restrict(a, DOMAIN a \ {key}) ELSE Put(a, key, parts)
  BY <1>1, <1>5, <1>6
<1>8. ASSUME Forgets(d, parts, chunk)  PROVE Stored(d, chunk, key, parts)
  <2>1. assemblies'[d] = [x \in DOMAIN a \ {key} |-> a[x]]  BY <1>7, <1>8 DEF Restrict
  <2> QED  BY <1>2, <1>3, <1>4, <1>8, <2>1 DEF Stored
<1>9. ASSUME ~Forgets(d, parts, chunk)  PROVE Stored(d, chunk, key, parts)
  <2>1. assemblies'[d] = [y \in DOMAIN a \cup {key} |-> IF y = key THEN parts ELSE a[y]]
    BY <1>7, <1>9 DEF Put
  <2> QED  BY <1>2, <1>3, <1>4, <1>9, <2>1 DEF Stored
<1> QED  BY <1>0, <1>8, <1>9

LEMMA FiledStep == ASSUME TypeInv, [Next]_vars  PROVE FiledInv'
<1>0. FiledInv /\ AirInv  BY DEF TypeInv
<1>1. CASE SendStep
  <2>1. UNCHANGED <<arrived, assemblies>>  BY <1>1 DEF SendStep, Sends, takenVars
  <2> QED  BY <1>0, <2>1 DEF FiledInv
<1>2. ASSUME NEW k \in Pair, Told(k)  PROVE FiledInv'
  <2>1. UNCHANGED <<arrived, assemblies>>  BY <1>2, ToldAir DEF takenVars
  <2> QED  BY <1>0, <2>1 DEF FiledInv
<1>3. ASSUME NEW k \in Pair, WriteArrives(k) \/ NotificationArrives(k)  PROVE FiledInv'
  <2>1. PICK d, p, chunk : Arrives(d, p, k, chunk)  BY <1>3, ArrivesIs
  <2>2. PICK key, parts : key = <<p, chunk.id>> /\ parts = Added(d, p, chunk)  OBVIOUS
  <2>3. /\ arrived' = [arrived EXCEPT ![d] = @ \cup {chunk}]
        /\ \A e \in Device : e # d => assemblies'[e] = assemblies[e]
    BY <2>1, ConsumeIs
  <2>4. d \in Device /\ chunk.of = p /\ chunk.id = key[2] /\ key[1] = p  BY <2>1, <2>2 DEF Arrives
  <2>5. /\ \A e \in Device : arrived[e] \subseteq arrived'[e]
        /\ chunk \in arrived'[d]
    BY <1>0, <2>3, <2>4 DEF AirInv
  <2> SUFFICES ASSUME NEW e \in Device, NEW other \in DOMAIN assemblies'[e], NEW i \in DOMAIN assemblies'[e][other]
               PROVE  /\ assemblies'[e][other][i] \in arrived'[e]
                      /\ assemblies'[e][other][i].of = other[1] /\ assemblies'[e][other][i].id = other[2]
                      /\ assemblies'[e][other][i].index = i
    BY DEF FiledInv
  <2>9. Stored(d, chunk, key, parts)  BY <2>1, <2>2, StoredIs
  <2>6. CASE e # d
    <3>1. assemblies'[e] = assemblies[e]  BY <2>3, <2>6
    <3> QED  BY <1>0, <2>5, <3>1 DEF FiledInv
  <2>7. CASE e = d /\ other # key
    <3>1. other \in DOMAIN assemblies[d] /\ assemblies'[d][other] = assemblies[d][other]
      BY <2>7, <2>9 DEF Stored
    <3> QED  BY <1>0, <2>5, <2>7, <3>1 DEF FiledInv
  <2>8. CASE e = d /\ other = key
    <3>1. /\ DOMAIN parts = DOMAIN Parts(d, key) \cup {chunk.index} /\ parts[chunk.index] = chunk
          /\ \A j \in DOMAIN Parts(d, key) : j # chunk.index => parts[j] = Parts(d, key)[j]
          /\ key \notin DOMAIN assemblies[d] => Parts(d, key) = <<>>
          /\ key \in DOMAIN assemblies[d] => Parts(d, key) = assemblies[d][key]
          /\ IF Forgets(d, parts, chunk) THEN key \notin DOMAIN assemblies'[d]
             ELSE key \in DOMAIN assemblies'[d] /\ assemblies'[d][key] = parts
      BY <2>9 DEF Stored
    <3>2. assemblies'[d][key] = parts  BY <2>8, <3>1
    <3>3. i \in DOMAIN parts  BY <2>8, <3>2
    <3>4. CASE i = chunk.index  BY <2>4, <2>5, <2>8, <3>1, <3>2, <3>4
    <3>5. CASE i # chunk.index
      <4>1. i \in DOMAIN Parts(d, key) /\ parts[i] = Parts(d, key)[i]  BY <3>1, <3>3, <3>5
      <4>2. key \in DOMAIN assemblies[d]
        <5>1. DOMAIN <<>> = {}  OBVIOUS
        <5> QED  BY <3>1, <4>1, <5>1
      <4>3. i \in DOMAIN assemblies[d][key] /\ parts[i] = assemblies[d][key][i]  BY <3>1, <4>1, <4>2
      <4> QED  BY <1>0, <2>5, <2>8, <3>2, <4>2, <4>3 DEF FiledInv
    <3> QED  BY <3>4, <3>5
  <2> QED  BY <2>6, <2>7, <2>8
<1>4. ASSUME NEW k \in Pair, Cut(k)  PROVE FiledInv'
  <2>1. UNCHANGED <<arrived, assemblies>>  BY <1>4, CutBreaks DEF takenVars
  <2> QED  BY <1>0, <2>1 DEF FiledInv
<1>5. ASSUME NEW d \in Device, Stop(d) \/ Die(d)  PROVE FiledInv'
  <2>1. arrived' = [arrived EXCEPT ![d] = {}] /\ assemblies' = [assemblies EXCEPT ![d] = <<>>]
    BY <1>5, EndBreaks DEF Forgotten
  <2>2. /\ assemblies'[d] = <<>>
        /\ \A e \in Device : e # d => assemblies'[e] = assemblies[e] /\ arrived'[e] = arrived[e]
    BY <1>0, <2>1 DEF AirInv
  <2>3. DOMAIN assemblies'[d] = {}  BY <2>2
  <2> QED  BY <1>0, <2>2, <2>3 DEF FiledInv
<1>6. ASSUME NEW d \in Device, Start(d)  PROVE FiledInv'
  BY <1>0, <1>6 DEF Start, FiledInv, takenVars
<1>7. CASE Quiet
  BY <1>0, <1>7 DEF FiledInv, Quiet, takenVars
<1> QED
  BY <1>1, <1>2, <1>3, <1>4, <1>5, <1>6, <1>7, SendSteps, QuietSteps DEF Next, Radio, Callback, Told

\* The connections after a send: one of them is ready now, or none has changed.
Readied ==
    \/ UNCHANGED <<conn, tx>>
    \/ \E k \in Pair : /\ conn[k] = "up" /\ conn' = [conn EXCEPT ![k] = "ready"]
                       /\ tx' = [tx EXCEPT ![k[1]] = @ \cup {k[2]}]

LEMMA SendLinks ==
    ASSUME TypeInv, NEW d \in Device, NEW p \in Peers(d), NEW via, NEW downs,
           Sends(d, p, via, downs), Within(downs), Readied,
           \A l \in Pair : downs[l] # <<>> => down[l] # <<>> \/ conn'[l] = "ready"
    PROVE  LinkInv'
<1>0. RangesInv /\ LinkInv  BY DEF TypeInv
<1>1. UNCHANGED <<run, starts, known, ends>>  BY DEF Sends
<1>2. /\ \A k \in Pair : conn'[k] = conn[k] \/ (conn[k] = "up" /\ conn'[k] = "ready")
      /\ \A k \in Pair : conn'[k] = "ready" => conn[k] = "ready" \/ k[2] \in tx'[k[1]]
      /\ \A e \in Device : tx[e] \subseteq tx'[e]
  <2>1. CASE UNCHANGED <<conn, tx>>  BY <2>1
  <2>2. ASSUME NEW k \in Pair, conn[k] = "up", conn' = [conn EXCEPT ![k] = "ready"],
               tx' = [tx EXCEPT ![k[1]] = @ \cup {k[2]}]
        PROVE  /\ \A l \in Pair : conn'[l] = conn[l] \/ (conn[l] = "up" /\ conn'[l] = "ready")
               /\ \A l \in Pair : conn'[l] = "ready" => conn[l] = "ready" \/ l[2] \in tx'[l[1]]
               /\ \A e \in Device : tx[e] \subseteq tx'[e]
    <3>1. k[1] \in Device  BY PairIs
    <3>2. conn'[k] = "ready" /\ \A l \in Pair : l # k => conn'[l] = conn[l]  BY <1>0, <2>2 DEF RangesInv
    <3>3. k[2] \in tx'[k[1]] /\ \A e \in Device : tx[e] \subseteq tx'[e]  BY <1>0, <2>2, <3>1 DEF RangesInv
    <3> QED  BY <2>2, <3>2, <3>3
  <2> QED  BY <2>1, <2>2 DEF Readied
<1>3. /\ \A k \in Pair : \A i \in DOMAIN down'[k] :
             down'[k][i].kind = "chunk" =>
                 \/ \E j \in DOMAIN down[k] : down[k][j] = down'[k][i]
                 \/ conn'[k] = "ready"
      /\ \A k \in Pair : down'[k] = downs[k] \/ conn'[k] = "ready"
      /\ \A k \in Pair : up'[k] = up[k] \/ conn[k] = "ready"
  <2>1. PICK content \in Nat :
            \A k \in Pair : \A i \in DOMAIN down'[k] :
                down'[k][i].kind = "chunk" =>
                    \/ \E j \in DOMAIN down[k] : down[k][j] = down'[k][i]
                    \/ k = <<d, p>> /\ conn'[k] = "ready" /\ down'[k][i] \in Fresh(d, content)
    BY SendChunks
  <2>2. /\ \A k \in Pair : down'[k] = downs[k] \/ conn'[k] = "ready"
        /\ \A k \in Pair : up'[k] = up[k] \/ conn[k] = "ready"
    BY SendChunks
  <2> QED  BY <2>1, <2>2
<1> SUFFICES ASSUME NEW k \in Pair
             PROVE  /\ conn'[k] # "out" => ends'[k] = {} /\ k[2] \in known'[k[1]] /\ starts'[k[1]] > 0
                    /\ conn'[k] \in {"up", "ready"} => starts'[k[2]] > 0
                    /\ conn'[k] = "ready" => k[2] \in tx'[k[1]]
                    /\ down'[k] # <<>> => conn'[k] \in {"up", "ready"}
                    /\ up'[k] # <<>> => conn'[k] = "ready"
                    /\ \A i \in DOMAIN down'[k] : down'[k][i].kind = "chunk" => conn'[k] = "ready"
  BY <1>0, <1>1 DEF LinkInv
<1>4. /\ conn[k] # "out" => ends[k] = {} /\ k[2] \in known[k[1]] /\ starts[k[1]] > 0
      /\ conn[k] \in {"up", "ready"} => starts[k[2]] > 0
      /\ conn[k] = "ready" => k[2] \in tx[k[1]]
      /\ down[k] # <<>> => conn[k] \in {"up", "ready"}
      /\ up[k] # <<>> => conn[k] = "ready"
      /\ \A i \in DOMAIN down[k] : down[k][i].kind = "chunk" => conn[k] = "ready"
  BY <1>0 DEF LinkInv
<1>5. conn'[k] = conn[k] \/ (conn[k] = "up" /\ conn'[k] = "ready")  BY <1>2
<1>6. /\ conn'[k] # "out" => ends'[k] = {} /\ k[2] \in known'[k[1]] /\ starts'[k[1]] > 0
      /\ conn'[k] \in {"up", "ready"} => starts'[k[2]] > 0
  BY <1>1, <1>4, <1>5
<1>7. conn'[k] = "ready" => k[2] \in tx'[k[1]]  BY <1>2, <1>4, PairIs
<1>8. down'[k] # <<>> => conn'[k] \in {"up", "ready"}  BY <1>3, <1>4, <1>5
<1>9. up'[k] # <<>> => conn'[k] = "ready"  BY <1>3, <1>4, <1>5
<1>10. \A i \in DOMAIN down'[k] : down'[k][i].kind = "chunk" => conn'[k] = "ready"
  BY <1>3, <1>4, <1>5
<1> QED  BY <1>6, <1>7, <1>8, <1>9, <1>10

LEMMA ToldLinks == ASSUME TypeInv, NEW l \in Pair, Told(l)  PROVE LinkInv'
<1>0. RangesInv /\ LinkInv  BY DEF TypeInv
<1>1. l = <<l[1], l[2]>> /\ l[1] \in Device /\ l[2] \in Device /\ l[1] # l[2]  BY PairIs
<1>2. UNCHANGED <<run, starts>>
  BY DEF Told, DidDiscover, OnScanResult, Ask, Connected, ConnectFails, CentralConnected,
         CentralLosesLink, PeripheralLosesLink, historyVars
<1>3. /\ up' = up /\ Within(down')
      /\ \A k \in Pair : k # l => down'[k] = down[k]
      /\ \/ down' = down
         \/ conn[l] = "asked" /\ conn'[l] = "up"
         \/ down[l] # <<>> /\ conn' = conn
  BY ToldAir DEF NoNewChunks
\* Nothing but the connection of l and what its central knows of its peripheral changes.
<1>4. /\ \A k \in Pair : k # l => conn'[k] = conn[k] /\ ends'[k] \subseteq ends[k]
      /\ \A k \in Pair : k # l /\ k[2] \in known[k[1]] => k[2] \in known'[k[1]]
      /\ \A k \in Pair : k # l /\ k[2] \in tx[k[1]] => k[2] \in tx'[k[1]]
  <2>1. \A k \in Pair : k # l => conn'[k] = conn[k] /\ ends'[k] \subseteq ends[k]
    <3>1. conn' = conn \/ \E s : conn' = [conn EXCEPT ![l] = s]
      BY <1>1 DEF Told, DidDiscover, OnScanResult, Ask, Connected, ConnectFails, CentralConnected,
                  CentralLosesLink, PeripheralLosesLink
    <3>2. ends' = ends \/ \E e : ends' = [ends EXCEPT ![l] = @ \ {e}]
      BY <1>1 DEF Told, DidDiscover, OnScanResult, Ask, Connected, ConnectFails, CentralConnected,
                  CentralLosesLink, PeripheralLosesLink
    <3>3. DOMAIN conn = Pair /\ DOMAIN ends = Pair  BY <1>0 DEF RangesInv
    <3> QED  BY <3>1, <3>2, <3>3
  <2>2. /\ \/ known' = known \/ known' = [known EXCEPT ![l[1]] = @ \cup {l[2]}]
           \/ known' = [known EXCEPT ![l[1]] = @ \ {l[2]}]
        /\ tx' = tx \/ tx' = [tx EXCEPT ![l[1]] = @ \ {l[2]}]
    BY DEF Told, DidDiscover, OnScanResult, Ask, Connected, ConnectFails, CentralConnected,
           CentralLosesLink, PeripheralLosesLink, moduleVars
  <2>3. \A e, f \in Device : <<e, f>> # l =>
            /\ f \in known[e] => f \in known'[e]
            /\ f \in tx[e] => f \in tx'[e]
    <3> SUFFICES ASSUME NEW e \in Device, NEW f \in Device, e # l[1] \/ f # l[2]
                 PROVE  /\ f \in known[e] => f \in known'[e]
                        /\ f \in tx[e] => f \in tx'[e]
      BY <1>1
    <3>1. known \in [Device -> SUBSET Device] /\ tx \in [Device -> SUBSET Device]  BY <1>0 DEF RangesInv
    <3>2. f \in known[e] => f \in known'[e]  BY <1>1, <2>2, <3>1
    <3>3. f \in tx[e] => f \in tx'[e]  BY <1>1, <2>2, <3>1
    <3> QED  BY <3>2, <3>3
  <2> QED  BY <2>1, <2>3, PairIs
<1>5. /\ conn'[l] # "out" => ends'[l] = {} /\ l[2] \in known'[l[1]] /\ starts'[l[1]] > 0
      /\ conn'[l] \in {"up", "ready"} => starts'[l[2]] > 0
      /\ conn'[l] = "ready" => conn[l] = "ready" /\ l[2] \in tx'[l[1]]
      /\ conn[l] \in {"up", "ready"} => conn'[l] = conn[l]
  <2>0. /\ \A d \in Device : run[d] => starts[d] > 0
        /\ conn[l] # "out" => ends[l] = {} /\ l[2] \in known[l[1]] /\ starts[l[1]] > 0
        /\ conn[l] \in {"up", "ready"} => starts[l[2]] > 0
        /\ conn[l] = "ready" => l[2] \in tx[l[1]]
        /\ conn \in [Pair -> {"out", "asked", "up", "ready"}] /\ known \in [Device -> SUBSET Device]
    BY <1>0 DEF LinkInv, RangesInv
  <2>1. CASE DidDiscover(l[1], l[2]) \/ OnScanResult(l[1], l[2])
    <3>1. /\ Reachable(l[1], l[2]) /\ known' = [known EXCEPT ![l[1]] = @ \cup {l[2]}]
          /\ conn' = [conn EXCEPT ![l] = "asked"] /\ UNCHANGED <<ends, tx>>
      BY <1>1, <2>1 DEF DidDiscover, OnScanResult, Ask
    <3>2. run[l[1]] /\ conn[l] = "out" /\ ends[l] = {}  BY <1>1, <3>1 DEF Reachable
    <3>3. conn'[l] = "asked" /\ l[2] \in known'[l[1]] /\ starts[l[1]] > 0  BY <1>1, <2>0, <3>1, <3>2
    <3> QED  BY <1>2, <3>1, <3>2, <3>3
  <2>2. CASE Connected(l[1], l[2])
    <3>1. conn[l] = "asked" /\ run[l[2]] /\ conn' = [conn EXCEPT ![l] = "up"] /\ UNCHANGED <<ends, known, tx>>
      BY <1>1, <2>2 DEF Connected, moduleVars
    <3>2. conn'[l] = "up" /\ starts[l[2]] > 0  BY <1>1, <2>0, <3>1
    <3> QED  BY <1>2, <2>0, <3>1, <3>2
  <2>3. CASE ConnectFails(l[1], l[2])
    <3>1. conn[l] = "asked" /\ conn' = [conn EXCEPT ![l] = "out"]
      BY <1>1, <2>3 DEF ConnectFails
    <3>2. conn'[l] = "out"  BY <2>0, <3>1
    <3> QED  BY <3>1, <3>2
  <2>4. CASE CentralConnected(l)
    <3>1. UNCHANGED <<conn, ends, known, tx>>  BY <2>4 DEF CentralConnected, moduleVars
    <3> QED  BY <1>2, <2>0, <3>1
  <2>5. CASE CentralLosesLink(l)
    <3>1. ends[l] # {} /\ conn' = conn  BY <2>5 DEF CentralLosesLink
    <3>2. conn[l] = "out"  BY <2>0, <3>1
    <3> QED  BY <3>1, <3>2
  <2>6. CASE PeripheralLosesLink(l)
    <3>1. ends[l] # {} /\ conn' = conn  BY <2>6 DEF PeripheralLosesLink
    <3>2. conn[l] = "out"  BY <2>0, <3>1
    <3> QED  BY <3>1, <3>2
  <2> QED  BY <2>1, <2>2, <2>3, <2>4, <2>5, <2>6 DEF Told
<1> SUFFICES ASSUME NEW k \in Pair
             PROVE  /\ conn'[k] # "out" => ends'[k] = {} /\ k[2] \in known'[k[1]] /\ starts'[k[1]] > 0
                    /\ conn'[k] \in {"up", "ready"} => starts'[k[2]] > 0
                    /\ conn'[k] = "ready" => k[2] \in tx'[k[1]]
                    /\ down'[k] # <<>> => conn'[k] \in {"up", "ready"}
                    /\ up'[k] # <<>> => conn'[k] = "ready"
                    /\ \A i \in DOMAIN down'[k] : down'[k][i].kind = "chunk" => conn'[k] = "ready"
  BY <1>0, <1>2 DEF LinkInv
<1>6. /\ conn[k] # "out" => ends[k] = {} /\ k[2] \in known[k[1]] /\ starts[k[1]] > 0
      /\ conn[k] \in {"up", "ready"} => starts[k[2]] > 0
      /\ conn[k] = "ready" => k[2] \in tx[k[1]]
      /\ down[k] # <<>> => conn[k] \in {"up", "ready"}
      /\ up[k] # <<>> => conn[k] = "ready"
      /\ \A i \in DOMAIN down[k] : down[k][i].kind = "chunk" => conn[k] = "ready"
  BY <1>0 DEF LinkInv
<1>7. conn[k] \in {"up", "ready"} => conn'[k] = conn[k]  BY <1>4, <1>5
<1>8. \A i \in DOMAIN down'[k] : down'[k][i].kind = "chunk" => conn'[k] = "ready"
  BY <1>3, <1>6, <1>7 DEF Within
<1>9. up'[k] # <<>> => conn'[k] = "ready"  BY <1>3, <1>6, <1>7
<1>10. CASE k = l
  <2>1. down'[k] # <<>> => conn'[k] \in {"up", "ready"}  BY <1>3, <1>6, <1>7, <1>10
  <2> QED  BY <1>5, <1>8, <1>9, <1>10, <2>1
<1>11. CASE k # l
  <2>1. conn'[k] = conn[k] /\ ends'[k] \subseteq ends[k] /\ down'[k] = down[k]  BY <1>3, <1>4, <1>11
  <2>2. /\ k[2] \in known[k[1]] => k[2] \in known'[k[1]]
        /\ k[2] \in tx[k[1]] => k[2] \in tx'[k[1]]
    BY <1>4, <1>11
  <2> QED  BY <1>2, <1>6, <1>8, <1>9, <2>1, <2>2
<1> QED  BY <1>10, <1>11

LEMMA BrokenLinks ==
    ASSUME TypeInv, NEW gone, Broken(gone),
           \A d \in Device : run'[d] => run[d],
           \A k \in Pair \ gone : conn[k] # "out" =>
               /\ k[2] \in known[k[1]] => k[2] \in known'[k[1]]
               /\ k[2] \in tx[k[1]] => k[2] \in tx'[k[1]]
    PROVE  LinkInv'
<1>0. LinkInv  BY DEF TypeInv
<1>1. /\ gone \subseteq Pair
      /\ conn' = [k \in Pair |-> IF k \in gone THEN "out" ELSE conn[k]]
      /\ down' = [k \in Pair |-> IF k \in gone THEN <<>> ELSE down[k]]
      /\ up' = [k \in Pair |-> IF k \in gone THEN <<>> ELSE up[k]]
      /\ \A k \in Pair \ gone : conn[k] # "out" => ends'[k] = {}
      /\ starts' = starts
  BY DEF Broken
<1> SUFFICES ASSUME NEW k \in Pair
             PROVE  /\ conn'[k] # "out" => ends'[k] = {} /\ k[2] \in known'[k[1]] /\ starts'[k[1]] > 0
                    /\ conn'[k] \in {"up", "ready"} => starts'[k[2]] > 0
                    /\ conn'[k] = "ready" => k[2] \in tx'[k[1]]
                    /\ down'[k] # <<>> => conn'[k] \in {"up", "ready"}
                    /\ up'[k] # <<>> => conn'[k] = "ready"
                    /\ \A i \in DOMAIN down'[k] : down'[k][i].kind = "chunk" => conn'[k] = "ready"
  BY <1>0, <1>1 DEF LinkInv
<1>2. CASE k \in gone
  <2>1. conn'[k] = "out" /\ down'[k] = <<>> /\ up'[k] = <<>>  BY <1>1, <1>2
  <2>2. DOMAIN down'[k] = {}  BY <2>1
  <2> QED  BY <2>1, <2>2
<1>3. CASE k \notin gone
  <2>1. conn'[k] = conn[k] /\ down'[k] = down[k] /\ up'[k] = up[k]  BY <1>1, <1>3
  <2> QED  BY <1>0, <1>1, <1>3, <2>1 DEF LinkInv
<1> QED  BY <1>2, <1>3

LEMMA LinkStep == ASSUME TypeInv, [Next]_vars  PROVE LinkInv'
<1>0. LinkInv /\ AirInv /\ RangesInv  BY DEF TypeInv
<1>1. ASSUME NEW d \in Device, SendNumbered(d)  PROVE LinkInv'
  <2>0. PICK p \in Peers(d) : \E via : Sends(d, p, via, down)  BY <1>1, SendsNumbered
  <2>1. PICK via : Sends(d, p, via, down)  BY <2>0
  <2>2. Readied  BY <1>1, SendsNumbered DEF Readied
  <2> QED  BY <2>1, <2>2, WithinDown, SendLinks
<1>2. ASSUME NEW k \in Pair, DidDiscoverCharacteristics(k[1], k[2]) \/ OnServicesDiscovered(k[1], k[2])
      PROVE  LinkInv'
  <2>1. PICK downs : downs = IF platform[k[1]] = "ios" THEN Asked(k) ELSE down  OBVIOUS
  <2>2. /\ Sends(k[1], k[2], "write", downs)
        /\ conn[k] = "up" /\ conn' = [conn EXCEPT ![k] = "ready"]
        /\ tx' = [tx EXCEPT ![k[1]] = @ \cup {k[2]}]
    BY <1>2, <2>1, SendDiscovered
  <2>3. Within(downs)  BY <1>0, <2>1, WithinAsked, WithinDown
  <2>4. Readied  BY <2>2 DEF Readied
  <2>5. \A l \in Pair : downs[l] # <<>> => down[l] # <<>> \/ conn'[l] = "ready"
    <3>1. conn'[k] = "ready"  BY <1>0, <2>2 DEF RangesInv
    <3>2. \A l \in Pair : l # k => downs[l] = down[l]  BY <1>0, <2>1, AskedIs
    <3> QED  BY <3>1, <3>2
  <2>6. k[1] \in Device /\ k[2] \in Peers(k[1])  BY PairIs
  <2> QED  BY <2>2, <2>3, <2>4, <2>5, <2>6, SendLinks
<1>3. ASSUME NEW k \in Pair, DidSubscribe(k) \/ OnDescriptorWriteRequest(k)  PROVE LinkInv'
  <2>1. down[k] # <<>> /\ UNCHANGED <<tx, conn>>  BY <1>3, SendSubscribed
  <2>2. PICK via : Sends(k[2], k[1], via, Taken(k))  BY <1>3, SendSubscribed
  <2>3. PICK downs : downs = Taken(k)  OBVIOUS
  <2>4. Within(downs)  BY <1>0, <2>1, <2>3, WithinTaken
  <2>5. \A l \in Pair : downs[l] # <<>> => down[l] # <<>> \/ conn'[l] = "ready"
    <3>1. \A l \in Pair : l # k => downs[l] = down[l]  BY <1>0, <2>1, <2>3, TakenIs
    <3> QED  BY <2>1, <3>1
  <2>6. k[2] \in Device /\ k[1] \in Peers(k[2])  BY PairIs DEF Peers
  <2>7. Readied /\ Sends(k[2], k[1], via, downs)  BY <2>1, <2>2, <2>3 DEF Readied
  <2> QED  BY <2>4, <2>5, <2>6, <2>7, SendLinks
<1>4. ASSUME NEW k \in Pair, Told(k)  PROVE LinkInv'  BY <1>4, ToldLinks
<1>5. ASSUME NEW k \in Pair, WriteArrives(k) \/ NotificationArrives(k)  PROVE LinkInv'
  <2>1. PICK d, p, chunk : Arrives(d, p, k, chunk)  BY <1>5, ArrivesIs
  <2>2. UNCHANGED <<run, known, tx, conn, ends, starts>>  BY <2>1 DEF Arrives, moduleVars
  <2>3. /\ Within(down')
        /\ \A l \in Pair : down'[l] = down[l] \/ (l = k /\ down[k] # <<>> /\ down'[l] = Tail(down[l]))
        /\ \A l \in Pair : up'[l] = up[l] \/ conn[l] = "ready"
    BY <2>1, ArrivesAir DEF NoNewChunks
  <2>4. \A l \in Pair : /\ down'[l] # <<>> => down[l] # <<>>
                        /\ up'[l] # <<>> => up[l] # <<>> \/ conn[l] = "ready"
    BY <2>3
  <2>5. \A l \in Pair : \A i \in DOMAIN down'[l] : down'[l][i].kind = "chunk" => conn[l] = "ready"
    BY <1>0, <2>3 DEF LinkInv, Within
  <2> QED  BY <1>0, <2>2, <2>4, <2>5 DEF LinkInv
<1>6. ASSUME NEW k \in Pair, Cut(k)  PROVE LinkInv'
  <2>1. Broken({k}) /\ UNCHANGED <<run, known, tx>>  BY <1>6, CutBreaks
  <2> QED  BY <2>1, BrokenLinks
<1>7. ASSUME NEW d \in Device, Stop(d) \/ Die(d)  PROVE LinkInv'
  <2>1. /\ Broken(Own(d)) /\ run' = [run EXCEPT ![d] = FALSE]
        /\ known' = [known EXCEPT ![d] = {}] /\ tx' = [tx EXCEPT ![d] = {}]
    BY <1>7, EndBreaks DEF Forgotten
  <2>2. \A e \in Device : run'[e] => run[e]  BY <1>0, <2>1 DEF RangesInv
  <2>3. ASSUME NEW k \in Pair \ Own(d), conn[k] # "out"
        PROVE  /\ k[2] \in known[k[1]] => k[2] \in known'[k[1]]
               /\ k[2] \in tx[k[1]] => k[2] \in tx'[k[1]]
    <3>1. k[1] # d
      <4>1. conn[k] \in {"out", "asked", "up", "ready"}  BY <1>0 DEF RangesInv
      <4> QED  BY <2>3, <4>1 DEF Own
    <3>2. k[1] \in Device /\ DOMAIN known = Device /\ DOMAIN tx = Device  BY <1>0, PairIs DEF RangesInv
    <3> QED  BY <2>1, <3>1, <3>2
  <2> QED  BY <2>1, <2>2, <2>3, BrokenLinks
<1>8. ASSUME NEW d \in Device, Start(d)  PROVE LinkInv'
  <2>1. /\ run' = [run EXCEPT ![d] = TRUE] /\ starts' = [starts EXCEPT ![d] = @ + 1]
        /\ UNCHANGED <<known, tx, conn, ends, down, up>>
    BY <1>8 DEF Start, airVars
  <2>2. starts \in [Device -> Nat] /\ DOMAIN run = Device  BY <1>0 DEF RangesInv
  <2>3. starts'[d] > 0 /\ \A e \in Device : starts[e] > 0 => starts'[e] > 0  BY <2>1, <2>2
  <2>4. \A e \in Device : e # d => run'[e] = run[e]  BY <2>1, <2>2
  <2>5. \A e \in Device : run'[e] => starts'[e] > 0  BY <1>0, <2>3, <2>4 DEF LinkInv
  <2> QED  BY <1>0, <2>1, <2>3, <2>5, PairIs DEF LinkInv
<1>9. CASE Quiet
  BY <1>0, <1>9 DEF LinkInv, Quiet, moduleVars, airVars, historyVars
<1> QED
  BY <1>1, <1>2, <1>3, <1>4, <1>5, <1>6, <1>7, <1>8, <1>9, QuietSteps DEF Next, Radio, Callback, Told

LEMMA TypeStep == TypeInv /\ [Next]_vars => TypeInv'
BY RangesStep, AirStep, FiledStep, LinkStep DEF TypeInv

LEMMA TypeHolds == Spec => []TypeInv
<1> QED  BY TypeStart, TypeStep, PTL DEF Spec

LEMMA TypeInvTypes == TypeInv => TypeOK
<1> SUFFICES ASSUME TypeInv  PROVE TypeOK  OBVIOUS
<1>1. RangesInv /\ LinkInv /\ FiledInv  BY DEF TypeInv
<1>2. \A d \in Device, k \in Pair : conn[k] = "ready" /\ d = k[1] => k[2] \in known[d] \cap tx[d]
  BY <1>1 DEF LinkInv
<1>3. \A d \in Device : \A key \in DOMAIN assemblies[d] : \A i \in DOMAIN assemblies[d][key] :
          /\ assemblies[d][key][i].of = key[1] /\ assemblies[d][key][i].id = key[2]
          /\ assemblies[d][key][i].index = i
  BY <1>1 DEF FiledInv
<1>4. \A f \in Faults : spent[f] \in 0..most[f]  BY <1>1 DEF RangesInv
<1> QED  BY <1>1, <1>2, <1>3, <1>4 DEF TypeOK, RangesInv

\* Every variable keeps its type, a budget is not overspent, an assembly holds chunks of its link,
\* frame and place alone, and a central writes only to a peripheral it has found (consumeChunk,
\* sendFrame).
THEOREM TypeCorrect == Spec => []TypeOK
BY TypeHolds, TypeInvTypes, PTL

-----------------------------------------------------------------------------
(* Links that can be answered *)

LEMMA AsksJoin ==
    ASSUME NEW q \in Seq(Message), NEW r \in Seq(Message), Asks(q)
    PROVE  Asks(q \o r)
<1>1. PICK t : t = q \o r  OBVIOUS
<1>2. \A i \in DOMAIN q : i \in DOMAIN t /\ t[i] = q[i]  BY <1>1, JoinIs
<1>3. PICK j \in DOMAIN q : q[j].kind = "subscribe" /\ \A i \in 1..j - 1 : q[i].kind # "chunk"  BY DEF Asks
<1>4. \A i \in 1..j - 1 : i \in DOMAIN q  OBVIOUS
<1>5. j \in DOMAIN t /\ t[j].kind = "subscribe" /\ \A i \in 1..j - 1 : t[i].kind # "chunk"  BY <1>2, <1>3, <1>4
<1> QED  BY <1>1, <1>5 DEF Asks

LEMMA AsksPush ==
    ASSUME NEW q \in Seq(Message), \A i \in DOMAIN q : q[i].kind # "chunk"
    PROVE  Asks(Append(q, [kind |-> "subscribe"]))
<1>1. PICK t : t = Append(q, [kind |-> "subscribe"])  OBVIOUS
<1>2. [kind |-> "subscribe"] \in Message  BY DEF Message
<1>3. /\ \A i \in DOMAIN q : i \in DOMAIN t /\ t[i] = q[i]
      /\ Len(q) + 1 \in DOMAIN t /\ t[Len(q) + 1] = [kind |-> "subscribe"]
  BY <1>1, <1>2
<1>4. \A i \in 1..Len(q) + 1 - 1 : i \in DOMAIN q  OBVIOUS
<1>5. \A i \in 1..Len(q) + 1 - 1 : t[i].kind # "chunk"  BY <1>3, <1>4
<1> QED  BY <1>1, <1>3, <1>5 DEF Asks

LEMMA AsksTail ==
    ASSUME NEW q \in Seq(Message), q # <<>>, Asks(q), q[1].kind # "subscribe"
    PROVE  q[1].kind # "chunk" /\ Asks(Tail(q))
<1>1. PICK j \in DOMAIN q : q[j].kind = "subscribe" /\ \A i \in 1..j - 1 : q[i].kind # "chunk"  BY DEF Asks
<1>2. PICK t : t = Tail(q)  OBVIOUS
<1>3. /\ \A i \in DOMAIN t : i + 1 \in DOMAIN q /\ t[i] = q[i + 1]
      /\ \A i \in DOMAIN q : i # 1 => i - 1 \in DOMAIN t
  BY <1>2, TailIs
<1>4. j # 1 /\ j \in Nat  BY <1>1
<1>5. j - 1 \in DOMAIN t /\ t[j - 1] = q[j - 1 + 1]  BY <1>3, <1>4
<1>6. t[j - 1].kind = "subscribe"
  <2>1. j - 1 + 1 = j  BY <1>4
  <2> QED  BY <1>1, <1>5, <2>1
<1>7. 1 \in 1..j - 1  BY <1>4
<1>8. \A i \in 1..j - 1 - 1 : t[i].kind # "chunk"
  <2> SUFFICES ASSUME NEW i \in 1..j - 1 - 1  PROVE t[i].kind # "chunk"  OBVIOUS
  <2>1. i + 1 \in 1..j - 1 /\ i \in Nat /\ i > 0  BY <1>4
  <2>2. i + 1 \in DOMAIN q /\ i + 1 # 1 /\ i + 1 - 1 = i  BY <2>1
  <2>3. i \in DOMAIN t
    <3>1. PICK m \in DOMAIN q : m = i + 1  BY <2>2
    <3>2. m # 1 /\ m - 1 = i  BY <2>1, <2>2, <3>1
    <3>3. m - 1 \in DOMAIN t  BY <1>3, <3>2
    <3> QED  BY <3>2, <3>3
  <2> QED  BY <1>1, <1>3, <2>1, <2>3
<1> QED  BY <1>1, <1>2, <1>5, <1>6, <1>7, <1>8 DEF Asks

LEMMA SendAsked ==
    ASSUME TypeInv, AskedInv, NEW d \in Device, NEW p \in Peers(d), NEW via, NEW downs,
           Sends(d, p, via, downs),
           \A k \in Pair : conn[k] = "ready" => conn'[k] = "ready",
           \A k \in Pair : k[1] \in subs[k[2]] => k[1] \in subs'[k[2]],
           \A k \in Pair : conn'[k] = "ready" /\ platform[k[1]] = "ios" =>
               k[1] \in subs'[k[2]] \/ Asks(downs[k])
    PROVE  AskedInv'
<1>1. PICK content \in Nat : \E air \in Seq(Fresh(d, content)) : Sent(d, p, via, conn'[<<d, p>>], air, downs, up)
  BY DEF Sends
<1>2. PICK air \in Seq(Fresh(d, content)) : Sent(d, p, via, conn'[<<d, p>>], air, downs, up)  BY <1>1
<1>3. air \in Seq(Message)  BY <1>2, FreshIs
<1>4. \A k \in Pair : down'[k] = downs[k] \/ down'[k] = downs[k] \o air  BY <1>2 DEF Sent
<1>5. downs \in [Pair -> Seq(Message)] /\ platform' = platform /\ heard' = heard  BY DEF Sends, fixed
<1>6. \A k \in Pair : conn'[k] = "ready" /\ platform'[k[1]] = "ios" => k[1] \in subs'[k[2]] \/ Asks(down'[k])
  <2> SUFFICES ASSUME NEW k \in Pair, Asks(downs[k])  PROVE Asks(down'[k])  BY <1>5
  <2>1. PICK q : q = downs[k]  OBVIOUS
  <2>2. q \in Seq(Message)  BY <1>5, <2>1
  <2>3. Asks(q \o air)  BY <1>3, <2>1, <2>2, AsksJoin
  <2> QED  BY <1>4, <2>1, <2>3
<1>7. heard \subseteq Device \X Pair  BY DEF TypeInv, AirInv
<1>8. \A h \in heard' : /\ conn'[h[2]] = "ready" /\ h[1] \in {h[2][1], h[2][2]}
                        /\ h[1] = h[2][2] /\ platform'[h[2][1]] = "ios" => h[2][1] \in subs'[h[1]]
  <2> SUFFICES ASSUME NEW h \in heard
               PROVE  /\ conn'[h[2]] = "ready" /\ h[1] \in {h[2][1], h[2][2]}
                      /\ h[1] = h[2][2] /\ platform[h[2][1]] = "ios" => h[2][1] \in subs'[h[1]]
    BY <1>5
  <2>1. h[2] \in Pair  BY <1>7
  <2>2. /\ conn[h[2]] = "ready" /\ h[1] \in {h[2][1], h[2][2]}
        /\ h[1] = h[2][2] /\ platform[h[2][1]] = "ios" => h[2][1] \in subs[h[1]]
    BY DEF AskedInv
  <2> QED  BY <2>1, <2>2
<1> QED  BY <1>6, <1>8 DEF AskedInv

LEMMA ToldConn ==
    ASSUME TypeInv, NEW l \in Pair, Told(l)
    PROVE  /\ \A k \in Pair : conn[k] = "ready" <=> conn'[k] = "ready"
           /\ \A k \in Pair : conn[k] = "ready" /\ k[1] \in subs[k[2]] => k[1] \in subs'[k[2]]
           /\ platform' = platform
<1>0. RangesInv /\ LinkInv  BY DEF TypeInv
<1>1. l = <<l[1], l[2]>> /\ l[1] \in Device /\ l[2] \in Device /\ l[1] # l[2]  BY PairIs
<1>2. platform' = platform
  BY DEF Told, DidDiscover, OnScanResult, Ask, Connected, ConnectFails, CentralConnected,
         CentralLosesLink, PeripheralLosesLink, fixed
<1>3. \/ conn' = conn
      \/ \E s \in {"out", "asked", "up"} : conn[l] \in {"out", "asked"} /\ conn' = [conn EXCEPT ![l] = s]
  BY <1>1 DEF Told, DidDiscover, OnScanResult, Ask, Connected, ConnectFails, CentralConnected,
         CentralLosesLink, PeripheralLosesLink, Reachable
<1>4. DOMAIN conn = Pair /\ subs \in [Device -> SUBSET Device]  BY <1>0 DEF RangesInv
<1>5. \A k \in Pair : conn[k] = "ready" <=> conn'[k] = "ready"  BY <1>3, <1>4
<1>6. subs' = subs \/ (ends[l] # {} /\ subs' = [subs EXCEPT ![l[2]] = @ \ {l[1]}])
  BY DEF Told, DidDiscover, OnScanResult, Ask, Connected, ConnectFails, CentralConnected,
         CentralLosesLink, PeripheralLosesLink, moduleVars
<1>7. ASSUME NEW k \in Pair, conn[k] = "ready", k[1] \in subs[k[2]]  PROVE k[1] \in subs'[k[2]]
  <2>1. CASE subs' = subs  BY <1>7, <2>1
  <2>2. CASE ends[l] # {} /\ subs' = [subs EXCEPT ![l[2]] = @ \ {l[1]}]
    <3>1. conn[l] = "out"  BY <1>0, <2>2 DEF LinkInv
    <3>2. k # l  BY <1>7, <3>1
    <3>3. k[2] \in Device /\ k = <<k[1], k[2]>>  BY PairIs
    <3>4. k[1] # l[1] \/ k[2] # l[2]  BY <1>1, <3>2, <3>3
    <3> QED  BY <1>1, <1>4, <1>7, <2>2, <3>3, <3>4
  <2> QED  BY <1>6, <2>1, <2>2
<1> QED  BY <1>2, <1>5, <1>7

LEMMA BrokenAsked ==
    ASSUME TypeInv, AskedInv, NEW gone, Broken(gone),
           \A k \in Pair \ gone : conn[k] = "ready" /\ k[1] \in subs[k[2]] => k[1] \in subs'[k[2]]
    PROVE  AskedInv'
<1>1. /\ conn' = [k \in Pair |-> IF k \in gone THEN "out" ELSE conn[k]]
      /\ down' = [k \in Pair |-> IF k \in gone THEN <<>> ELSE down[k]]
      /\ heard' = {h \in heard : h[2] \notin gone} /\ platform' = platform
  BY DEF Broken, fixed
<1>2. heard \subseteq Device \X Pair  BY DEF TypeInv, AirInv
<1>3. ASSUME NEW k \in Pair, conn'[k] = "ready", platform[k[1]] = "ios"
      PROVE  k[1] \in subs'[k[2]] \/ Asks(down'[k])
  <2>1. k \notin gone /\ conn[k] = "ready" /\ down'[k] = down[k]  BY <1>1, <1>3
  <2> QED  BY <1>3, <2>1 DEF AskedInv
<1>4. ASSUME NEW h \in heard'
      PROVE  /\ conn'[h[2]] = "ready" /\ h[1] \in {h[2][1], h[2][2]}
             /\ h[1] = h[2][2] /\ platform[h[2][1]] = "ios" => h[2][1] \in subs'[h[1]]
  <2>1. h \in heard /\ h[2] \notin gone /\ h[2] \in Pair  BY <1>1, <1>2
  <2>2. /\ conn[h[2]] = "ready" /\ h[1] \in {h[2][1], h[2][2]}
        /\ h[1] = h[2][2] /\ platform[h[2][1]] = "ios" => h[2][1] \in subs[h[1]]
    BY <2>1 DEF AskedInv
  <2> QED  BY <1>1, <2>1, <2>2
<1> QED  BY <1>1, <1>3, <1>4 DEF AskedInv

LEMMA AskedStart == Init => AskedInv
<1> SUFFICES ASSUME Init  PROVE AskedInv  OBVIOUS
<1>1. (\A k \in Pair : conn[k] = "out") /\ heard = {}  BY DEF Init
<1> QED  BY <1>1 DEF AskedInv

LEMMA AskedStep == ASSUME TypeInv, AskedInv, [Next]_vars  PROVE AskedInv'
<1>0. LinkInv /\ AirInv /\ RangesInv  BY DEF TypeInv
<1>d. /\ down \in [Pair -> Seq(Message)] /\ heard \subseteq Device \X Pair
      /\ subs \in [Device -> SUBSET Device] /\ DOMAIN conn = Pair
  BY <1>0 DEF AirInv, RangesInv
<1>1. ASSUME NEW d \in Device, SendNumbered(d)  PROVE AskedInv'
  <2>0. PICK p \in Peers(d) : \E via : Sends(d, p, via, down)  BY <1>1, SendsNumbered
  <2>1. PICK via : Sends(d, p, via, down)  BY <2>0
  <2>2. UNCHANGED <<subs, conn>>  BY <1>1, SendsNumbered
  <2>3. \A k \in Pair : conn'[k] = "ready" /\ platform[k[1]] = "ios" => k[1] \in subs'[k[2]] \/ Asks(down[k])
    BY <2>2 DEF AskedInv
  <2> QED  BY <2>1, <2>2, <2>3, SendAsked
<1>2. ASSUME NEW l \in Pair, DidDiscoverCharacteristics(l[1], l[2]) \/ OnServicesDiscovered(l[1], l[2])
      PROVE  AskedInv'
  <2>1. PICK downs : downs = IF platform[l[1]] = "ios" THEN Asked(l) ELSE down  OBVIOUS
  <2>2. /\ Sends(l[1], l[2], "write", downs)
        /\ conn[l] = "up" /\ conn' = [conn EXCEPT ![l] = "ready"] /\ subs' = subs
    BY <1>2, <2>1, SendDiscovered
  <2>3. \A k \in Pair : conn[k] = "ready" => conn'[k] = "ready"  BY <1>d, <2>2
  <2>4. ASSUME NEW k \in Pair, conn'[k] = "ready", platform[k[1]] = "ios"
        PROVE  k[1] \in subs'[k[2]] \/ Asks(downs[k])
    <3>1. CASE k = l
      <4>1. \A i \in DOMAIN down[l] : down[l][i].kind # "chunk"  BY <1>0, <2>2 DEF LinkInv
      <4>2. down[l] \in Seq(Message)  BY <1>d
      <4>3. PICK q : q = down[l]  OBVIOUS
      <4>4. Asks(Append(q, [kind |-> "subscribe"]))  BY <4>1, <4>2, <4>3, AsksPush
      <4>5. downs[l] = Append(q, [kind |-> "subscribe"])  BY <1>0, <2>1, <2>4, <3>1, <4>3, AskedIs
      <4> QED  BY <3>1, <4>4, <4>5
    <3>2. CASE k # l
      <4>1. conn[k] = "ready"  BY <1>d, <2>2, <2>4, <3>2
      <4>2. downs[k] = down[k]  BY <1>0, <2>1, <3>2, AskedIs
      <4> QED  BY <2>2, <2>4, <4>1, <4>2 DEF AskedInv
    <3> QED  BY <3>1, <3>2
  <2>5. l[1] \in Device /\ l[2] \in Peers(l[1])  BY PairIs
  <2> QED  BY <2>2, <2>3, <2>4, <2>5, SendAsked
<1>3. ASSUME NEW l \in Pair, DidSubscribe(l) \/ OnDescriptorWriteRequest(l)  PROVE AskedInv'
  <2>1. /\ down[l] # <<>> /\ conn' = conn
        /\ subs' = [subs EXCEPT ![l[2]] = @ \cup {l[1]}]
    BY <1>3, SendSubscribed
  <2>2. PICK via : Sends(l[2], l[1], via, Taken(l))  BY <1>3, SendSubscribed
  <2>3. PICK downs : downs = Taken(l)  OBVIOUS
  <2>4. l[2] \in Device /\ l[1] \in Peers(l[2]) /\ l[1] \in Device  BY PairIs DEF Peers
  <2>5. \A k \in Pair : k[1] \in subs[k[2]] => k[1] \in subs'[k[2]]
    <3> SUFFICES ASSUME NEW k \in Pair, k[1] \in subs[k[2]]  PROVE k[1] \in subs'[k[2]]  OBVIOUS
    <3>1. k[2] \in Device  BY PairIs
    <3> QED  BY <1>d, <2>1, <3>1
  <2>6. ASSUME NEW k \in Pair, conn'[k] = "ready", platform[k[1]] = "ios"
        PROVE  k[1] \in subs'[k[2]] \/ Asks(downs[k])
    <3>1. CASE k = l  BY <1>d, <2>1, <2>4, <3>1
    <3>2. CASE k # l
      <4>1. downs[k] = down[k]  BY <1>0, <2>1, <2>3, <3>2, TakenIs
      <4> QED  BY <2>1, <2>5, <2>6, <4>1 DEF AskedInv
    <3> QED  BY <3>1, <3>2
  <2>7. Sends(l[2], l[1], via, downs)  BY <2>2, <2>3
  <2> QED  BY <2>1, <2>4, <2>5, <2>6, <2>7, SendAsked
<1>4. ASSUME NEW l \in Pair, Told(l)  PROVE AskedInv'
  <2>1. /\ \A k \in Pair : conn[k] = "ready" <=> conn'[k] = "ready"
        /\ \A k \in Pair : conn[k] = "ready" /\ k[1] \in subs[k[2]] => k[1] \in subs'[k[2]]
        /\ platform' = platform
    BY <1>4, ToldConn
  <2>2. /\ \A k \in Pair : k # l => down'[k] = down[k]
        /\ \/ down' = down
           \/ conn[l] = "asked"
           \/ down[l] # <<>> /\ down[l][1].kind = "connect" /\ down'[l] = Tail(down[l])
        /\ heard' = heard
    BY <1>4, ToldAir
  <2>3. ASSUME NEW k \in Pair, conn'[k] = "ready", platform[k[1]] = "ios"
        PROVE  k[1] \in subs'[k[2]] \/ Asks(down'[k])
    <3>1. conn[k] = "ready" /\ (k[1] \in subs[k[2]] \/ Asks(down[k]))  BY <2>1, <2>3 DEF AskedInv
    <3>2. CASE k[1] \in subs[k[2]]  BY <2>1, <3>1, <3>2
    <3>3. CASE Asks(down[k]) /\ down'[k] = down[k]  BY <3>3
    <3>4. CASE Asks(down[k]) /\ down[k] # <<>> /\ down[k][1].kind = "connect" /\ down'[k] = Tail(down[k])
      <4>1. down[k] \in Seq(Message)  BY <1>d
      <4>2. PICK q : q = down[k]  OBVIOUS
      <4>3. Asks(Tail(q))  BY <3>4, <4>1, <4>2, AsksTail
      <4> QED  BY <3>4, <4>2, <4>3
    <3> QED  BY <2>2, <3>1, <3>2, <3>3, <3>4
  <2>4. ASSUME NEW h \in heard
        PROVE  /\ conn'[h[2]] = "ready" /\ h[1] \in {h[2][1], h[2][2]}
               /\ h[1] = h[2][2] /\ platform[h[2][1]] = "ios" => h[2][1] \in subs'[h[1]]
    <3>1. h[2] \in Pair  BY <1>d
    <3>2. /\ conn[h[2]] = "ready" /\ h[1] \in {h[2][1], h[2][2]}
          /\ h[1] = h[2][2] /\ platform[h[2][1]] = "ios" => h[2][1] \in subs[h[1]]
      BY DEF AskedInv
    <3> QED  BY <2>1, <3>1, <3>2
  <2> QED  BY <2>1, <2>2, <2>3, <2>4 DEF AskedInv
<1>5. ASSUME NEW l \in Pair, WriteArrives(l) \/ NotificationArrives(l)  PROVE AskedInv'
  <2>1. PICK d, p, chunk : Arrives(d, p, l, chunk)  BY <1>5, ArrivesIs
  <2>2. UNCHANGED <<platform, conn, subs>> /\ conn[l] = "ready" /\ d \in {l[1], l[2]}
    BY <2>1, PairIs DEF Arrives, moduleVars, fixed
  <2>3. heard' \subseteq heard \cup {<<d, l>>}  BY <2>1, ConsumeIs
  <2>4. \/ down' = down /\ d = l[1]
        \/ d = l[2] /\ chunk = down[l][1] /\ down[l] # <<>> /\ down' = Taken(l)
    BY <2>1 DEF Arrives
  <2>5. ASSUME d = l[2], platform[l[1]] = "ios"  PROVE l[1] \in subs[l[2]]
    <3>1. chunk = down[l][1] /\ down[l] # <<>> /\ chunk.kind = "chunk"
      <4>1. l[1] # l[2]  BY PairIs
      <4>2. chunk \in ChunkType  BY <2>1 DEF Arrives
      <4> QED  BY <2>4, <2>5, <4>1, <4>2 DEF ChunkType
    <3>2. down[l] \in Seq(Message)  BY <1>d
    <3>3. ~Asks(down[l])  BY <3>1, <3>2, AsksTail
    <3> QED  BY <2>2, <2>5, <3>3 DEF AskedInv
  <2>6. ASSUME NEW k \in Pair, conn[k] = "ready", platform[k[1]] = "ios"
        PROVE  k[1] \in subs[k[2]] \/ Asks(down'[k])
    <3>1. CASE down'[k] = down[k]  BY <2>6, <3>1 DEF AskedInv
    <3>2. CASE down'[k] # down[k]
      <4>1. k = l /\ d = l[2]  BY <1>0, <2>4, <3>2, TakenIs
      <4> QED  BY <2>5, <2>6, <4>1
    <3> QED  BY <3>1, <3>2
  <2>7. ASSUME NEW h \in heard'
        PROVE  /\ conn[h[2]] = "ready" /\ h[1] \in {h[2][1], h[2][2]}
               /\ h[1] = h[2][2] /\ platform[h[2][1]] = "ios" => h[2][1] \in subs[h[1]]
    <3>1. CASE h \in heard  BY <3>1 DEF AskedInv
    <3>2. CASE h = <<d, l>>  BY <2>2, <2>5, <3>2
    <3> QED  BY <2>3, <3>1, <3>2
  <2> QED  BY <2>2, <2>6, <2>7 DEF AskedInv
<1>6. ASSUME NEW l \in Pair, Cut(l)  PROVE AskedInv'
  <2>1. Broken({l}) /\ subs' = subs  BY <1>6, CutBreaks
  <2> QED  BY <2>1, BrokenAsked
<1>7. ASSUME NEW d \in Device, Stop(d) \/ Die(d)  PROVE AskedInv'
  <2>1. Broken(Own(d)) /\ subs' = [subs EXCEPT ![d] = {}]  BY <1>7, EndBreaks DEF Forgotten
  <2>2. ASSUME NEW k \in Pair \ Own(d), conn[k] = "ready", k[1] \in subs[k[2]]
        PROVE  k[1] \in subs'[k[2]]
    <3>1. k[2] # d  BY <2>2 DEF Own
    <3>2. k[2] \in Device  BY PairIs
    <3> QED  BY <1>d, <2>1, <2>2, <3>1, <3>2
  <2> QED  BY <2>1, <2>2, BrokenAsked
<1>8. ASSUME NEW d \in Device, Start(d)  PROVE AskedInv'
  <2>1. UNCHANGED <<platform, conn, subs, heard, down>>  BY <1>8 DEF Start, fixed, airVars
  <2> QED  BY <2>1 DEF AskedInv
<1>9. CASE Quiet
  <2>1. UNCHANGED <<platform, conn, subs, heard, down>>
    BY <1>9 DEF Quiet, fixed, airVars, moduleVars, historyVars
  <2> QED  BY <2>1 DEF AskedInv
<1> QED
  BY <1>1, <1>2, <1>3, <1>4, <1>5, <1>6, <1>7, <1>8, <1>9, QuietSteps DEF Next, Radio, Callback, Told

LEMMA AskedAnswers == TypeInv /\ AskedInv => AnswerableLinks
<1> SUFFICES ASSUME TypeInv, AskedInv, NEW h \in heard, NEW d, NEW k, NEW p,
                    d = h[1], k = h[2], p = Other(k, d), d = k[1] \/ platform[p] = "ios"
             PROVE  Route(d, p, subs[d]) # "none"
  BY DEF AnswerableLinks
<1>1. k \in Pair /\ d \in Device  BY DEF TypeInv, AirInv
<1>2. /\ conn[k] = "ready" /\ d \in {k[1], k[2]}
      /\ d = k[2] /\ platform[k[1]] = "ios" => k[1] \in subs[d]
  BY DEF AskedInv
<1>3. k[1] # k[2]  BY <1>1, PairIs
<1>4. CASE d = k[1]
  <2>1. p = k[2] /\ k[2] \in known[d] \cap tx[d]  BY <1>1, <1>2, <1>4 DEF Other, TypeInv, LinkInv
  <2> QED  BY <2>1 DEF Route
<1>5. CASE d = k[2]
  <2>1. p = k[1] /\ k[1] \in subs[d]  BY <1>2, <1>3, <1>5 DEF Other
  <2> QED  BY <2>1 DEF Route
<1> QED  BY <1>2, <1>4, <1>5

\* Whoever has heard an announcement can answer as long as the connection it came by holds, but for
\* a peripheral that an Android device has found: an iPhone asks for notifications before it sends
\* its announcement, so the subscription is there when the announcement is (didDiscoverCharacteristicsFor,
\* sendFrame).
THEOREM AnswerCorrect == Spec => []AnswerableLinks
<1>1. Init => TypeInv /\ AskedInv  BY TypeStart, AskedStart
<1>2. TypeInv /\ AskedInv /\ [Next]_vars => (TypeInv /\ AskedInv)'  BY TypeStep, AskedStep
<1> QED  BY <1>1, <1>2, AskedAnswers, PTL DEF Spec

-----------------------------------------------------------------------------
(* Chunks of frames *)

LEMMA KnownIs ==
    /\ \A c : c \in Known <=>
           \/ \E k \in Pair : \E i \in DOMAIN down[k] : down[k][i] = c /\ c.kind = "chunk"
           \/ \E k \in Pair : \E i \in DOMAIN up[k] : up[k][i] = c
           \/ \E d \in Device : c \in arrived[d]
    /\ AirInv => Known \subseteq ChunkType
<1>1. \A c : c \in Known <=>
          \/ \E k \in Pair : \E i \in DOMAIN down[k] : down[k][i] = c /\ c.kind = "chunk"
          \/ \E k \in Pair : \E i \in DOMAIN up[k] : up[k][i] = c
          \/ \E d \in Device : c \in arrived[d]
  BY DEF Known, UnderWay, Range
<1>2. ASSUME AirInv, NEW c \in Known  PROVE c \in ChunkType
  <2>1. CASE \E k \in Pair : \E i \in DOMAIN down[k] : down[k][i] = c /\ c.kind = "chunk"
    <3>0. PICK k \in Pair : \E i \in DOMAIN down[k] : down[k][i] = c /\ c.kind = "chunk"  BY <2>1
    <3>1. PICK i \in DOMAIN down[k] : down[k][i] = c /\ c.kind = "chunk"  BY <3>0
    <3>2. down[k] \in Seq(Message)  BY <1>2 DEF AirInv
    <3>3. c \in Message  BY <3>1, <3>2
    <3>4. c \notin [kind : {"connect", "subscribe"}]  BY <3>1
    <3> QED  BY <3>3, <3>4 DEF Message
  <2>2. CASE \E k \in Pair : \E i \in DOMAIN up[k] : up[k][i] = c
    <3>0. PICK k \in Pair : \E i \in DOMAIN up[k] : up[k][i] = c  BY <2>2
    <3>1. PICK i \in DOMAIN up[k] : up[k][i] = c  BY <3>0
    <3>2. up[k] \in Seq(ChunkType)  BY <1>2 DEF AirInv
    <3> QED  BY <3>1, <3>2
  <2>3. CASE \E d \in Device : c \in arrived[d]  BY <1>2, <2>3 DEF AirInv
  <2> QED  BY <1>1, <1>2, <2>1, <2>2, <2>3
<1> QED  BY <1>1, <1>2

LEMMA OldKnown ==
    ASSUME NoNewChunks, \A d \in Device : arrived'[d] \subseteq arrived[d] \cup Known
    PROVE  Known' \subseteq Known
<1> SUFFICES ASSUME NEW c \in Known'  PROVE c \in Known  OBVIOUS
<1>1. \/ \E k \in Pair : \E i \in DOMAIN down'[k] : down'[k][i] = c /\ c.kind = "chunk"
      \/ \E k \in Pair : \E i \in DOMAIN up'[k] : up'[k][i] = c
      \/ \E d \in Device : c \in arrived'[d]
  BY DEF Known, UnderWay, Range
<1>2. CASE \E k \in Pair : \E i \in DOMAIN down'[k] : down'[k][i] = c /\ c.kind = "chunk"
  BY <1>2, KnownIs DEF NoNewChunks, Within
<1>3. CASE \E k \in Pair : \E i \in DOMAIN up'[k] : up'[k][i] = c
  BY <1>3, KnownIs DEF NoNewChunks
<1>4. CASE \E d \in Device : c \in arrived'[d]  BY <1>4, KnownIs
<1> QED  BY <1>1, <1>2, <1>3, <1>4

LEMMA OldFrames ==
    ASSUME TypeInv, FrameInv, Known' \subseteq Known, made' = made,
           \A e \in Device : \/ /\ life'[e] = life[e] /\ frameCounter'[e] = frameCounter[e]
                                /\ \A s \in sending'[e] : s \in sending[e] \/ s.read = frameCounter[e]
                             \/ life'[e] = life[e] + 1
    PROVE  FrameInv'
<1>1. ASSUME NEW c \in Known'  PROVE Cut1(c) /\ Made(c)'
  <2>1. c \in Known /\ c \in ChunkType /\ Cut1(c) /\ Made(c)  BY KnownIs DEF FrameInv, TypeInv
  <2>2. c.of \in Device /\ c.life \in Nat  BY <2>1 DEF ChunkType
  <2>3. life[c.of] \in Nat  BY <2>2 DEF TypeInv, RangesInv
  <2>4. CASE life'[c.of] = life[c.of] /\ frameCounter'[c.of] = frameCounter[c.of]
    BY <2>1, <2>4 DEF Made
  <2>5. CASE life'[c.of] = life[c.of] + 1
    <3>1. c.life <= life'[c.of] /\ c.life # life'[c.of]  BY <2>1, <2>2, <2>3, <2>5 DEF Made
    <3> QED  BY <2>1, <3>1 DEF Made
  <2> QED  BY <2>1, <2>2, <2>4, <2>5
<1>2. \A a, b \in Known' : a.of = b.of => /\ a.n = b.n => Same(a, b)
                                          /\ a.life = b.life /\ a.id = b.id => a.n = b.n
  BY DEF FrameInv
<1>3. \A c : Cut1(c)' <=> Cut1(c)  BY DEF Cut1
<1>4. \A a, b : Same(a, b)' <=> Same(a, b)  BY DEF Same
<1>5. ASSUME NEW c \in Known', c.life = life'[c.of], NEW s \in sending'[c.of]
      PROVE  s.read = frameCounter'[c.of]
  <2>1. c \in Known /\ c \in ChunkType /\ c.life <= life[c.of]  BY KnownIs DEF FrameInv, TypeInv, Made
  <2>2. c.of \in Device  BY <2>1 DEF ChunkType
  <2>3. life[c.of] \in Nat  BY <2>2 DEF TypeInv, RangesInv
  <2>4. life'[c.of] # life[c.of] + 1  BY <1>5, <2>1, <2>3
  <2>5. /\ life'[c.of] = life[c.of] /\ frameCounter'[c.of] = frameCounter[c.of]
        /\ s \in sending[c.of] \/ s.read = frameCounter[c.of]
    BY <1>5, <2>2, <2>4
  <2> QED  BY <1>5, <2>1, <2>5 DEF FrameInv
<1> QED  BY <1>1, <1>2, <1>3, <1>4, <1>5 DEF FrameInv

LEMMA NewFrames ==
    ASSUME TypeInv, FrameInv, NEW d \in Device, NEW content \in Nat,
           Known' \subseteq Known \cup Fresh(d, content),
           Numbers(d), made' = [made EXCEPT ![d] = made[d] + 1]
    PROVE  FrameInv'
<1>1. /\ frameCounter \in [Device -> Nat] /\ made \in [Device -> Nat] /\ life \in [Device -> Nat]
      /\ sending \in [Device -> SUBSET [to : Device, read : Nat]]
  BY DEF TypeInv, RangesInv
<1>2. /\ frameCounter'[d] \in Nat /\ made'[d] = made[d] + 1
      /\ life'[d] = life[d] \/ life'[d] = life[d] + 1
      /\ sending'[d] = {} \/ life'[d] = life[d] + 1
      /\ \A e \in Device : e # d => /\ frameCounter'[e] = frameCounter[e] /\ made'[e] = made[e]
                                    /\ life'[e] = life[e] /\ sending'[e] = sending[e]
  <2>1. CASE /\ frameCounter' = [frameCounter EXCEPT ![d] = frameCounter[d] + 1] /\ sending' = sending
             /\ life' = IF sending[d] = {} THEN life ELSE [life EXCEPT ![d] = life[d] + 1]
    <3>1. frameCounter'[d] \in Nat /\ \A e \in Device : e # d => frameCounter'[e] = frameCounter[e]
      BY <1>1, <2>1
    <3>2. CASE sending[d] = {}  BY <1>1, <2>1, <3>1, <3>2
    <3>3. CASE sending[d] # {}  BY <1>1, <2>1, <3>1, <3>3
    <3> QED  BY <3>2, <3>3
  <2>2. ASSUME NEW s \in sending[d], frameCounter' = [frameCounter EXCEPT ![d] = s.read + 1],
               sending' = [sending EXCEPT ![d] = {}], life' = life
        PROVE  /\ frameCounter'[d] \in Nat /\ life'[d] = life[d] /\ sending'[d] = {}
               /\ \A e \in Device : e # d => /\ frameCounter'[e] = frameCounter[e]
                                             /\ life'[e] = life[e] /\ sending'[e] = sending[e]
    <3>1. s.read \in Nat  BY <1>1
    <3> QED  BY <1>1, <2>2, <3>1
  <2> QED  BY <1>1, <2>1, <2>2 DEF Numbers
<1>3. ASSUME NEW c \in Known
      PROVE  c \in ChunkType /\ Cut1(c) /\ Made(c)
  BY <1>3, KnownIs DEF FrameInv, TypeInv
<1>4. ASSUME NEW c \in Fresh(d, content)
      PROVE  /\ c \in ChunkType /\ Cut1(c) /\ c.of = d /\ c.n = made[d] + 1 /\ c.life = life[d]
             /\ c.content = content /\ c.id = frameCounter'[d]
  BY DEF Fresh
\* The new id follows on those of its life.
<1>a. ASSUME NEW c \in Known, c.of = d
      PROVE  /\ c.n \in Nat /\ c.id \in Nat /\ c.life \in Nat /\ c.n <= made[d] /\ c.life <= life[d]
             /\ c.life = life[d] => /\ c.id < frameCounter'[d]
                                    /\ c.n - c.id = made[d] + 1 - frameCounter'[d]
  <2>1. c \in ChunkType /\ Made(c)  BY <1>3
  <2>2. c.n \in Nat /\ c.id \in Nat /\ c.life \in Nat  BY <2>1 DEF ChunkType
  <2>3. /\ c.n <= made[d] /\ c.life <= life[d]
        /\ c.life = life[d] => c.id <= frameCounter[d] /\ c.n - c.id = made[d] - frameCounter[d]
    BY <1>a, <2>1 DEF Made
  <2>4. c.life = life[d] => \A s \in sending[d] : s.read = frameCounter[d]  BY <1>a DEF FrameInv
  <2>5. c.life = life[d] => frameCounter'[d] = frameCounter[d] + 1  BY <1>1, <2>4 DEF Numbers
  <2>6. frameCounter[d] \in Nat /\ made[d] \in Nat  BY <1>1
  <2> QED  BY <2>2, <2>3, <2>5, <2>6
<1>5. ASSUME NEW c \in Known'  PROVE Cut1(c) /\ Made(c)'
  <2>0. made[d] \in Nat /\ life[d] \in Nat /\ frameCounter'[d] \in Nat  BY <1>1, <1>2
  <2>1. CASE c \in Known
    <3>1. c \in ChunkType /\ Cut1(c) /\ Made(c)  BY <1>3, <2>1
    <3>2. c.of \in Device  BY <3>1 DEF ChunkType
    <3>3. CASE c.of # d  BY <1>2, <3>1, <3>2, <3>3 DEF Made
    <3>4. CASE c.of = d
      <4>1. /\ c.n \in Nat /\ c.id \in Nat /\ c.life \in Nat /\ c.n <= made[d] /\ c.life <= life[d]
            /\ c.life = life[d] => /\ c.id < frameCounter'[d]
                                   /\ c.n - c.id = made[d] + 1 - frameCounter'[d]
        BY <1>a, <2>1, <3>4
      <4>2. PICK x, y, z : x = made'[d] /\ y = frameCounter'[d] /\ z = life'[d]  OBVIOUS
      <4>3. /\ c.n <= x /\ c.life <= z
            /\ c.life = z => c.id <= y /\ c.n - c.id = x - y
        BY <1>2, <2>0, <4>1, <4>2
      <4>4. Made(c)'  BY <3>4, <4>2, <4>3 DEF Made
      <4> QED  BY <3>1, <4>4
    <3> QED  BY <3>3, <3>4
  <2>2. CASE c \in Fresh(d, content)  BY <1>2, <1>4, <2>0, <2>2 DEF Made
  <2> QED  BY <2>1, <2>2
<1>6. ASSUME NEW a \in Known, NEW b \in Fresh(d, content), a.of = b.of
      PROVE  a.n # b.n /\ ~(a.life = b.life /\ a.id = b.id)
  <2>1. b.n = made[d] + 1 /\ b.id = frameCounter'[d] /\ b.life = life[d] /\ a.of = d  BY <1>4, <1>6
  <2>2. made[d] \in Nat /\ frameCounter'[d] \in Nat  BY <1>1, <1>2
  <2> QED  BY <1>a, <2>1, <2>2
<1>7. ASSUME NEW a \in Known', NEW b \in Known', a.of = b.of
      PROVE  /\ a.n = b.n => Same(a, b)
             /\ a.life = b.life /\ a.id = b.id => a.n = b.n
  <2>1. CASE a \in Known /\ b \in Known  BY <1>7, <2>1 DEF FrameInv
  <2>2. CASE a \in Known /\ b \in Fresh(d, content)
    <3>1. a.n # b.n /\ ~(a.life = b.life /\ a.id = b.id)  BY <1>6, <1>7, <2>2
    <3> QED  BY <3>1
  <2>3. CASE b \in Known /\ a \in Fresh(d, content)
    <3>1. b.n # a.n /\ ~(b.life = a.life /\ b.id = a.id)  BY <1>6, <1>7, <2>3
    <3> QED  BY <3>1
  <2>4. CASE a \in Fresh(d, content) /\ b \in Fresh(d, content)
    <3>1. a.n = b.n /\ Same(a, b)  BY <1>4, <2>4 DEF Same
    <3> QED  BY <3>1
  <2> QED  BY <2>1, <2>2, <2>3, <2>4
<1>8. \A c : Cut1(c)' <=> Cut1(c)  BY DEF Cut1
<1>9. \A a, b : Same(a, b)' <=> Same(a, b)  BY DEF Same
<1>10. ASSUME NEW c \in Known', c.life = life'[c.of], NEW s \in sending'[c.of]
       PROVE  s.read = frameCounter'[c.of]
  <2>1. CASE c.of = d
    <3>1. c.life <= life[d] /\ c.life \in Nat
      <4>1. CASE c \in Known  BY <1>a, <2>1, <4>1
      <4>2. CASE c \in Fresh(d, content)  BY <1>1, <1>4, <4>2
      <4> QED  BY <4>1, <4>2
    <3>2. life[d] \in Nat  BY <1>1
    <3> QED  BY <1>2, <1>10, <2>1, <3>1, <3>2
  <2>2. CASE c.of # d
    <3>1. c \in Known  BY <1>4, <2>2
    <3>2. c.of \in Device  BY <1>3, <3>1 DEF ChunkType
    <3> QED  BY <1>2, <1>10, <2>2, <3>1, <3>2 DEF FrameInv
  <2> QED  BY <2>1, <2>2
<1> QED  BY <1>5, <1>7, <1>8, <1>9, <1>10 DEF FrameInv

LEMMA FrameStart == Init => FrameInv
<1> SUFFICES ASSUME Init  PROVE FrameInv  OBVIOUS
<1>1. \A k \in Pair : down[k] = <<>> /\ up[k] = <<>>  BY DEF Init
<1>2. \A d \in Device : arrived[d] = {}  BY DEF Init
<1>3. DOMAIN <<>> = {}  OBVIOUS
<1>4. \A c : c \notin Known  BY <1>1, <1>2, <1>3, KnownIs
<1> QED  BY <1>4 DEF FrameInv

LEMMA FrameStep == ASSUME TypeInv, FrameInv, [Next]_vars  PROVE FrameInv'
<1>0. AirInv /\ RangesInv  BY DEF TypeInv
<1>1. CASE SendStep
  <2>0. PICK d \in Device : \E p \in Peers(d) : \E via, downs : Sends(d, p, via, downs) /\ Within(downs)
    BY <1>1 DEF SendStep
  <2>a. PICK p \in Peers(d) : \E via, downs : Sends(d, p, via, downs) /\ Within(downs)  BY <2>0
  <2>1. PICK via, downs : Sends(d, p, via, downs) /\ Within(downs)  BY <2>a
  <2>2. PICK content \in Nat :
            /\ \A k \in Pair : \A i \in DOMAIN down'[k] :
                   down'[k][i].kind = "chunk" =>
                       \/ \E j \in DOMAIN down[k] : down[k][j] = down'[k][i]
                       \/ k = <<d, p>> /\ conn'[k] = "ready" /\ down'[k][i] \in Fresh(d, content)
            /\ \A k \in Pair : \A i \in DOMAIN up'[k] :
                   \/ \E j \in DOMAIN up[k] : up[k][j] = up'[k][i]
                   \/ k = <<p, d>> /\ conn[k] = "ready" /\ up'[k][i] \in Fresh(d, content)
    BY <2>1, SendChunks
  <2>3. Numbers(d) /\ made' = [made EXCEPT ![d] = made[d] + 1] /\ arrived' = arrived
    BY <2>1 DEF Sends, takenVars
  <2>4. Known' \subseteq Known \cup Fresh(d, content)
    <3> SUFFICES ASSUME NEW c \in Known', c \notin Known  PROVE c \in Fresh(d, content)  OBVIOUS
    <3>1. \/ \E k \in Pair : \E i \in DOMAIN down'[k] : down'[k][i] = c /\ c.kind = "chunk"
          \/ \E k \in Pair : \E i \in DOMAIN up'[k] : up'[k][i] = c
          \/ \E e \in Device : c \in arrived'[e]
      BY DEF Known, UnderWay, Range
    <3>2. CASE \E k \in Pair : \E i \in DOMAIN down'[k] : down'[k][i] = c /\ c.kind = "chunk"
      BY <2>2, <3>2, KnownIs
    <3>3. CASE \E k \in Pair : \E i \in DOMAIN up'[k] : up'[k][i] = c  BY <2>2, <3>3, KnownIs
    <3>4. CASE \E e \in Device : c \in arrived'[e]  BY <2>3, <3>4, KnownIs
    <3> QED  BY <3>1, <3>2, <3>3, <3>4
  <2> QED  BY <2>3, <2>4, NewFrames
<1>2. ASSUME NEW k \in Pair, Told(k)  PROVE FrameInv'
  <2>1. NoNewChunks /\ arrived' = arrived  BY <1>2, ToldAir DEF takenVars
  <2>2. UNCHANGED <<made, frameCounter, sending, life>>
    BY <1>2 DEF Told, DidDiscover, OnScanResult, Ask, Connected, ConnectFails, CentralConnected,
                CentralLosesLink, PeripheralLosesLink, historyVars, frameVars
  <2>3. Known' \subseteq Known  BY <2>1, OldKnown
  <2> QED  BY <2>2, <2>3, OldFrames
<1>3. ASSUME NEW k \in Pair, WriteArrives(k) \/ NotificationArrives(k)  PROVE FrameInv'
  <2>1. PICK d, p, chunk : Arrives(d, p, k, chunk)  BY <1>3, ArrivesIs
  <2>2. /\ NoNewChunks
        /\ \/ \E j \in DOMAIN down[k] : down[k][j] = chunk
           \/ \E j \in DOMAIN up[k] : up[k][j] = chunk
    BY <2>1, ArrivesAir
  <2>3. chunk.kind = "chunk" /\ d \in Device /\ UNCHANGED <<made, frameCounter, sending, life>>
    BY <2>1 DEF Arrives, ChunkType, frameVars
  <2>4. chunk \in Known  BY <2>2, <2>3, KnownIs
  <2>5. arrived' = [arrived EXCEPT ![d] = @ \cup {chunk}]  BY <2>1, ConsumeIs
  <2>6. \A e \in Device : arrived'[e] \subseteq arrived[e] \cup Known  BY <1>0, <2>3, <2>4, <2>5 DEF AirInv
  <2>7. Known' \subseteq Known  BY <2>2, <2>6, OldKnown
  <2> QED  BY <2>3, <2>7, OldFrames
<1>4. ASSUME NEW k \in Pair, Cut(k)  PROVE FrameInv'
  <2>1. Broken({k}) /\ arrived' = arrived /\ UNCHANGED <<made, frameCounter, sending, life>>
    BY <1>4, CutBreaks DEF takenVars, frameVars
  <2>2. NoNewChunks  BY <2>1, BrokenAir
  <2>3. Known' \subseteq Known  BY <2>1, <2>2, OldKnown
  <2> QED  BY <2>1, <2>3, OldFrames
<1>5. ASSUME NEW d \in Device, Stop(d) \/ Die(d)  PROVE FrameInv'
  <2>1. /\ Broken(Own(d)) /\ arrived' = [arrived EXCEPT ![d] = {}] /\ made' = made
        /\ \/ UNCHANGED <<frameCounter, sending, life>>
           \/ /\ frameCounter' = [frameCounter EXCEPT ![d] = 0] /\ sending' = [sending EXCEPT ![d] = {}]
              /\ life' = [life EXCEPT ![d] = @ + 1]
    BY <1>5, EndBreaks DEF Forgotten, Broken
  <2>2. NoNewChunks  BY <2>1, BrokenAir
  <2>3. \A e \in Device : arrived'[e] \subseteq arrived[e]  BY <1>0, <2>1 DEF AirInv
  <2>4. Known' \subseteq Known  BY <2>2, <2>3, OldKnown
  <2>5. \A e \in Device : \/ /\ life'[e] = life[e] /\ frameCounter'[e] = frameCounter[e]
                             /\ sending'[e] = sending[e]
                          \/ life'[e] = life[e] + 1
    BY <1>0, <2>1 DEF RangesInv
  <2> QED  BY <2>1, <2>4, <2>5, OldFrames
<1>6. ASSUME UNCHANGED <<down, up, arrived, made, frameCounter, life>>,
             \A e \in Device : \A s \in sending'[e] : s \in sending[e] \/ s.read = frameCounter[e]
      PROVE  FrameInv'
  <2>1. NoNewChunks  BY <1>0, <1>6, WithinDown DEF NoNewChunks, AirInv
  <2>2. Known' \subseteq Known  BY <1>6, <2>1, OldKnown
  <2> QED  BY <1>6, <2>2, OldFrames
<1>7. ASSUME NEW d \in Device, Start(d)  PROVE FrameInv'
  BY <1>6, <1>7 DEF Start, takenVars, airVars, frameVars
<1>8. CASE UNCHANGED vars
  BY <1>6, <1>8 DEF vars, takenVars, airVars, frameVars, historyVars
<1>9. ASSUME NEW d \in Device, NEW p \in Peers(d), SendFrame(d, p)  PROVE FrameInv'
  <2>1. /\ sending' = [sending EXCEPT ![d] = {[to |-> p, read |-> frameCounter[d]]}]
        /\ UNCHANGED <<down, up, arrived, made, frameCounter, life>>
    BY <1>9 DEF SendFrame, takenVars, airVars, historyVars
  <2>2. PICK t : t = [to |-> p, read |-> frameCounter[d]]  OBVIOUS
  <2>3. t.read = frameCounter[d] /\ sending' = [sending EXCEPT ![d] = {t}]  BY <2>1, <2>2
  <2>4. \A e \in Device : \A s \in sending'[e] : s \in sending[e] \/ s.read = frameCounter[e]
    <3> SUFFICES ASSUME NEW e \in Device, NEW s \in sending'[e]
                 PROVE  s \in sending[e] \/ s.read = frameCounter[e]
      OBVIOUS
    <3>1. DOMAIN sending = Device  BY <1>0 DEF RangesInv
    <3>2. CASE e = d  BY <2>3, <3>1, <3>2
    <3>3. CASE e # d  BY <2>3, <3>1, <3>3
    <3> QED  BY <3>2, <3>3
  <2> QED  BY <1>6, <2>1, <2>4
<1> QED
  BY <1>1, <1>2, <1>3, <1>4, <1>5, <1>7, <1>8, <1>9, SendSteps DEF Next, Radio, Callback, Told

\* The parts with the chunk that arrives: all of its link and frame id, each at its place.
LEMMA PartsAre ==
    ASSUME TypeInv, NEW d, NEW p, NEW k, NEW chunk, Arrives(d, p, k, chunk),
           NEW parts, parts = Added(d, p, chunk)
    PROVE  /\ \A i \in DOMAIN parts : /\ parts[i] \in arrived'[d] /\ parts[i] \in Known
                                      /\ parts[i].of = p /\ parts[i].id = chunk.id /\ parts[i].index = i
           /\ chunk.index \in DOMAIN parts /\ parts[chunk.index] = chunk
           /\ chunk \in Known
<1>1. PICK key : key = <<p, chunk.id>>  OBVIOUS
<1>2. Stored(d, chunk, key, parts)  BY <1>1, StoredIs
<1>3. d \in Device /\ chunk.of = p /\ chunk.kind = "chunk" /\ k \in Pair  BY DEF Arrives, ChunkType
<1>4. chunk \in Known
  <2>1. \/ \E j \in DOMAIN down[k] : down[k][j] = chunk
        \/ \E j \in DOMAIN up[k] : up[k][j] = chunk
    BY ArrivesAir
  <2> QED  BY <1>3, <2>1, KnownIs
<1>5. arrived' = [arrived EXCEPT ![d] = @ \cup {chunk}]  BY ConsumeIs
<1>6. chunk \in arrived'[d] /\ arrived[d] \subseteq arrived'[d]  BY <1>3, <1>5 DEF TypeInv, AirInv
<1>7. /\ DOMAIN parts = DOMAIN Parts(d, key) \cup {chunk.index} /\ parts[chunk.index] = chunk
      /\ \A i \in DOMAIN Parts(d, key) : i # chunk.index => parts[i] = Parts(d, key)[i]
      /\ key \notin DOMAIN assemblies[d] => Parts(d, key) = <<>>
      /\ key \in DOMAIN assemblies[d] => Parts(d, key) = assemblies[d][key]
  BY <1>2 DEF Stored
<1>8. ASSUME NEW i \in DOMAIN parts, i # chunk.index
      PROVE  /\ parts[i] \in arrived[d] /\ parts[i].of = p /\ parts[i].id = chunk.id /\ parts[i].index = i
  <2>1. i \in DOMAIN Parts(d, key) /\ parts[i] = Parts(d, key)[i]  BY <1>7, <1>8
  <2>2. key \in DOMAIN assemblies[d]
    <3>1. DOMAIN <<>> = {}  OBVIOUS
    <3> QED  BY <1>7, <2>1, <3>1
  <2>3. i \in DOMAIN assemblies[d][key] /\ parts[i] = assemblies[d][key][i]  BY <1>7, <2>1, <2>2
  <2> QED  BY <1>1, <1>3, <2>2, <2>3 DEF TypeInv, FiledInv
<1> QED  BY <1>3, <1>4, <1>6, <1>7, <1>8, KnownIs

\* Parts that are all of the chunk's frame make the frame up when they are complete.
AllOf(f, chunk, o) ==
    /\ DOMAIN f = o..o + chunk.total - 1
    /\ \A i \in DOMAIN f : /\ f[i] \in Known /\ f[i].of = chunk.of /\ f[i].n = chunk.n
                           /\ f[i].index = i - o

Exact(f, chunk) ==
    SizeOf(f) = chunk.length /\ \A i \in DOMAIN f : f[i].total = chunk.total /\ f[i].length = chunk.length

LEMMA SizeExact ==
    ASSUME TypeInv, FrameInv, NEW chunk \in Known, NEW o \in Nat, NEW f, AllOf(f, chunk, o)
    PROVE  Exact(f, chunk)
<1>0. /\ DOMAIN f = o..o + chunk.total - 1
      /\ \A i \in DOMAIN f : f[i] \in Known /\ f[i].of = chunk.of /\ f[i].n = chunk.n /\ f[i].index = i - o
  BY DEF AllOf
<1>1. \A c \in Known : Cut1(c)  BY DEF FrameInv
<1>2. \A i \in DOMAIN f : f[i].content = chunk.content  BY <1>0 DEF FrameInv, Same
<1>3. PICK length \in Nat \ {0} : length = FrameLength(chunk.content)  BY LengthIs
<1>4. chunk.length = length /\ chunk.total = ChunkCount(length)  BY <1>1, <1>3 DEF Cut1
<1>5. \A i \in DOMAIN f : /\ f[i].length = length /\ f[i].total = chunk.total
                          /\ f[i].size = ChunkBytes(f[i].index, length)
  <2> SUFFICES ASSUME NEW i \in DOMAIN f
               PROVE  f[i].length = length /\ f[i].total = chunk.total /\ f[i].size = ChunkBytes(f[i].index, length)
    OBVIOUS
  <2>1. Cut1(f[i]) /\ f[i].content = chunk.content  BY <1>0, <1>1, <1>2
  <2> QED  BY <1>3, <1>4, <2>1 DEF Cut1, ChunkBytes
<1>6. \A i \in DOMAIN f : f[i].size = ChunkBytes(i - o, length)  BY <1>0, <1>5
<1>7. SizeOf(f) = length  BY <1>0, <1>3, <1>4, <1>6, SizeWhole
<1> QED  BY <1>4, <1>5, <1>7 DEF Exact

LEMMA ChunkNumbers ==
    ASSUME TypeInv, FrameInv, NEW c \in Known
    PROVE  c.total \in Nat \ {0} /\ c.index \in 0..c.total - 1
<1>1. c \in ChunkType /\ Cut1(c)  BY KnownIs DEF FrameInv, TypeInv
<1> QED  BY <1>1 DEF ChunkType, Cut1

\* What consumeChunk gives to the application, as long as it has all parts.
FrameOf(parts) == [i \in 1..Cardinality(DOMAIN parts) |-> parts[i - 1]]

\* The frame f has a place for every chunk; the one that arrived is at its own.
InPlace(f, parts, chunk) ==
    /\ chunk.total \in Nat \ {0} /\ f \in [1..chunk.total -> Known] /\ Len(f) = chunk.total
    /\ \A i \in 1..chunk.total : i - 1 \in DOMAIN parts /\ f[i] = parts[i - 1]
    /\ chunk.index + 1 \in 1..chunk.total /\ f[chunk.index + 1] = chunk

LEMMA FrameIs ==
    ASSUME TypeInv, FrameInv, NEW d, NEW p, NEW k, NEW chunk, Arrives(d, p, k, chunk),
           NEW parts, parts = Added(d, p, chunk), IsWhole(parts, chunk.total)
    PROVE  InPlace(FrameOf(parts), parts, chunk)
<1>1. /\ chunk \in Known /\ chunk.index \in DOMAIN parts /\ parts[chunk.index] = chunk
      /\ \A i \in DOMAIN parts : parts[i] \in Known
  BY PartsAre
<1>2. PICK t : t = chunk.total  OBVIOUS
<1>3. t \in Nat \ {0} /\ chunk.index \in 0..t - 1  BY <1>1, <1>2, ChunkNumbers
<1>4. DOMAIN parts = 0..t - 1  BY <1>2 DEF IsWhole
<1>5. Cardinality(0..t - 1) = t  BY <1>3, FS_Interval
<1>6. \A i \in 1..t : i - 1 \in 0..t - 1  BY <1>3
<1>7. PICK f : f = [i \in 1..t |-> parts[i - 1]]  OBVIOUS
<1>8. FrameOf(parts) = f  BY <1>4, <1>5, <1>7 DEF FrameOf
<1>9. f \in [1..t -> Known] /\ \A i \in 1..t : f[i] = parts[i - 1]  BY <1>1, <1>4, <1>6, <1>7
<1>10. f \in Seq(Known)  BY <1>3, <1>9
<1>11. Len(f) = t  BY <1>3, <1>9, <1>10
<1>12. PICK j : j = chunk.index + 1  OBVIOUS
<1>13. j \in 1..t /\ j - 1 = chunk.index  BY <1>3, <1>12
<1>14. f[j] = chunk  BY <1>1, <1>9, <1>13
<1> QED  BY <1>2, <1>3, <1>4, <1>6, <1>8, <1>9, <1>11, <1>12, <1>13, <1>14 DEF InPlace

\* A frame is whole.
Whole(f) ==
    (\A i, j \in DOMAIN f : f[i].life = f[j].life) =>
        /\ Len(f) = f[1].total
        /\ \A i \in DOMAIN f : f[i].n = f[1].n /\ f[i].index = i - 1
        /\ SizeOf(f) = f[1].length

LEMMA FrameWhole ==
    ASSUME TypeInv, FrameInv, NEW d, NEW p, NEW k, NEW chunk, Arrives(d, p, k, chunk),
           NEW parts, parts = Added(d, p, chunk), IsWhole(parts, chunk.total)
    PROVE  Whole(FrameOf(parts))
<1>1. PICK f : f = FrameOf(parts)  OBVIOUS
<1>2. PICK t : t = chunk.total  OBVIOUS
<1>3. InPlace(f, parts, chunk)  BY <1>1, FrameIs
<1>4. /\ t \in Nat \ {0} /\ DOMAIN f = 1..t /\ Len(f) = t
      /\ \A i \in 1..t : i - 1 \in DOMAIN parts /\ f[i] = parts[i - 1]
  BY <1>2, <1>3 DEF InPlace
<1>5. PICK m : m \in 1..t /\ f[m] = chunk  BY <1>2, <1>3 DEF InPlace
<1>6. chunk.of = p /\ chunk \in Known  BY PartsAre DEF Arrives
<1>7. \A i \in DOMAIN parts : /\ parts[i] \in Known
                              /\ parts[i].of = p /\ parts[i].id = chunk.id /\ parts[i].index = i
  BY PartsAre
<1>8. \A i \in 1..t : f[i] \in Known /\ f[i].of = chunk.of /\ f[i].id = chunk.id /\ f[i].index = i - 1
  BY <1>4, <1>6, <1>7
<1> SUFFICES ASSUME \A i, j \in DOMAIN f : f[i].life = f[j].life
             PROVE  /\ Len(f) = f[1].total
                    /\ \A i \in DOMAIN f : f[i].n = f[1].n /\ f[i].index = i - 1
                    /\ SizeOf(f) = f[1].length
  BY <1>1 DEF Whole
<1>9. \A i \in 1..t : f[i].life = chunk.life  BY <1>4, <1>5
<1>10. \A i \in 1..t : f[i].n = chunk.n  BY <1>6, <1>8, <1>9 DEF FrameInv
<1>11. DOMAIN f = 1..1 + t - 1  BY <1>4
<1>12. SizeOf(f) = chunk.length /\ \A i \in DOMAIN f : f[i].total = t /\ f[i].length = chunk.length
  <2>1. \A i \in DOMAIN f : f[i] \in Known /\ f[i].of = chunk.of /\ f[i].n = chunk.n /\ f[i].index = i - 1
    BY <1>4, <1>8, <1>10
  <2>2. DOMAIN f = 1..1 + chunk.total - 1  BY <1>2, <1>11
  <2>3. /\ SizeOf(f) = chunk.length
        /\ \A i \in DOMAIN f : f[i].total = chunk.total /\ f[i].length = chunk.length
    <3>1. AllOf(f, chunk, 1)  BY <2>1, <2>2 DEF AllOf
    <3>2. Exact(f, chunk)  BY <1>6, <3>1, SizeExact
    <3> QED  BY <3>2 DEF Exact
  <2> QED  BY <1>2, <2>3
<1>13. 1 \in 1..t  BY <1>4
<1> QED  BY <1>4, <1>8, <1>10, <1>12, <1>13

LEMMA WholeStep == ASSUME TypeInv, FrameInv, FramesWhole, [Next]_vars  PROVE FramesWhole'
<1>1. ASSUME got' = got  PROVE FramesWhole'  BY <1>1 DEF FramesWhole, SizeOf
<1>2. CASE SendStep  BY <1>1, <1>2 DEF SendStep, Sends, takenVars
<1>3. ASSUME NEW k \in Pair, Told(k)  PROVE FramesWhole'  BY <1>1, <1>3, ToldAir DEF takenVars
<1>4. ASSUME NEW k \in Pair, WriteArrives(k) \/ NotificationArrives(k)  PROVE FramesWhole'
  <2>1. PICK d, p, chunk : Arrives(d, p, k, chunk)  BY <1>4, ArrivesIs
  <2>2. PICK parts : parts = Added(d, p, chunk)  OBVIOUS
  <2>3. PICK f : f = FrameOf(parts)  OBVIOUS
  <2>4. ConsumeChunk(d, p, k, chunk) /\ d \in Device  BY <2>1 DEF Arrives
  <2>5. CASE ~Completes(d, parts, chunk)  BY <1>1, <2>2, <2>4, <2>5 DEF ConsumeChunk
  <2>6. CASE Completes(d, parts, chunk)
    <3>1. got' = [got EXCEPT ![d] = @ \cup {f}]  BY <2>2, <2>3, <2>4, <2>6 DEF ConsumeChunk, FrameOf
    <3>2. IsWhole(parts, chunk.total)  BY <2>6 DEF Completes, CompletesIos, CompletesAndroid
    <3>3. Whole(f)  BY <2>1, <2>2, <2>3, <3>2, FrameWhole
    <3> SUFFICES ASSUME NEW e \in Device, NEW g \in got'[e]  PROVE Whole(g)
      BY DEF FramesWhole, Whole, SizeOf
    <3>4. g \in got[e] \/ g = f
      <4>1. DOMAIN got = Device  BY DEF TypeInv, AirInv
      <4> QED  BY <2>4, <3>1, <4>1
    <3>5. CASE g \in got[e]  BY <3>5 DEF FramesWhole, Whole
    <3>6. CASE g = f  BY <3>3, <3>6
    <3> QED  BY <3>4, <3>5, <3>6
  <2> QED  BY <2>5, <2>6
<1>5. ASSUME NEW k \in Pair, Cut(k)  PROVE FramesWhole'  BY <1>1, <1>5, CutBreaks DEF takenVars
<1>6. ASSUME NEW d \in Device, Stop(d) \/ Die(d)  PROVE FramesWhole'  BY <1>1, <1>6, EndBreaks DEF Broken
<1>7. ASSUME NEW d \in Device, Start(d)  PROVE FramesWhole'  BY <1>1, <1>7 DEF Start, takenVars
<1>8. CASE Quiet  BY <1>1, <1>8 DEF Quiet, takenVars
<1> QED
  BY <1>2, <1>3, <1>4, <1>5, <1>6, <1>7, <1>8, SendSteps, QuietSteps DEF Next, Radio, Callback, Told

\* A frame the application gets is one its peer sent, complete and in order, as long as the peer's ids
\* did not begin again among its chunks: until its process dies, or two threads number frames at once,
\* the counter gives every frame its own id (consumeChunk, nextFrameId).
THEOREM WholeCorrect == Spec => []FramesWhole
<1>1. Init => TypeInv /\ FrameInv /\ FramesWhole
  <2>1. Init => FramesWhole  BY DEF Init, FramesWhole
  <2> QED  BY <2>1, TypeStart, FrameStart
<1>2. TypeInv /\ FrameInv /\ FramesWhole /\ [Next]_vars => (TypeInv /\ FrameInv /\ FramesWhole)'
  BY TypeStep, FrameStep, WholeStep
<1> QED  BY <1>1, <1>2, PTL DEF Spec

-----------------------------------------------------------------------------
(* Frames of which every chunk has arrived *)

\* The chunks of a frame of its sender agree on its length.
LEMMA SameTotal ==
    ASSUME TypeInv, FrameInv, NEW a \in Known, NEW b \in Known, a.of = b.of, a.n = b.n
    PROVE  a.total = b.total
<1>1. a.content = b.content  BY DEF FrameInv, Same
<1>2. Cut1(a) /\ Cut1(b)  BY DEF FrameInv
<1> QED  BY <1>1, <1>2 DEF Cut1

Filed(d, c) == <<c.of, c.id>> \in DOMAIN assemblies[d]
FiledAt(d, c) == DOMAIN assemblies[d][<<c.of, c.id>>]
Uniform(d, c) == \A b \in Owns(d, c) : b.n = c.n

\* ArrivalInv of one chunk that has arrived at d.
Waits(d, c) == Filed(d, c) /\ FiledAt(d, c) = {b.index : b \in Owns(d, c)} /\ FiledAt(d, c) # 0..c.total - 1

LEMMA WaitsIs ==
    ArrivalInv <=> \A d \in Device : \A c \in arrived[d] : Uniform(d, c) => Delivered(d, c) \/ Waits(d, c)
BY DEF ArrivalInv, Uniform, Waits, Filed, FiledAt

LEMMA SameWaits ==
    ASSUME NEW e \in Device, arrived'[e] = arrived[e], got'[e] = got[e], assemblies'[e] = assemblies[e],
           \A c \in arrived[e] : Uniform(e, c) => Delivered(e, c) \/ Waits(e, c)
    PROVE  \A c \in arrived'[e] : (Uniform(e, c) => Delivered(e, c) \/ Waits(e, c))'
<1> SUFFICES ASSUME NEW c \in arrived[e]  PROVE (Uniform(e, c) => Delivered(e, c) \/ Waits(e, c))'
  OBVIOUS
<1>1. Owns(e, c)' = Owns(e, c)  BY DEF Owns
<1>2. Uniform(e, c)' = Uniform(e, c)  BY <1>1 DEF Uniform
<1>3. Delivered(e, c)' = Delivered(e, c)  BY DEF Delivered
<1>4. Waits(e, c)' = Waits(e, c)  BY <1>1 DEF Waits, Filed, FiledAt
<1> QED  BY <1>2, <1>3, <1>4

\* The parts with the chunk that arrives are all chunks of its frame that have arrived, as long as
\* the frame is not delivered and no other frame uses its id.
LEMMA PartsComplete ==
    ASSUME TypeInv, ArrivalInv, NEW d, NEW p, NEW k, NEW chunk, Arrives(d, p, k, chunk),
           \A b \in Owns(d, chunk) : b.n = chunk.n, ~Delivered(d, chunk)
    PROVE  DOMAIN Added(d, p, chunk) = {b.index : b \in Owns(d, chunk) \cup {chunk}}
<1>1. PICK key, parts : key = <<p, chunk.id>> /\ parts = Added(d, p, chunk)  OBVIOUS
<1>2. Stored(d, chunk, key, parts)  BY <1>1, StoredIs
<1>3. DOMAIN parts = DOMAIN Parts(d, key) \cup {chunk.index}  BY <1>2 DEF Stored
<1>4. d \in Device /\ chunk.of = p  BY DEF Arrives
<1>5. DOMAIN Parts(d, key) = {b.index : b \in Owns(d, chunk)}
  <2>1. CASE Owns(d, chunk) = {}
    <3>1. key \notin DOMAIN assemblies[d] => Parts(d, key) = <<>>  BY <1>2 DEF Stored
    <3>2. key \in DOMAIN assemblies[d] => DOMAIN Parts(d, key) = {}
      <4> SUFFICES ASSUME key \in DOMAIN assemblies[d], NEW i \in DOMAIN assemblies[d][key]  PROVE FALSE
        BY <1>2 DEF Stored
      <4>1. PICK b : b = assemblies[d][key][i]  OBVIOUS
      <4>2. b \in arrived[d] /\ b.of = p /\ b.id = chunk.id  BY <1>1, <1>4, <4>1 DEF TypeInv, FiledInv
      <4>3. b \in Owns(d, chunk)  BY <1>4, <4>2 DEF Owns
      <4> QED  BY <2>1, <4>3
    <3>3. DOMAIN <<>> = {}  OBVIOUS
    <3> QED  BY <2>1, <3>1, <3>2, <3>3
  <2>2. CASE Owns(d, chunk) # {}
    <3>1. PICK c \in Owns(d, chunk) : TRUE  BY <2>2
    <3>2. c \in arrived[d] /\ c.of = p /\ c.id = chunk.id /\ c.n = chunk.n  BY <1>4, <3>1 DEF Owns
    <3>3. Owns(d, c) = Owns(d, chunk)  BY <1>4, <3>2 DEF Owns
    <3>4. Uniform(d, c)  BY <3>2, <3>3 DEF Uniform
    <3>5. ~Delivered(d, c)  BY <1>4, <3>2 DEF Delivered
    <3>6. Waits(d, c)  BY <1>4, <3>2, <3>4, <3>5, WaitsIs
    <3>7. <<c.of, c.id>> = key  BY <1>1, <3>2
    <3>8. key \in DOMAIN assemblies[d] /\ DOMAIN assemblies[d][key] = {b.index : b \in Owns(d, chunk)}
      BY <3>3, <3>6, <3>7 DEF Waits, Filed, FiledAt
    <3> QED  BY <1>2, <3>8 DEF Stored
  <2> QED  BY <2>1, <2>2
<1> QED  BY <1>1, <1>3, <1>5

\* The chunk that arrives completes its frame or waits for the rest of it.
FrameArrives(d, key, parts, chunk) ==
    \/ /\ IsWhole(parts, chunk.total) /\ got' = [got EXCEPT ![d] = @ \cup {FrameOf(parts)}]
       /\ \A i \in DOMAIN FrameOf(parts) : FrameOf(parts)[i].of = chunk.of /\ FrameOf(parts)[i].n = chunk.n
    \/ /\ key \in DOMAIN assemblies'[d]
       /\ DOMAIN assemblies'[d][key] = {b.index : b \in Owns(d, chunk) \cup {chunk}}
       /\ DOMAIN assemblies'[d][key] # 0..chunk.total - 1

LEMMA ArrivalOfFrame ==
    ASSUME TypeInv, FrameInv, ArrivalInv, NEW d, NEW p, NEW k, NEW chunk, Arrives(d, p, k, chunk),
           \A b \in Owns(d, chunk) : b.n = chunk.n, ~Delivered(d, chunk)
    PROVE  FrameArrives(d, <<p, chunk.id>>, Added(d, p, chunk), chunk)
<1>1. PICK key, parts : key = <<p, chunk.id>> /\ parts = Added(d, p, chunk)  OBVIOUS
<1>2. Stored(d, chunk, key, parts)  BY <1>1, StoredIs
<1>3. d \in Device /\ chunk.of = p /\ ConsumeChunk(d, p, k, chunk)  BY DEF Arrives
<1>4. DOMAIN parts = {b.index : b \in Owns(d, chunk) \cup {chunk}}  BY <1>1, PartsComplete
<1>5. /\ chunk \in Known
      /\ \A i \in DOMAIN parts : /\ parts[i] \in arrived'[d] /\ parts[i] \in Known
                                 /\ parts[i].of = p /\ parts[i].id = chunk.id /\ parts[i].index = i
  BY <1>1, PartsAre
<1>6. CASE IsWhole(parts, chunk.total)
  <2>1. arrived' = [arrived EXCEPT ![d] = @ \cup {chunk}] /\ arrived \in [Device -> SUBSET ChunkType]
    BY ConsumeIs DEF TypeInv, AirInv
  <2>2. \A i \in DOMAIN parts : parts[i].n = chunk.n
    <3> SUFFICES ASSUME NEW i \in DOMAIN parts  PROVE parts[i].n = chunk.n  OBVIOUS
    <3>1. PICK b : b = parts[i]  OBVIOUS
    <3>2. (b \in arrived[d] \/ b = chunk) /\ b.of = p /\ b.id = chunk.id  BY <1>3, <1>5, <2>1, <3>1
    <3>3. b.n = chunk.n  BY <1>3, <3>2 DEF Owns
    <3> QED  BY <3>1, <3>3
  <2>3. AllOf(parts, chunk, 0)
    <3>1. \A i \in DOMAIN parts : i \in Int
      <4>1. DOMAIN parts = 0..chunk.total - 1  BY <1>6 DEF IsWhole
      <4> QED  BY <4>1
    <3>2. \A i \in DOMAIN parts : parts[i].index = i - 0  BY <1>5, <3>1
    <3>3. chunk.total \in Nat  BY <1>5, ChunkNumbers
    <3>4. 0 + chunk.total - 1 = chunk.total - 1  BY <3>3
    <3> QED  BY <1>3, <1>5, <1>6, <2>2, <3>2, <3>4 DEF AllOf, IsWhole
  <2>4. SizeOf(parts) = chunk.length  BY <1>5, <2>3, SizeExact DEF Exact
  <2>5. chunk.length \in Nat  BY DEF Arrives, ChunkType
  <2>6. Completes(d, parts, chunk)
    BY <1>6, <2>4, <2>5 DEF Completes, CompletesIos, CompletesAndroid
  <2>7. got' = [got EXCEPT ![d] = @ \cup {FrameOf(parts)}]  BY <1>1, <1>3, <2>6 DEF ConsumeChunk, FrameOf
  <2>8. InPlace(FrameOf(parts), parts, chunk)  BY <1>1, <1>6, FrameIs
  <2>9. PICK f : f = FrameOf(parts)  OBVIOUS
  <2>10. \A i \in DOMAIN f : f[i].of = p /\ f[i].n = chunk.n  BY <1>5, <2>2, <2>8, <2>9 DEF InPlace
  <2> QED  BY <1>1, <1>3, <1>6, <2>7, <2>9, <2>10 DEF FrameArrives
<1>7. CASE ~IsWhole(parts, chunk.total)
  <2>1. ~Forgets(d, parts, chunk)  BY <1>7 DEF Forgets, ForgetsIos, ForgetsAndroid
  <2>2. key \in DOMAIN assemblies'[d] /\ assemblies'[d][key] = parts  BY <1>2, <2>1 DEF Stored
  <2> QED  BY <1>1, <1>4, <1>7, <2>2 DEF IsWhole, FrameArrives
<1> QED  BY <1>6, <1>7

LEMMA ArrivalStep == ASSUME TypeInv, FrameInv, ArrivalInv, [Next]_vars  PROVE ArrivalInv'
<1>0. AirInv /\ \A d \in Device : \A c \in arrived[d] : Uniform(d, c) => Delivered(d, c) \/ Waits(d, c)
  BY WaitsIs DEF TypeInv
<1> SUFFICES ASSUME NEW e \in Device, NEW c \in arrived'[e], Uniform(e, c)'
             PROVE  Delivered(e, c)' \/ Waits(e, c)'
  BY WaitsIs DEF ArrivalInv, Uniform, Waits, Filed, FiledAt
<1> DEFINE Goal == Delivered(e, c)' \/ Waits(e, c)'
<1>1. ASSUME arrived'[e] = arrived[e], got'[e] = got[e], assemblies'[e] = assemblies[e]  PROVE Goal
  BY <1>0, <1>1, SameWaits
<1>2. CASE SendStep  BY <1>1, <1>2 DEF SendStep, Sends, takenVars
<1>3. ASSUME NEW k \in Pair, Told(k)  PROVE Goal  BY <1>1, <1>3, ToldAir DEF takenVars
<1>4. ASSUME NEW k \in Pair, WriteArrives(k) \/ NotificationArrives(k)  PROVE Goal
  <2>1. PICK d, p, chunk : Arrives(d, p, k, chunk)  BY <1>4, ArrivesIs
  <2>2. PICK key, parts : key = <<p, chunk.id>> /\ parts = Added(d, p, chunk)  OBVIOUS
  <2>3. d \in Device /\ chunk.of = p /\ ConsumeChunk(d, p, k, chunk)  BY <2>1 DEF Arrives
  <2>4. /\ arrived' = [arrived EXCEPT ![d] = @ \cup {chunk}] /\ arrived \in [Device -> SUBSET ChunkType]
        /\ \A x \in Device : x # d => assemblies'[x] = assemblies[x]
    BY <1>0, <2>1, ConsumeIs DEF AirInv
  <2>5. got' = got \/ got' = [got EXCEPT ![d] = @ \cup {FrameOf(parts)}]
    BY <2>2, <2>3 DEF ConsumeChunk, FrameOf
  <2>6. DOMAIN got = Device  BY <1>0 DEF AirInv
  <2>7. CASE e # d
    <3>1. arrived'[e] = arrived[e] /\ got'[e] = got[e]  BY <2>3, <2>4, <2>5, <2>6, <2>7
    <3> QED  BY <1>1, <2>4, <2>7, <3>1
  <2>8. CASE e = d
    <3>1. arrived'[d] = arrived[d] \cup {chunk} /\ got[d] \subseteq got'[d]  BY <2>3, <2>4, <2>5, <2>6
    <3>2. Delivered(d, c) => Delivered(d, c)'  BY <3>1 DEF Delivered
    <3>3. Stored(d, chunk, key, parts)  BY <2>1, <2>2, StoredIs
    <3>4. CASE ~(c.of = p /\ c.id = chunk.id)
      <4>1. c \in arrived[d] /\ Owns(d, c)' = Owns(d, c)  BY <2>3, <2>8, <3>1, <3>4 DEF Owns
      <4>2. Uniform(d, c)  BY <2>8, <4>1 DEF Uniform
      <4>3. <<c.of, c.id>> # key  BY <2>2, <3>4
      <4>4. Filed(d, c) => Filed(d, c)' /\ FiledAt(d, c)' = FiledAt(d, c)
        BY <3>3, <4>3 DEF Stored, Filed, FiledAt
      <4>5. Waits(d, c) => Waits(d, c)'  BY <4>1, <4>4 DEF Waits
      <4> QED  BY <1>0, <2>3, <2>8, <3>2, <4>1, <4>2, <4>5
    <3>5. CASE c.of = p /\ c.id = chunk.id
      <4>1. Owns(d, c)' = Owns(d, chunk) \cup {chunk}  BY <2>3, <3>1, <3>5 DEF Owns
      <4>2. \A b \in Owns(d, chunk) \cup {chunk} : b.n = c.n  BY <2>8, <4>1 DEF Uniform
      <4>3. c.n = chunk.n /\ \A b \in Owns(d, chunk) : b.n = chunk.n  BY <4>2
      <4>4. CASE Delivered(d, chunk)
        <5>1. Delivered(d, c)  BY <2>3, <3>5, <4>3, <4>4 DEF Delivered
        <5> QED  BY <2>8, <3>2, <5>1
      <4>5. CASE ~Delivered(d, chunk)
        <5>1. FrameArrives(d, key, parts, chunk)  BY <2>1, <2>2, <4>3, <4>5, ArrivalOfFrame
        <5>2. c.total = chunk.total
          <6>1. chunk \in Known  BY <2>1, PartsAre
          <6>2. c \in Known  BY <2>3, <2>8, <3>1, <6>1, KnownIs
          <6> QED  BY <2>3, <3>5, <4>3, <6>1, <6>2, SameTotal
        <5>3. CASE got' = [got EXCEPT ![d] = @ \cup {FrameOf(parts)}]
                   /\ \A i \in DOMAIN FrameOf(parts) : FrameOf(parts)[i].of = chunk.of /\ FrameOf(parts)[i].n = chunk.n
          <6>1. PICK f : f = FrameOf(parts)  OBVIOUS
          <6>2. f \in got'[d]  BY <2>3, <2>6, <5>3, <6>1
          <6>3. \A i \in DOMAIN f : f[i].of = c.of /\ f[i].n = c.n  BY <2>3, <3>5, <4>3, <5>3, <6>1
          <6> QED  BY <2>8, <6>2, <6>3 DEF Delivered
        <5>4. CASE /\ key \in DOMAIN assemblies'[d]
                   /\ DOMAIN assemblies'[d][key] = {b.index : b \in Owns(d, chunk) \cup {chunk}}
                   /\ DOMAIN assemblies'[d][key] # 0..chunk.total - 1
          <6>1. <<c.of, c.id>> = key  BY <2>2, <3>5
          <6>2. Waits(d, c)'  BY <4>1, <5>2, <5>4, <6>1 DEF Waits, Filed, FiledAt
          <6> QED  BY <2>8, <6>2
        <5> QED  BY <2>3, <5>1, <5>3, <5>4 DEF FrameArrives
      <4> QED  BY <4>4, <4>5
    <3> QED  BY <3>4, <3>5
  <2> QED  BY <2>7, <2>8
<1>5. ASSUME NEW k \in Pair, Cut(k)  PROVE Goal  BY <1>1, <1>5, CutBreaks DEF takenVars
<1>6. ASSUME NEW d \in Device, Stop(d) \/ Die(d)  PROVE Goal
  <2>1. /\ got' = got /\ arrived' = [arrived EXCEPT ![d] = {}]
        /\ assemblies' = [assemblies EXCEPT ![d] = <<>>]
    BY <1>6, EndBreaks DEF Forgotten, Broken
  <2>2. arrived'[d] = {}  BY <1>0, <2>1 DEF AirInv
  <2>3. e # d  BY <2>2
  <2>4. arrived'[e] = arrived[e] /\ assemblies'[e] = assemblies[e]  BY <1>0, <2>1, <2>3 DEF AirInv
  <2> QED  BY <1>1, <2>1, <2>4
<1>7. ASSUME NEW d \in Device, Start(d)  PROVE Goal  BY <1>1, <1>7 DEF Start, takenVars
<1>8. CASE Quiet  BY <1>1, <1>8 DEF Quiet, takenVars
<1> QED
  BY <1>2, <1>3, <1>4, <1>5, <1>6, <1>7, <1>8, SendSteps, QuietSteps DEF Next, Radio, Callback, Told

\* A frame of which every chunk has arrived since the receiver started has been delivered, unless
\* chunks of another frame of the sender came under the same id: the parts that wait are all that
\* have arrived of a frame that is not delivered, and they are never all of it (consumeChunk).
THEOREM DeliveryCorrect == Spec => []CompleteIsDelivered
<1>1. Init => TypeInv /\ FrameInv /\ ArrivalInv
  <2>1. Init => ArrivalInv  BY DEF Init, ArrivalInv
  <2> QED  BY <2>1, TypeStart, FrameStart
<1>2. TypeInv /\ FrameInv /\ ArrivalInv /\ [Next]_vars => (TypeInv /\ FrameInv /\ ArrivalInv)'
  BY TypeStep, FrameStep, ArrivalStep
<1>3. ArrivalInv => CompleteIsDelivered
  <2> SUFFICES ASSUME ArrivalInv, NEW d \in Device, NEW c \in arrived[d],
                      \A x \in Owns(d, c) : x.n = c.n,
                      {x.index : x \in Owns(d, c)} = 0..c.total - 1
               PROVE  Delivered(d, c)
    BY DEF CompleteIsDelivered, Owns, Delivered
  <2> QED  BY DEF ArrivalInv
<1> QED  BY <1>1, <1>2, <1>3, PTL DEF Spec
=============================================================================
