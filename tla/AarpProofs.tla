----------------------------- MODULE AarpProofs -----------------------------
(***************************************************************************)
(* Proofs about addresses on an EtherTalk cable, for any number of nodes,  *)
(* any addresses and any bounds: two nodes come to share an address of the *)
(* router's range only when a frame was lost or a Probe fell into the gap  *)
(* before set_addr, a cached station is one that probed for its address,   *)
(* and whoever waits for a lookup can still be answered.                   *)
(***************************************************************************)
EXTENDS Aarp, TLAPS, SequenceTheorems, FiniteSetTheorems

\* The packets that wait for node m.
On(m) == {queue[m][i] : i \in DOMAIN queue[m]}

\* A packet's sender is an address that its station has probed for, and so is what a station
\* holds or tries.
Honest == \A m \in Nodes : \A x \in On(m) : x.sender \in used[x.mac]

Own ==
    \A n \in Nodes :
        /\ our_addr[n] # NoAddr => our_addr[n] \in used[n]
        /\ phase[n] \in {"probing", "testing", "adopting"} => candidate[n] \in used[n]

\* Startup addresses come first; only a station outside the range tries an address in it.
Placed ==
    \A n \in Nodes :
        /\ phase[n] = "probing" => candidate[n] \in Startup
        /\ phase[n] \in {"testing", "adopting"} =>
              candidate[n] \in NetRange /\ our_addr[n] \notin NetRange

\* n holds a, or is on the way to it.
Claims(n, a) ==
    \/ our_addr[n] = a
    \/ phase[n] \in {"testing", "adopting"} /\ candidate[n] = a

\* n tests a, and has yet to hear that it is taken: its Probe waits for m, or the answer
\* waits for it.
Challenged(n, m, a) ==
    /\ phase[n] = "testing" /\ candidate[n] = a
    /\ \/ Packet("Probe", n, a, a) \in On(m)
       \/ \E x \in On(n) : x.opcode = "Response" /\ x.sender = a

\* Of two stations that claim an address of the range, one will give it up.
Contest ==
    lost = 0 /\ ~raced =>
        \A m, n \in Nodes : \A a \in NetRange :
            m # n /\ Claims(m, a) /\ Claims(n, a) => Challenged(m, n, a) \/ Challenged(n, m, a)

IInv == TypeOK /\ Honest /\ Own /\ Placed /\ CacheIsFirstHand /\ Contest

-----------------------------------------------------------------------------
(* The cable *)

\* A packet is handled.
LEMMA HeadTaken ==
    ASSUME TypeOK, NEW n \in Nodes, queue[n] # <<>>, NEW q, q = Taken(n)
    PROVE  /\ q \in [Nodes -> Seq(PacketType)] /\ Head(queue[n]) \in On(n)
           /\ Head(queue[n]) \in PacketType
           /\ \A m \in Nodes : m # n => q[m] = queue[m]
           /\ \A i \in DOMAIN q[n] : q[n][i] \in On(n)
           /\ \A x \in On(n) : x = Head(queue[n]) \/ \E i \in DOMAIN q[n] : q[n][i] = x
  <1>. DEFINE s == queue[n]
  <1>1. s \in Seq(PacketType) /\ s # <<>>  BY DEF TypeOK
  <1>2. q[n] = Tail(s) /\ q \in [Nodes -> Seq(PacketType)] /\ \A m \in Nodes : m # n => q[m] = queue[m]
    BY <1>1 DEF Taken, TypeOK
  <1>3. /\ DOMAIN s = 1 .. Len(s) /\ DOMAIN Tail(s) = 1 .. Len(s) - 1 /\ Len(s) \in Nat /\ Len(s) > 0
        /\ \A i \in 1 .. Len(s) - 1 : i + 1 \in 1 .. Len(s) /\ Tail(s)[i] = s[i + 1]
        /\ Head(s) = s[1]
    BY <1>1
  <1>4. \A i \in DOMAIN q[n] : q[n][i] \in On(n)
    BY <1>2, <1>3 DEF On
  <1>5. ASSUME NEW x \in On(n)  PROVE x = Head(s) \/ \E i \in DOMAIN q[n] : q[n][i] = x
    <2>1. PICK i \in 1 .. Len(s) : s[i] = x  BY <1>3 DEF On
    <2>2. CASE i = 1  BY <1>3, <2>1, <2>2
    <2>3. CASE i # 1
      <3>1. i - 1 \in 1 .. Len(s) - 1 /\ Tail(s)[i - 1] = x  BY <1>3, <2>1, <2>3
      <3>. QED  BY <1>2, <1>3, <3>1
    <2>. QED  BY <2>2, <2>3
  <1>6. Head(s) \in On(n) /\ Head(s) \in PacketType  BY <1>1, <1>3 DEF On
  <1>. QED  BY <1>2, <1>4, <1>5, <1>6

\* A packet is handled and none is sent.
LEMMA Consumed ==
    ASSUME TypeOK, NEW n \in Nodes, queue[n] # <<>>, queue' = Taken(n)
    PROVE  /\ queue' \in [Nodes -> Seq(PacketType)]
           /\ \A m \in Nodes : On(m)' \subseteq On(m)
           /\ \A m \in Nodes : \A x \in On(m) : x \in On(m)' \/ (m = n /\ x = Head(queue[n]))
  <1>. DEFINE q == Taken(n)
  <1>1. /\ q \in [Nodes -> Seq(PacketType)] /\ Head(queue[n]) \in On(n)
        /\ \A m \in Nodes : m # n => q[m] = queue[m]
        /\ \A i \in DOMAIN q[n] : q[n][i] \in On(n)
        /\ \A x \in On(n) : x = Head(queue[n]) \/ \E i \in DOMAIN q[n] : q[n][i] = x
    BY HeadTaken
  <1>2. queue' = q  OBVIOUS
  <1>. HIDE DEF q
  <1>3. ASSUME NEW m \in Nodes
        PROVE  On(m)' \subseteq On(m) /\ \A x \in On(m) : x \in On(m)' \/ (m = n /\ x = Head(queue[n]))
    <2>1. CASE m = n
      <3>1. /\ \A i \in DOMAIN queue'[m] : queue'[m][i] \in On(m)
            /\ \A x \in On(m) : x = Head(queue[n]) \/ \E i \in DOMAIN queue'[m] : queue'[m][i] = x
        BY <1>1, <1>2, <2>1
      <3>2. On(m)' = {queue'[m][i] : i \in DOMAIN queue'[m]}  BY DEF On
      <3>. HIDE DEF On
      <3>. QED  BY <2>1, <3>1, <3>2
    <2>2. CASE m # n
      <3>1. queue'[m] = queue[m]  BY <1>1, <1>2, <2>2
      <3>. QED  BY <3>1 DEF On
    <2>. QED  BY <2>1, <2>2
  <1>. QED  BY <1>1, <1>2, <1>3

\* A packet is sent: to whoever hears it, and to all of them when none is lost.
LEMMA Sent ==
    ASSUME TypeOK, NEW p \in PacketType, NEW to \in SUBSET Nodes, NEW n \in Nodes,
           NEW q, q = queue \/ (queue[n] # <<>> /\ q = Taken(n)), Transmit(p, to, q, cache)
    PROVE  /\ queue' \in [Nodes -> Seq(PacketType)]
           /\ cache' \in [Nodes -> [Addr -> Nodes \cup {"unknown", "negative"}]]
           /\ lost' \in 0 .. MaxLoss
           /\ \A m \in Nodes : \A x \in On(m)' : x \in On(m) \/ (x = p /\ m \in to)
           /\ \A m \in Nodes : \A x \in On(m) : x \in On(m)' \/ (q # queue /\ m = n /\ x = Head(queue[n]))
           /\ lost' = 0 => lost = 0 /\ \A m \in to : p \in On(m)'
           /\ \A m \in Nodes : \A a \in Addr :
                 cache'[m][a] = cache[m][a] \/ (a = p.sender /\ cache'[m][a] = p.mac)
  <1>1. /\ q \in [Nodes -> Seq(PacketType)]
        /\ \A m \in Nodes : m # n \/ q = queue => q[m] = queue[m]
        /\ \A m \in Nodes : \A i \in DOMAIN q[m] : q[m][i] \in On(m)
        /\ \A m \in Nodes : \A x \in On(m) :
              (q # queue /\ m = n /\ x = Head(queue[n])) \/ \E i \in DOMAIN q[m] : q[m][i] = x
    <2>1. CASE q = queue  BY <2>1 DEF TypeOK, On
    <2>2. CASE q # queue
      <3>1. /\ q \in [Nodes -> Seq(PacketType)] /\ \A m \in Nodes : m # n => q[m] = queue[m]
            /\ \A i \in DOMAIN q[n] : q[n][i] \in On(n)
            /\ \A x \in On(n) : x = Head(queue[n]) \/ \E i \in DOMAIN q[n] : q[n][i] = x
        BY <2>2, HeadTaken
      <3>2. ASSUME NEW m \in Nodes
            PROVE  /\ \A i \in DOMAIN q[m] : q[m][i] \in On(m)
                   /\ \A x \in On(m) : (m = n /\ x = Head(queue[n])) \/ \E i \in DOMAIN q[m] : q[m][i] = x
        <4>1. CASE m = n  BY <3>1, <4>1
        <4>2. CASE m # n
          <5>1. q[m] = queue[m]  BY <3>1, <4>2
          <5>. QED  BY <5>1 DEF On
        <4>. QED  BY <4>1, <4>2
      <3>. QED  BY <2>2, <3>1, <3>2
    <2>. QED  BY <2>1, <2>2
  <1>2. PICK miss \in SUBSET to :
           /\ lost + Cardinality(miss) <= MaxLoss /\ lost' = lost + Cardinality(miss)
           /\ queue' = [m \in Nodes |-> IF m \in to \ miss THEN Append(q[m], p) ELSE q[m]]
           /\ cache' = [m \in Nodes |-> IF m \in to \ miss THEN [cache[m] EXCEPT ![p.sender] = p.mac]
                                        ELSE cache[m]]
    BY DEF Transmit
  <1>3. /\ Cardinality(miss) \in Nat /\ (Cardinality(miss) = 0 => miss = {})
        /\ lost \in Nat /\ MaxLoss \in Nat
    <2>1. IsFiniteSet(miss)  BY FS_Subset, AarpAssumption
    <2>. QED  BY <2>1, FS_CardinalityType, FS_EmptySet, AarpAssumption DEF TypeOK
  <1>4. lost' \in 0 .. MaxLoss /\ (lost' = 0 => lost = 0 /\ miss = {})
    BY <1>2, <1>3
  <1>5. queue' \in [Nodes -> Seq(PacketType)]  BY <1>1, <1>2
  <1>6. ASSUME NEW m \in Nodes
        PROVE  /\ \A x \in On(m)' : x \in On(m) \/ (x = p /\ m \in to)
               /\ \A i \in DOMAIN q[m] : q[m][i] \in On(m)'
               /\ m \in to \ miss => p \in On(m)'
    <2>1. CASE m \in to \ miss
      <3>1. queue'[m] = Append(q[m], p) /\ q[m] \in Seq(PacketType)  BY <1>1, <1>2, <2>1
      <3>2. /\ DOMAIN queue'[m] = 1 .. Len(q[m]) + 1 /\ DOMAIN q[m] = 1 .. Len(q[m]) /\ Len(q[m]) \in Nat
            /\ \A i \in 1 .. Len(q[m]) : queue'[m][i] = q[m][i]
            /\ queue'[m][Len(q[m]) + 1] = p
        BY <3>1
      <3>3. \A x \in On(m)' : x \in On(m) \/ x = p
        <4>1. ASSUME NEW i \in 1 .. Len(q[m]) + 1  PROVE queue'[m][i] \in On(m) \/ queue'[m][i] = p
          <5>1. CASE i \in 1 .. Len(q[m])  BY <1>1, <3>2, <5>1
          <5>2. CASE i = Len(q[m]) + 1  BY <3>2, <5>2
          <5>. QED  BY <3>2, <5>1, <5>2
        <4>. QED  BY <3>2, <4>1 DEF On
      <3>4. \A i \in DOMAIN q[m] : i \in DOMAIN queue'[m]  BY <3>2
      <3>5. Len(q[m]) + 1 \in DOMAIN queue'[m]  BY <3>2
      <3>. QED  BY <2>1, <3>2, <3>3, <3>4, <3>5 DEF On
    <2>2. CASE m \notin to \ miss
      <3>1. queue'[m] = q[m]  BY <1>2, <2>2
      <3>. QED  BY <1>1, <2>2, <3>1 DEF On
    <2>. QED  BY <2>1, <2>2
  <1>7. /\ cache' \in [Nodes -> [Addr -> Nodes \cup {"unknown", "negative"}]]
        /\ \A m \in Nodes : \A a \in Addr :
              cache'[m][a] = cache[m][a] \/ (a = p.sender /\ cache'[m][a] = p.mac)
    <2>1. p.sender \in Addr /\ p.mac \in Nodes  BY DEF PacketType
    <2>2. ASSUME NEW m \in Nodes
          PROVE  LET c == [cache[m] EXCEPT ![p.sender] = p.mac] IN
                 /\ c \in [Addr -> Nodes \cup {"unknown", "negative"}]
                 /\ \A a \in Addr : c[a] = cache[m][a] \/ (a = p.sender /\ c[a] = p.mac)
      BY <2>1 DEF TypeOK
    <2>3. \A m \in Nodes : cache[m] \in [Addr -> Nodes \cup {"unknown", "negative"}]  BY DEF TypeOK
    <2>. QED  BY <1>2, <2>2, <2>3
  <1>. QED  BY <1>1, <1>4, <1>5, <1>6, <1>7

-----------------------------------------------------------------------------
(* What every step has to show *)

\* One entry of a table of tables is set.
LEMMA SetEntry ==
    ASSUME NEW T, NEW V, NEW f \in [Nodes -> [T -> V]], NEW s \in Nodes, NEW t \in T, NEW v \in V
    PROVE  /\ [f EXCEPT ![s][t] = v] \in [Nodes -> [T -> V]]
           /\ \A x \in Nodes, y \in T :
                 [f EXCEPT ![s][t] = v][x][y] = IF x = s /\ y = t THEN v ELSE f[x][y]
  OBVIOUS

\* A packet that waits is a packet.
LEMMA OnType ==
    ASSUME TypeOK, NEW m \in Nodes, NEW x \in On(m)
    PROVE  x \in PacketType /\ x.mac \in Nodes /\ x.sender \in Addr /\ x.target \in Addr
  <1>1. queue[m] \in Seq(PacketType)  BY DEF TypeOK
  <1>2. x \in PacketType  BY <1>1 DEF On
  <1>. QED  BY <1>2 DEF PacketType

LEMMA PacketIs ==
    ASSUME NEW op \in {"Request", "Response", "Probe"}, NEW n \in Nodes, NEW a \in Addr, NEW b \in Addr
    PROVE  /\ Packet(op, n, a, b) \in PacketType
           /\ Packet(op, n, a, b).opcode = op /\ Packet(op, n, a, b).mac = n
           /\ Packet(op, n, a, b).sender = a /\ Packet(op, n, a, b).target = b
  BY DEF Packet, PacketType

\* Nothing reaches a queue or a cache but from a station that probed for it.
LEMMA FirstHand ==
    ASSUME TypeOK, Honest, CacheIsFirstHand,
           \A m \in Nodes : used[m] \subseteq used'[m],
           \A m \in Nodes : \A x \in On(m)' : x \in On(m) \/ x.sender \in used'[x.mac],
           \A m \in Nodes : \A a \in Addr :
              cache'[m][a] = cache[m][a] \/ cache'[m][a] \notin Nodes \/ a \in used'[cache'[m][a]]
    PROVE  Honest' /\ CacheIsFirstHand'
  <1>1. ASSUME NEW m \in Nodes, NEW x \in On(m)'  PROVE x.sender \in used'[x.mac]
    <2>1. CASE x \in On(m)
      <3>1. x.mac \in Nodes /\ x.sender \in used[x.mac]  BY <2>1, OnType DEF Honest
      <3>. QED  BY <3>1
    <2>. QED  BY <1>1, <2>1
  <1>2. ASSUME NEW m \in Nodes, NEW a \in Addr, cache'[m][a] \in Nodes  PROVE a \in used'[cache'[m][a]]
    <2>1. CASE cache'[m][a] = cache[m][a]  BY <1>2, <2>1 DEF CacheIsFirstHand
    <2>. QED  BY <1>2, <2>1
  <1>. QED  BY <1>1, <1>2 DEF Honest, CacheIsFirstHand

\* No new claim, and whoever was challenged and still claims is challenged.
LEMMA Unclaimed ==
    ASSUME Contest, lost' = 0 /\ ~raced' => lost = 0 /\ ~raced,
           \A m \in Nodes : \A a \in NetRange : Claims(m, a)' => Claims(m, a),
           \A m, n \in Nodes : \A a \in NetRange :
              lost' = 0 /\ ~raced' /\ m # n /\ Claims(m, a)' /\ Claims(n, a)' /\ Challenged(n, m, a)
                 => Challenged(n, m, a)'
    PROVE  Contest'
  BY DEF Contest

\* A station outside the range that tries nothing in it claims nothing of it.
LEMMA NoClaim ==
    ASSUME TypeOK, NEW n \in Nodes, phase[n] \in {"off", "probing"} \/
              (phase[n] = "settled" /\ our_addr[n] \notin NetRange)
    PROVE  \A a \in NetRange : ~Claims(n, a)
  <1>1. NoAddr \notin NetRange  BY AarpAssumption DEF Addr
  <1>. QED  BY <1>1 DEF Claims, TypeOK

-----------------------------------------------------------------------------
(* The handlers *)

\* A Probe goes out.
LEMMA Probed ==
    ASSUME IInv, NEW n \in Nodes, NEW a \in Addr, NEW ph \in {"probing", "testing"},
           NEW q, q = queue \/ (queue[n] # <<>> /\ q = Taken(n)),
           Probe(n, a, ph, q), UNCHANGED <<lookups, raced>>,
           ph = "probing" => phase[n] \in {"off", "probing"} /\ a \in Startup,
           ph = "testing" => phase[n] = "settled" /\ our_addr[n] \notin NetRange /\ a \in NetRange
    PROVE  /\ TypeOK' /\ Honest' /\ Own' /\ Placed' /\ CacheIsFirstHand'
           /\ phase'[n] = ph /\ candidate'[n] = a /\ UNCHANGED our_addr
           /\ \A m \in Nodes : m # n => phase'[m] = phase[m] /\ candidate'[m] = candidate[m]
           /\ \A m \in Nodes : \A x \in On(m) : x \in On(m)' \/ (q # queue /\ m = n /\ x = Head(queue[n]))
           /\ lost' = 0 => lost = 0 /\ \A m \in Others(n) : Packet("Probe", n, a, a) \in On(m)'
  <1>. USE DEF IInv
  <1>. DEFINE p == Packet("Probe", n, a, a)
  <1>1. /\ picks' = [picks EXCEPT ![n] = picks[n] + 1] /\ picks[n] < MaxPicks
        /\ phase' = [phase EXCEPT ![n] = ph] /\ candidate' = [candidate EXCEPT ![n] = a]
        /\ used' = [used EXCEPT ![n] = used[n] \cup {a}] /\ UNCHANGED our_addr
        /\ Transmit(p, Others(n), q, cache)
    BY DEF Probe
  <1>2. p \in PacketType /\ p.mac = n /\ p.sender = a  BY PacketIs
  <1>3. Others(n) \in SUBSET Nodes  BY DEF Others
  <1>. HIDE DEF p
  <1>4. /\ queue' \in [Nodes -> Seq(PacketType)]
        /\ cache' \in [Nodes -> [Addr -> Nodes \cup {"unknown", "negative"}]]
        /\ lost' \in 0 .. MaxLoss
        /\ \A m \in Nodes : \A x \in On(m)' : x \in On(m) \/ x = p
        /\ \A m \in Nodes : \A x \in On(m) : x \in On(m)' \/ (q # queue /\ m = n /\ x = Head(queue[n]))
        /\ lost' = 0 => lost = 0 /\ \A m \in Others(n) : p \in On(m)'
        /\ \A m \in Nodes : \A b \in Addr :
              cache'[m][b] = cache[m][b] \/ (b = a /\ cache'[m][b] = n)
    <2>0. p \in PacketType /\ Others(n) \in SUBSET Nodes /\ Transmit(p, Others(n), q, cache) /\ TypeOK
      BY <1>1, <1>2, <1>3
    <2>1. /\ queue' \in [Nodes -> Seq(PacketType)]
          /\ cache' \in [Nodes -> [Addr -> Nodes \cup {"unknown", "negative"}]]
          /\ lost' \in 0 .. MaxLoss
          /\ \A m \in Nodes : \A x \in On(m)' : x \in On(m) \/ (x = p /\ m \in Others(n))
          /\ \A m \in Nodes : \A x \in On(m) : x \in On(m)' \/ (q # queue /\ m = n /\ x = Head(queue[n]))
          /\ lost' = 0 => lost = 0 /\ \A m \in Others(n) : p \in On(m)'
          /\ \A m \in Nodes : \A b \in Addr :
                cache'[m][b] = cache[m][b] \/ (b = p.sender /\ cache'[m][b] = p.mac)
      BY <2>0, Sent
    <2>. QED  BY <1>2, <2>1
  <1>5. /\ used' \in [Nodes -> SUBSET Addr] /\ a \in used'[n]
        /\ \A m \in Nodes : used[m] \subseteq used'[m]
    BY <1>1 DEF TypeOK
  <1>6. Honest' /\ CacheIsFirstHand'  BY <1>2, <1>4, <1>5, FirstHand
  <1>7. /\ phase' \in [Nodes -> Phases] /\ phase'[n] = ph
        /\ candidate' \in [Nodes -> Addr \cup {NoAddr}] /\ candidate'[n] = a
        /\ \A m \in Nodes : m # n => phase'[m] = phase[m] /\ candidate'[m] = candidate[m]
    BY <1>1 DEF TypeOK, Phases
  <1>8. picks' \in [Nodes -> 0 .. MaxPicks]
    <2>1. picks[n] + 1 \in 0 .. MaxPicks  BY <1>1, AarpAssumption DEF TypeOK
    <2>. QED  BY <1>1, <2>1 DEF TypeOK
  <1>9. \A m \in Nodes : our_addr'[m] = NoAddr <=> phase'[m] \in {"off", "probing"}
    <2>1. our_addr'[n] = NoAddr <=> phase'[n] \in {"off", "probing"}  BY <1>1, <1>7 DEF TypeOK
    <2>. QED  BY <1>1, <1>7, <2>1 DEF TypeOK
  <1>10. TypeOK'  BY <1>1, <1>4, <1>5, <1>7, <1>8, <1>9 DEF TypeOK, lookups
  <1>11. Own' /\ Placed'
    <2>1. ASSUME NEW m \in Nodes
          PROVE  /\ our_addr'[m] # NoAddr => our_addr'[m] \in used'[m]
                 /\ phase'[m] \in {"probing", "testing", "adopting"} => candidate'[m] \in used'[m]
                 /\ phase'[m] = "probing" => candidate'[m] \in Startup
                 /\ phase'[m] \in {"testing", "adopting"} =>
                       candidate'[m] \in NetRange /\ our_addr'[m] \notin NetRange
      <3>1. CASE m = n  BY <1>1, <1>5, <1>7, <3>1 DEF Own, Placed
      <3>2. CASE m # n  BY <1>1, <1>5, <1>7, <3>2 DEF Own, Placed
      <3>. QED  BY <3>1, <3>2
    <2>. QED  BY <2>1 DEF Own, Placed
  <1>. QED  BY <1>1, <1>4, <1>6, <1>7, <1>10, <1>11 DEF p

\* A packet is handled by a station that has an address.
LEMMA Handled ==
    ASSUME IInv, NEW n \in Nodes, queue[n] # <<>>, phase[n] \in {"settled", "testing", "adopting"},
           NEW p, p = Head(queue[n]), HandleAarpPacket(n, p), UNCHANGED actor, raced' \in BOOLEAN
    PROVE  /\ TypeOK' /\ Honest' /\ CacheIsFirstHand' /\ Own' /\ Placed'
           /\ lost' = 0 => lost = 0
           /\ \A m \in Nodes : \A x \in On(m) : x \in On(m)' \/ (m = n /\ x = p)
           /\ Defends(n, p) /\ lost' = 0 =>
                 \E x \in On(p.mac)' : x.opcode = "Response" /\ x.sender = our_addr[n]
  <1>. USE DEF IInv
  <1>1. p \in PacketType /\ p \in On(n) /\ p.mac \in Nodes /\ p.sender \in Addr
    BY HeadTaken DEF PacketType
  <1>2. our_addr[n] \in Addr /\ our_addr[n] \in used[n]  BY DEF TypeOK, Own
  <1>3. UNCHANGED <<phase, our_addr, candidate, picks, used>>  BY DEF actor
  <1>4. Own' /\ Placed'  BY <1>3 DEF Own, Placed
  <1>5. CASE Defends(n, p) /\ Reply(n, p) /\ UNCHANGED lookups
    <2>1. PICK to \in Hearers(n, p.mac) :
              Transmit(Packet("Response", n, our_addr[n], p.sender), to, Taken(n), cache)
      BY <1>5 DEF Reply
    <2>. DEFINE r == Packet("Response", n, our_addr[n], p.sender)
    <2>2. /\ r \in PacketType /\ r.mac = n /\ r.sender = our_addr[n] /\ r.opcode = "Response"
          /\ to \in SUBSET Nodes /\ p.mac \in to
      BY <1>1, <1>2, <2>1, PacketIs DEF Hearers, Others
    <2>. HIDE DEF r
    <2>3. Transmit(r, to, Taken(n), cache)  BY <2>1 DEF r
    <2>4. /\ queue' \in [Nodes -> Seq(PacketType)]
          /\ cache' \in [Nodes -> [Addr -> Nodes \cup {"unknown", "negative"}]]
          /\ lost' \in 0 .. MaxLoss
          /\ \A m \in Nodes : \A x \in On(m)' : x \in On(m) \/ x = r
          /\ \A m \in Nodes : \A x \in On(m) : x \in On(m)' \/ (m = n /\ x = Head(queue[n]))
          /\ lost' = 0 => lost = 0 /\ \A m \in to : r \in On(m)'
          /\ \A m \in Nodes : \A a \in Addr :
                cache'[m][a] = cache[m][a] \/ (a = our_addr[n] /\ cache'[m][a] = n)
      <3>0. /\ r \in PacketType /\ to \in SUBSET Nodes /\ Transmit(r, to, Taken(n), cache) /\ TypeOK
            /\ Taken(n) = queue \/ (queue[n] # <<>> /\ Taken(n) = Taken(n))
        BY <2>2, <2>3
      <3>1. /\ queue' \in [Nodes -> Seq(PacketType)]
            /\ cache' \in [Nodes -> [Addr -> Nodes \cup {"unknown", "negative"}]]
            /\ lost' \in 0 .. MaxLoss
            /\ \A m \in Nodes : \A x \in On(m)' : x \in On(m) \/ (x = r /\ m \in to)
            /\ \A m \in Nodes : \A x \in On(m) :
                  x \in On(m)' \/ (Taken(n) # queue /\ m = n /\ x = Head(queue[n]))
            /\ lost' = 0 => lost = 0 /\ \A m \in to : r \in On(m)'
            /\ \A m \in Nodes : \A a \in Addr :
                  cache'[m][a] = cache[m][a] \/ (a = r.sender /\ cache'[m][a] = r.mac)
        BY <3>0, Sent
      <3>. QED  BY <2>2, <3>1
    <2>5. Honest' /\ CacheIsFirstHand'  BY <1>2, <1>3, <2>2, <2>4, FirstHand
    <2>6. TypeOK'  BY <1>3, <1>5, <2>4 DEF TypeOK, lookups
    <2>. QED  BY <1>4, <2>2, <2>4, <2>5, <2>6
  <1>6. CASE p.opcode = "Response" /\ Resolve(n, p)
    <2>1. /\ queue' = Taken(n) /\ UNCHANGED <<requests, asked, lost>>
          /\ cache' = IF pending[n][p.sender] > 0 THEN [cache EXCEPT ![n][p.sender] = p.mac] ELSE cache
          /\ pending' = [pending EXCEPT ![n][p.sender] = 0]
          /\ looking' = looking \/ looking' = [looking EXCEPT ![n] = looking[n] \ {p.sender}]
      BY <1>6 DEF Resolve
    <2>2. /\ queue' \in [Nodes -> Seq(PacketType)]
          /\ \A m \in Nodes : On(m)' \subseteq On(m)
          /\ \A m \in Nodes : \A x \in On(m) : x \in On(m)' \/ (m = n /\ x = p)
      BY <2>1, Consumed
    <2>3. /\ cache' \in [Nodes -> [Addr -> Nodes \cup {"unknown", "negative"}]]
          /\ \A m \in Nodes : \A a \in Addr :
                cache'[m][a] = cache[m][a] \/ (a = p.sender /\ cache'[m][a] = p.mac)
      <3>1. /\ cache \in [Nodes -> [Addr -> Nodes \cup {"unknown", "negative"}]]
            /\ p.mac \in Nodes \cup {"unknown", "negative"}
        BY <1>1 DEF TypeOK
      <3>. DEFINE V == Nodes \cup {"unknown", "negative"}
      <3>. HIDE DEF V
      <3>2. CASE cache' = cache  BY <3>1, <3>2
      <3>3. CASE cache' = [cache EXCEPT ![n][p.sender] = p.mac]
        <4>1. cache \in [Nodes -> [Addr -> V]] /\ p.mac \in V  BY <3>1 DEF V
        <4>2. \A x \in Nodes, y \in Addr :
                 cache'[x][y] = IF x = n /\ y = p.sender THEN p.mac ELSE cache[x][y]
          BY <1>1, <3>3, <4>1, SetEntry
        <4>3. cache' \in [Nodes -> [Addr -> V]]  BY <1>1, <3>3, <4>1, SetEntry
        <4>. QED  BY <4>2, <4>3 DEF V
      <3>. QED  BY <2>1, <3>2, <3>3
    <2>4. pending' \in [Nodes -> [Addr -> Nat]]
      <3>1. pending \in [Nodes -> [Addr -> Nat]] /\ 0 \in Nat  BY DEF TypeOK
      <3>. QED  BY <1>1, <2>1, <3>1, SetEntry
    <2>5. looking' \in [Nodes -> SUBSET Addr]
      <3>1. looking \in [Nodes -> SUBSET Addr] /\ looking[n] \ {p.sender} \in SUBSET Addr  BY DEF TypeOK
      <3>. QED  BY <2>1, <3>1
    <2>6. p.sender \in used[p.mac]  BY <1>1 DEF Honest
    <2>7. Honest' /\ CacheIsFirstHand'  BY <1>3, <2>2, <2>3, <2>6, FirstHand
    <2>8. TypeOK'  BY <1>3, <2>1, <2>2, <2>3, <2>4, <2>5 DEF TypeOK
    <2>. QED  BY <1>4, <1>6, <2>1, <2>2, <2>7, <2>8 DEF Defends
  <1>7. CASE p.opcode # "Response" /\ ~Defends(n, p) /\ Consume(n) /\ UNCHANGED lookups
    <2>1. queue' = Taken(n) /\ UNCHANGED <<cache, lost>>  BY <1>7 DEF Consume
    <2>2. /\ queue' \in [Nodes -> Seq(PacketType)]
          /\ \A m \in Nodes : On(m)' \subseteq On(m)
          /\ \A m \in Nodes : \A x \in On(m) : x \in On(m)' \/ (m = n /\ x = p)
      BY <2>1, Consumed
    <2>3. Honest' /\ CacheIsFirstHand'  BY <1>3, <2>1, <2>2, FirstHand
    <2>4. TypeOK'  BY <1>3, <1>7, <2>1, <2>2 DEF TypeOK, lookups
    <2>. QED  BY <1>4, <1>7, <2>1, <2>2, <2>3, <2>4
  <1>. QED  BY <1>5, <1>6, <1>7 DEF HandleAarpPacket

-----------------------------------------------------------------------------
(* The steps *)

LEMMA InitInv == Init => IInv
  <1>. SUFFICES ASSUME Init  PROVE IInv
    OBVIOUS
  <1>1. TypeOK
    <2>1. /\ phase \in [Nodes -> Phases] /\ \A n \in Nodes : phase[n] = "off"
          /\ our_addr \in [Nodes -> Addr \cup {NoAddr}] /\ \A n \in Nodes : our_addr[n] = NoAddr
          /\ candidate \in [Nodes -> Addr \cup {NoAddr}]
          /\ queue \in [Nodes -> Seq(PacketType)] /\ requests \in [Nodes -> Seq(Addr)]
      BY DEF Init, Phases
    <2>2. /\ cache \in [Nodes -> [Addr -> Nodes \cup {"unknown", "negative"}]]
          /\ pending \in [Nodes -> [Addr -> Nat]]
      BY DEF Init
    <2>3. looking \in [Nodes -> SUBSET Addr] /\ used \in [Nodes -> SUBSET Addr]  BY DEF Init
    <2>4. picks \in [Nodes -> 0 .. MaxPicks] /\ asked \in 0 .. MaxLookups /\ lost \in 0 .. MaxLoss
      BY AarpAssumption DEF Init
    <2>5. raced \in BOOLEAN  BY DEF Init
    <2>. QED  BY <2>1, <2>2, <2>3, <2>4, <2>5 DEF TypeOK
  <1>2. \A m \in Nodes : On(m) = {}  BY DEF Init, On
  <1>3. Honest /\ CacheIsFirstHand  BY <1>2, AarpAssumption DEF Init, Honest, CacheIsFirstHand
  <1>4. Own /\ Placed  BY DEF Init, Own, Placed
  <1>5. Contest  BY <1>1, NoClaim DEF Init, Contest
  <1>. QED  BY <1>1, <1>3, <1>4, <1>5 DEF IInv

\* A startup candidate claims nothing of the range, before or after.
LEMMA StartupSteps ==
    ASSUME IInv, NEW n \in Nodes, NEW a \in Startup,
           NEW q, q = queue \/ (queue[n] # <<>> /\ q = Taken(n)),
           Probe(n, a, "probing", q), UNCHANGED <<lookups, raced>>, phase[n] \in {"off", "probing"}
    PROVE  IInv'
  <1>1. a \in Addr  BY DEF Addr
  <1>2. /\ TypeOK' /\ Honest' /\ Own' /\ Placed' /\ CacheIsFirstHand'
        /\ phase'[n] = "probing" /\ UNCHANGED our_addr
        /\ \A m \in Nodes : m # n => phase'[m] = phase[m] /\ candidate'[m] = candidate[m]
        /\ \A m \in Nodes : \A x \in On(m) : x \in On(m)' \/ (m = n /\ x = Head(queue[n]))
        /\ lost' = 0 => lost = 0
    BY <1>1, Probed
  <1>3. \A b \in NetRange : ~Claims(n, b)'
    <2>1. NoAddr \notin NetRange  BY AarpAssumption DEF Addr
    <2>. QED  BY <1>2, <2>1 DEF Claims, TypeOK
  <1>4. \A m \in Nodes : \A b \in NetRange : Claims(m, b)' => Claims(m, b) /\ m # n
    BY <1>2, <1>3 DEF Claims
  <1>5. ASSUME NEW m \in Nodes, NEW k \in Nodes, NEW b \in NetRange, m # k,
               Claims(m, b)', Claims(k, b)', Challenged(k, m, b)
        PROVE  Challenged(k, m, b)'
    <2>1. m # n /\ k # n  BY <1>4, <1>5
    <2>2. phase'[k] = "testing" /\ candidate'[k] = candidate[k]  BY <1>2, <1>5, <2>1 DEF Challenged
    <2>3. \A x \in On(m) : x \in On(m)'  BY <1>2, <2>1
    <2>4. \A x \in On(k) : x \in On(k)'  BY <1>2, <2>1
    <2>. QED  BY <1>5, <2>2, <2>3, <2>4 DEF Challenged
  <1>6. UNCHANGED raced  OBVIOUS
  <1>7. Contest'  BY <1>2, <1>4, <1>5, <1>6, Unclaimed DEF IInv
  <1>. QED  BY <1>2, <1>7 DEF IInv

\* A step that moves no packet and no address but n's.
LEMMA Settles ==
    ASSUME IInv, NEW n \in Nodes, NEW ph \in {"settled", "adopting"},
           phase[n] \in {"probing", "testing", "adopting"},
           phase' = [phase EXCEPT ![n] = ph], UNCHANGED <<candidate, picks, used, lookups, wire, raced>>,
           \/ our_addr' = our_addr /\ phase[n] # "probing"
           \/ our_addr' = [our_addr EXCEPT ![n] = candidate[n]] /\ ph = "settled",
           ph = "adopting" => phase[n] = "testing"
    PROVE  /\ TypeOK' /\ Honest' /\ Own' /\ Placed' /\ CacheIsFirstHand'
           /\ \A m \in Nodes : m # n => phase'[m] = phase[m] /\ our_addr'[m] = our_addr[m]
           /\ \A m \in Nodes : On(m)' = On(m)
           /\ UNCHANGED <<candidate, lost, raced>> /\ phase'[n] = ph
  <1>. USE DEF IInv
  <1>1. UNCHANGED <<candidate, picks, used, requests, pending, looking, asked, queue, cache, lost, raced>>
    BY DEF lookups, wire
  <1>2. candidate[n] \in used[n] /\ candidate[n] \in Addr /\ candidate[n] # NoAddr
    BY AarpAssumption DEF Own, TypeOK
  <1>3. /\ phase' \in [Nodes -> Phases] /\ phase'[n] = ph
        /\ \A m \in Nodes : m # n => phase'[m] = phase[m]
    BY DEF TypeOK, Phases
  <1>4. /\ our_addr' \in [Nodes -> Addr \cup {NoAddr}]
        /\ our_addr'[n] \in {our_addr[n], candidate[n]}
        /\ our_addr'[n] # our_addr[n] => ph = "settled"
        /\ phase[n] = "probing" => our_addr'[n] = candidate[n]
        /\ \A m \in Nodes : m # n => our_addr'[m] = our_addr[m]
    BY <1>2 DEF TypeOK
  <1>5. \A m \in Nodes : our_addr'[m] = NoAddr <=> phase'[m] \in {"off", "probing"}
    <2>1. our_addr'[n] # NoAddr  BY <1>2, <1>4 DEF TypeOK
    <2>2. phase'[n] \notin {"off", "probing"}  BY <1>3
    <2>. QED  BY <1>3, <1>4, <2>1, <2>2 DEF TypeOK
  <1>6. TypeOK'  BY <1>1, <1>3, <1>4, <1>5 DEF TypeOK
  <1>7. \A m \in Nodes : On(m)' = On(m)  BY <1>1 DEF On
  <1>8. Honest' /\ CacheIsFirstHand'  BY <1>1, <1>7, FirstHand
  <1>9. ASSUME NEW m \in Nodes
        PROVE  /\ our_addr'[m] # NoAddr => our_addr'[m] \in used'[m]
               /\ phase'[m] \in {"probing", "testing", "adopting"} => candidate'[m] \in used'[m]
               /\ phase'[m] = "probing" => candidate'[m] \in Startup
               /\ phase'[m] \in {"testing", "adopting"} =>
                     candidate'[m] \in NetRange /\ our_addr'[m] \notin NetRange
    <2>1. CASE m = n
      <3>1. our_addr'[m] \in used'[m]  BY <1>1, <1>2, <1>4, <1>5, <1>3, <2>1 DEF Own
      <3>2. CASE ph = "settled"  BY <1>3, <2>1, <3>1, <3>2
      <3>3. CASE ph = "adopting"  BY <1>1, <1>2, <1>3, <1>4, <2>1, <3>1, <3>3 DEF Placed
      <3>. QED  BY <3>2, <3>3
    <2>2. CASE m # n  BY <1>1, <1>3, <1>4, <2>2 DEF Own, Placed
    <2>. QED  BY <2>1, <2>2
  <1>10. Own' /\ Placed'  BY <1>9 DEF Own, Placed
  <1>. QED  BY <1>1, <1>3, <1>4, <1>6, <1>7, <1>8, <1>10

LEMMA ConfirmStep == ASSUME IInv, NEW n \in Nodes, Confirm(n)  PROVE IInv'
  <1>1. /\ phase[n] = "probing" /\ phase' = [phase EXCEPT ![n] = "settled"]
        /\ our_addr' = [our_addr EXCEPT ![n] = candidate[n]]
        /\ UNCHANGED <<candidate, picks, used, lookups, wire, raced>>
    BY DEF Confirm
  <1>2. /\ TypeOK' /\ Honest' /\ Own' /\ Placed' /\ CacheIsFirstHand'
        /\ \A m \in Nodes : m # n => phase'[m] = phase[m] /\ our_addr'[m] = our_addr[m]
        /\ \A m \in Nodes : On(m)' = On(m)
        /\ UNCHANGED <<candidate, lost, raced>> /\ phase'[n] = "settled"
    BY <1>1, Settles
  <1>3. our_addr'[n] \notin NetRange
    <2>1. our_addr'[n] = candidate[n]  BY <1>1 DEF IInv, TypeOK
    <2>2. candidate[n] \in Startup  BY <1>1 DEF IInv, Placed
    <2>. QED  BY <2>1, <2>2, AarpAssumption
  <1>4. \A b \in NetRange : ~Claims(n, b)'  BY <1>2, <1>3 DEF Claims
  <1>5. \A m \in Nodes : \A b \in NetRange : Claims(m, b)' => Claims(m, b) /\ m # n
    BY <1>2, <1>4 DEF Claims
  <1>6. ASSUME NEW m \in Nodes, NEW k \in Nodes, NEW b \in NetRange,
               Claims(m, b)', Claims(k, b)', Challenged(k, m, b)
        PROVE  Challenged(k, m, b)'
    <2>1. m # n /\ k # n  BY <1>5, <1>6
    <2>. QED  BY <1>2, <1>6, <2>1 DEF Challenged
  <1>7. Contest'  BY <1>2, <1>5, <1>6, Unclaimed DEF IInv
  <1>. QED  BY <1>2, <1>7 DEF IInv

\* The window closes without an answer: n is not challenged, so any other claimant is.
LEMMA FreeStep == ASSUME IInv, NEW n \in Nodes, Free(n)  PROVE IInv'
  <1>1. /\ phase[n] = "testing" /\ phase' = [phase EXCEPT ![n] = "adopting"] /\ our_addr' = our_addr
        /\ UNCHANGED <<candidate, picks, used, lookups, wire, raced>> /\ Answered(n)
    BY DEF Free
  <1>2. /\ TypeOK' /\ Honest' /\ Own' /\ Placed' /\ CacheIsFirstHand'
        /\ \A m \in Nodes : m # n => phase'[m] = phase[m] /\ our_addr'[m] = our_addr[m]
        /\ \A m \in Nodes : On(m)' = On(m)
        /\ UNCHANGED <<candidate, lost, raced>> /\ phase'[n] = "adopting"
    BY <1>1, Settles
  <1>3. \A m \in Nodes : \A b \in NetRange : Claims(m, b)' => Claims(m, b)
    BY <1>1, <1>2 DEF Claims
  <1>4. ASSUME NEW m \in Nodes, NEW b \in NetRange, Challenged(n, m, b)  PROVE FALSE
    <2>1. \A x \in On(m) : ~(x.opcode = "Probe" /\ x.mac = n)  BY <1>1 DEF Answered, On
    <2>2. \A x \in On(n) : x.opcode # "Response"  BY <1>1 DEF Answered, On
    <2>3. b \in Addr  BY DEF Addr
    <2>. QED  BY <1>4, <2>1, <2>2, <2>3, PacketIs DEF Challenged
  <1>5. ASSUME NEW m \in Nodes, NEW k \in Nodes, NEW b \in NetRange, Challenged(k, m, b)
        PROVE  Challenged(k, m, b)'
    <2>1. k # n  BY <1>4, <1>5
    <2>. QED  BY <1>2, <1>5, <2>1 DEF Challenged
  <1>6. Contest'  BY <1>2, <1>3, <1>5, Unclaimed DEF IInv
  <1>. QED  BY <1>2, <1>6 DEF IInv

LEMMA SetAddrStep == ASSUME IInv, NEW n \in Nodes, SetAddr(n)  PROVE IInv'
  <1>1. /\ phase[n] = "adopting" /\ phase' = [phase EXCEPT ![n] = "settled"]
        /\ our_addr' = [our_addr EXCEPT ![n] = candidate[n]]
        /\ UNCHANGED <<candidate, picks, used, lookups, wire, raced>>
    BY DEF SetAddr
  <1>2. /\ TypeOK' /\ Honest' /\ Own' /\ Placed' /\ CacheIsFirstHand'
        /\ \A m \in Nodes : m # n => phase'[m] = phase[m] /\ our_addr'[m] = our_addr[m]
        /\ \A m \in Nodes : On(m)' = On(m)
        /\ UNCHANGED <<candidate, lost, raced>> /\ phase'[n] = "settled"
    BY <1>1, Settles
  <1>3. our_addr'[n] = candidate[n]  BY <1>1 DEF IInv, TypeOK
  <1>4. \A m \in Nodes : \A b \in NetRange : Claims(m, b)' => Claims(m, b)
    BY <1>1, <1>2, <1>3 DEF Claims
  <1>5. ASSUME NEW m \in Nodes, NEW k \in Nodes, NEW b \in NetRange, Challenged(k, m, b)
        PROVE  Challenged(k, m, b)'
    <2>1. k # n  BY <1>1, <1>5 DEF Challenged
    <2>. QED  BY <1>2, <1>5, <2>1 DEF Challenged
  <1>6. Contest'  BY <1>2, <1>4, <1>5, Unclaimed DEF IInv
  <1>. QED  BY <1>2, <1>6 DEF IInv

\* A candidate of the range is tried: every other claimant hears the Probe or it is lost.
LEMMA AcquireStep == ASSUME IInv, NEW n \in Nodes, Acquire(n)  PROVE IInv'
  <1>1. PICK a \in NetRange : Probe(n, a, "testing", queue)  BY DEF Acquire
  <1>2. /\ phase[n] = "settled" /\ our_addr[n] \notin NetRange /\ UNCHANGED <<lookups, raced>> /\ a \in Addr
    BY DEF Acquire, Addr
  <1>3. /\ TypeOK' /\ Honest' /\ Own' /\ Placed' /\ CacheIsFirstHand'
        /\ phase'[n] = "testing" /\ candidate'[n] = a /\ UNCHANGED our_addr
        /\ \A m \in Nodes : m # n => phase'[m] = phase[m] /\ candidate'[m] = candidate[m]
        /\ \A m \in Nodes : \A x \in On(m) : x \in On(m)'
        /\ lost' = 0 => lost = 0 /\ \A m \in Others(n) : Packet("Probe", n, a, a) \in On(m)'
    BY <1>1, <1>2, Probed
  <1>4. \A b \in NetRange : ~Claims(n, b)  BY <1>2, NoClaim DEF IInv
  <1>5. ASSUME NEW m \in Nodes, m # n, NEW b \in NetRange  PROVE Claims(m, b)' => Claims(m, b) /\ m \in Others(n)
    <2>1. Claims(m, b)' => Claims(m, b)  BY <1>3, <1>5 DEF Claims
    <2>2. Claims(m, b) => phase[m] # "off"  BY NoClaim DEF IInv
    <2>. QED  BY <1>5, <2>1, <2>2 DEF Others
  <1>6. ASSUME NEW b \in NetRange, Claims(n, b)'  PROVE b = a
    BY <1>2, <1>3, <1>6 DEF Claims
  <1>7. ASSUME lost' = 0, NEW m \in Nodes, m # n, Claims(m, a)'  PROVE Challenged(n, m, a)'
    BY <1>3, <1>5, <1>7 DEF Challenged, Packet
  <1>8. ASSUME NEW m \in Nodes, NEW k \in Nodes, NEW b \in NetRange, Challenged(k, m, b), k # n
        PROVE  Challenged(k, m, b)'
    BY <1>3, <1>8 DEF Challenged
  <1>9. ASSUME lost' = 0, ~raced', NEW m \in Nodes, NEW k \in Nodes, NEW b \in NetRange,
               m # k, Claims(m, b)', Claims(k, b)'
        PROVE  Challenged(m, k, b)' \/ Challenged(k, m, b)'
    <2>1. CASE m = n  BY <1>6, <1>7, <1>9, <2>1
    <2>2. CASE k = n  BY <1>6, <1>7, <1>9, <2>2
    <2>3. CASE m # n /\ k # n
      <3>1. Claims(m, b) /\ Claims(k, b) /\ lost = 0 /\ ~raced  BY <1>2, <1>3, <1>5, <1>9, <2>3
      <3>2. Challenged(m, k, b) \/ Challenged(k, m, b)  BY <1>9, <3>1 DEF IInv, Contest
      <3>. QED  BY <1>8, <2>3, <3>2
    <2>. QED  BY <2>1, <2>2, <2>3
  <1>10. Contest'  BY <1>9 DEF Contest
  <1>. QED  BY <1>3, <1>10 DEF IInv

\* A packet in the main loop: a Probe for what n holds is answered, and one for what it
\* adopts sets raced.
LEMMA HandleStep == ASSUME IInv, NEW n \in Nodes, Handle(n)  PROVE IInv'
  <1>0. PICK p : p = Head(queue[n])  OBVIOUS
  <1>1. /\ phase[n] \in {"settled", "adopting"} /\ queue[n] # <<>> /\ HandleAarpPacket(n, p)
        /\ raced' = (raced \/ (phase[n] = "adopting" /\ p.opcode = "Probe" /\ p.target = candidate[n]))
        /\ UNCHANGED actor
    BY <1>0 DEF Handle
  <1>2. raced' \in BOOLEAN  BY <1>1 DEF IInv, TypeOK
  <1>3. /\ TypeOK' /\ Honest' /\ CacheIsFirstHand' /\ Own' /\ Placed'
        /\ lost' = 0 => lost = 0
        /\ \A m \in Nodes : \A x \in On(m) : x \in On(m)' \/ (m = n /\ x = p)
        /\ Defends(n, p) /\ lost' = 0 =>
              \E x \in On(p.mac)' : x.opcode = "Response" /\ x.sender = our_addr[n]
    BY <1>0, <1>1, <1>2, Handled
  <1>4. UNCHANGED <<phase, our_addr, candidate>>  BY <1>1 DEF actor
  <1>5. \A m \in Nodes : \A b \in NetRange : Claims(m, b)' => Claims(m, b)  BY <1>4 DEF Claims
  <1>6. ASSUME NEW m \in Nodes, NEW k \in Nodes, NEW b \in NetRange, m # k, lost' = 0, ~raced',
               Claims(m, b), Challenged(k, m, b)
        PROVE  Challenged(k, m, b)'
    <2>1. phase[k] = "testing" /\ candidate[k] = b /\ k # n  BY <1>1, <1>6 DEF Challenged
    <2>2. phase'[k] = "testing" /\ candidate'[k] = b  BY <1>4, <2>1
    <2>3. \A x \in On(k) : x \in On(k)'  BY <1>3, <2>1
    <2>4. CASE m = n /\ p = Packet("Probe", k, b, b)
      <3>1. p.opcode = "Probe" /\ p.target = b /\ p.mac = k  BY <2>4 DEF Packet
      <3>2. CASE our_addr[n] = b
        <4>1. Defends(n, p)  BY <3>1, <3>2 DEF Defends
        <4>2. \E x \in On(k)' : x.opcode = "Response" /\ x.sender = b  BY <1>3, <1>6, <3>1, <3>2, <4>1
        <4>. QED  BY <2>2, <4>2 DEF Challenged
      <3>3. CASE phase[n] = "adopting" /\ candidate[n] = b  BY <1>1, <1>6, <3>1, <3>3
      <3>. QED  BY <1>1, <1>6, <2>4, <3>2, <3>3 DEF Claims
    <2>5. CASE ~(m = n /\ p = Packet("Probe", k, b, b))
      <3>1. Packet("Probe", k, b, b) \in On(m) => Packet("Probe", k, b, b) \in On(m)'  BY <1>3, <2>5
      <3>. QED  BY <1>6, <2>2, <2>3, <3>1 DEF Challenged
    <2>. QED  BY <2>4, <2>5
  <1>7. lost' = 0 /\ ~raced' => lost = 0 /\ ~raced  BY <1>1, <1>3
  <1>8. \A m, k \in Nodes : \A b \in NetRange :
           lost' = 0 /\ ~raced' /\ m # k /\ Claims(m, b)' /\ Claims(k, b)' /\ Challenged(k, m, b)
              => Challenged(k, m, b)'
    BY <1>5, <1>6
  <1>9. Contest'  BY <1>5, <1>7, <1>8, Unclaimed DEF IInv
  <1>. QED  BY <1>3, <1>9 DEF IInv

\* The candidate is taken: n claims nothing any more.
LEMMA GiveUpStep ==
    ASSUME IInv, NEW n \in Nodes, phase[n] = "testing", queue[n] # <<>>,
           phase' = [phase EXCEPT ![n] = "settled"], Consume(n),
           UNCHANGED <<our_addr, candidate, picks, used, lookups, raced>>
    PROVE  IInv'
  <1>. USE DEF IInv
  <1>1. queue' = Taken(n) /\ UNCHANGED <<cache, lost, requests, pending, looking, asked>>
    BY DEF Consume, lookups
  <1>2. /\ queue' \in [Nodes -> Seq(PacketType)]
        /\ \A m \in Nodes : On(m)' \subseteq On(m)
        /\ \A m \in Nodes : \A x \in On(m) : x \in On(m)' \/ m = n
    BY <1>1, Consumed
  <1>3. /\ phase' \in [Nodes -> Phases] /\ phase'[n] = "settled"
        /\ \A m \in Nodes : m # n => phase'[m] = phase[m]
    BY DEF TypeOK, Phases
  <1>4. \A m \in Nodes : our_addr'[m] = NoAddr <=> phase'[m] \in {"off", "probing"}
    <2>1. our_addr'[n] # NoAddr  BY DEF TypeOK
    <2>. QED  BY <1>3, <2>1 DEF TypeOK
  <1>5. TypeOK'  BY <1>1, <1>2, <1>3, <1>4 DEF TypeOK
  <1>6. Honest' /\ CacheIsFirstHand'  BY <1>1, <1>2, FirstHand
  <1>7. Own'
    <2>1. ASSUME NEW m \in Nodes
          PROVE  /\ our_addr'[m] # NoAddr => our_addr'[m] \in used'[m]
                 /\ phase'[m] \in {"probing", "testing", "adopting"} => candidate'[m] \in used'[m]
      <3>1. CASE m = n  BY <1>3, <3>1 DEF Own
      <3>2. CASE m # n  BY <1>3, <3>2 DEF Own
      <3>. QED  BY <3>1, <3>2
    <2>. QED  BY <2>1 DEF Own
  <1>8. Placed'
    <2>1. ASSUME NEW m \in Nodes
          PROVE  /\ phase'[m] = "probing" => candidate'[m] \in Startup
                 /\ phase'[m] \in {"testing", "adopting"} =>
                       candidate'[m] \in NetRange /\ our_addr'[m] \notin NetRange
      <3>1. CASE m = n  BY <1>3, <3>1
      <3>2. CASE m # n  BY <1>3, <3>2 DEF Placed
      <3>. QED  BY <3>1, <3>2
    <2>. QED  BY <2>1 DEF Placed
  <1>9. \A m \in Nodes : \A b \in NetRange : Claims(m, b)' => Claims(m, b) /\ m # n
    <2>1. \A b \in NetRange : ~Claims(n, b)'  BY <1>3 DEF Claims, Placed
    <2>. QED  BY <1>3, <2>1 DEF Claims
  <1>10. ASSUME NEW m \in Nodes, NEW k \in Nodes, NEW b \in NetRange,
                Claims(m, b)', Claims(k, b)', Challenged(k, m, b)
         PROVE  Challenged(k, m, b)'
    <2>1. m # n /\ k # n  BY <1>9, <1>10
    <2>2. phase'[k] = phase[k] /\ \A x \in On(k) : x \in On(k)'  BY <1>2, <1>3, <2>1
    <2>3. \A x \in On(m) : x \in On(m)'  BY <1>2, <2>1
    <2>. QED  BY <1>10, <2>2, <2>3 DEF Challenged
  <1>11. lost' = 0 /\ ~raced' => lost = 0 /\ ~raced  BY <1>1
  <1>12. Contest'  BY <1>9, <1>10, <1>11, Unclaimed
  <1>. QED  BY <1>5, <1>6, <1>7, <1>8, <1>12

\* A packet during a test that says nothing of the candidate.
LEMMA TestingStep == ASSUME IInv, NEW n \in Nodes, HandleTesting(n)  PROVE IInv'
  <1>. DEFINE p == Head(queue[n])
  <1>1. phase[n] = "testing" /\ queue[n] # <<>> /\ UNCHANGED raced  BY DEF HandleTesting
  <1>2. CASE /\ CandidateTaken(n, p) /\ phase' = [phase EXCEPT ![n] = "settled"] /\ Consume(n)
             /\ UNCHANGED <<our_addr, candidate, picks, used, lookups>>
    BY <1>1, <1>2, GiveUpStep
  <1>3. CASE ~CandidateTaken(n, p) /\ HandleAarpPacket(n, p) /\ UNCHANGED actor
    <2>1. raced' \in BOOLEAN  BY <1>1 DEF IInv, TypeOK
    <2>2. /\ TypeOK' /\ Honest' /\ CacheIsFirstHand' /\ Own' /\ Placed'
          /\ lost' = 0 => lost = 0
          /\ \A m \in Nodes : \A x \in On(m) : x \in On(m)' \/ (m = n /\ x = p)
      BY <1>1, <1>3, <2>1, Handled
    <2>3. UNCHANGED <<phase, our_addr, candidate>>  BY <1>3 DEF actor
    <2>4. \A m \in Nodes : \A b \in NetRange : Claims(m, b)' => Claims(m, b)  BY <2>3 DEF Claims
    <2>5. /\ ~(p.opcode = "Response" /\ p.sender = candidate[n])
          /\ ~(p.opcode = "Probe" /\ p.target = candidate[n])
      BY <1>3 DEF CandidateTaken
    <2>. HIDE DEF p
    <2>6. ASSUME NEW m \in Nodes, NEW k \in Nodes, NEW b \in NetRange,
                 Claims(m, b), Challenged(k, m, b)
          PROVE  Challenged(k, m, b)'
      <3>1. phase'[k] = "testing" /\ candidate'[k] = b /\ candidate[k] = b
        BY <2>3, <2>6 DEF Challenged
      <3>2. CASE Packet("Probe", k, b, b) \in On(m)
        <4>1. m = n => p # Packet("Probe", k, b, b)
          <5>1. ASSUME m = n, p = Packet("Probe", k, b, b)  PROVE FALSE
            <6>1. candidate[n] = b  BY <1>1, <2>6, <5>1 DEF Claims, IInv, Placed
            <6>. QED  BY <2>5, <5>1, <6>1 DEF Packet
          <5>. QED  BY <5>1
        <4>2. Packet("Probe", k, b, b) \in On(m)'  BY <2>2, <3>2, <4>1
        <4>. QED  BY <3>1, <4>2 DEF Challenged
      <3>3. CASE \E x \in On(k) : x.opcode = "Response" /\ x.sender = b
        <4>1. PICK x \in On(k) : x.opcode = "Response" /\ x.sender = b  BY <3>3
        <4>2. k = n => x # p  BY <2>5, <3>1, <4>1
        <4>3. x \in On(k)'  BY <2>2, <4>2
        <4>. QED  BY <3>1, <4>1, <4>3 DEF Challenged
      <3>. QED  BY <2>6, <3>2, <3>3 DEF Challenged
    <2>7. lost' = 0 /\ ~raced' => lost = 0 /\ ~raced  BY <1>1, <2>2
    <2>8. \A m, k \in Nodes : \A b \in NetRange :
             Claims(m, b)' /\ Challenged(k, m, b) => Challenged(k, m, b)'
      BY <2>4, <2>6
    <2>9. Contest'  BY <2>4, <2>7, <2>8, Unclaimed DEF IInv
    <2>. QED  BY <2>2, <2>9 DEF IInv
  <1>. QED  BY <1>2, <1>3 DEF HandleTesting

\* A step that leaves addresses alone and takes no packet off the wire.
LEMMA Calm ==
    ASSUME IInv, TypeOK', UNCHANGED <<phase, our_addr, candidate, used, raced>>, lost' = 0 => lost = 0,
           \A m \in Nodes : \A x \in On(m) : x \in On(m)',
           \A m \in Nodes : \A x \in On(m)' : x \in On(m) \/ x.sender \in used[x.mac],
           \A m \in Nodes : \A a \in Addr :
              cache'[m][a] = cache[m][a] \/ cache'[m][a] \notin Nodes \/ a \in used[cache'[m][a]]
    PROVE  IInv'
  <1>1. Honest' /\ CacheIsFirstHand'  BY FirstHand DEF IInv
  <1>2. Own' /\ Placed'  BY DEF IInv, Own, Placed
  <1>3. \A m \in Nodes : \A b \in NetRange : Claims(m, b)' => Claims(m, b)  BY DEF Claims
  <1>4. \A m, k \in Nodes : \A b \in NetRange : Challenged(k, m, b) => Challenged(k, m, b)'
    BY DEF Challenged
  <1>5. Contest'  BY <1>3, <1>4, Unclaimed DEF IInv
  <1>. QED  BY <1>1, <1>2, <1>5 DEF IInv

LEMMA HandleLookupStep == ASSUME IInv, NEW n \in Nodes, HandleLookup(n)  PROVE IInv'
  <1>. USE DEF IInv
  <1>0. PICK a : a = Head(requests[n])  OBVIOUS
  <1>1. /\ phase[n] \in {"settled", "adopting"} /\ requests[n] # <<>>
        /\ requests' = [requests EXCEPT ![n] = Tail(requests[n])]
        /\ pending' = [pending EXCEPT ![n][a] = pending[n][a] + 1]
        /\ Transmit(Packet("Request", n, our_addr[n], a), Others(n), queue, cache)
        /\ UNCHANGED <<actor, looking, asked, raced>>
    BY <1>0 DEF HandleLookup
  <1>2. a \in Addr /\ requests' \in [Nodes -> Seq(Addr)]
    <2>1. requests[n] \in Seq(Addr)  BY DEF TypeOK
    <2>2. a \in Addr /\ Tail(requests[n]) \in Seq(Addr)  BY <1>0, <1>1, <2>1
    <2>. QED  BY <1>1, <2>2 DEF TypeOK
  <1>3. our_addr[n] \in Addr /\ our_addr[n] \in used[n]  BY <1>1 DEF TypeOK, Own
  <1>4. PICK p : p = Packet("Request", n, our_addr[n], a)  OBVIOUS
  <1>5. /\ p \in PacketType /\ p.mac = n /\ p.sender = our_addr[n]
        /\ Others(n) \in SUBSET Nodes /\ Transmit(p, Others(n), queue, cache)
    BY <1>1, <1>2, <1>3, <1>4, PacketIs DEF Others
  <1>6. /\ queue' \in [Nodes -> Seq(PacketType)]
        /\ cache' \in [Nodes -> [Addr -> Nodes \cup {"unknown", "negative"}]]
        /\ lost' \in 0 .. MaxLoss
        /\ \A m \in Nodes : \A x \in On(m)' : x \in On(m) \/ (x = p /\ m \in Others(n))
        /\ \A m \in Nodes : \A x \in On(m) : x \in On(m)' \/ (queue # queue /\ m = n /\ x = Head(queue[n]))
        /\ lost' = 0 => lost = 0 /\ \A m \in Others(n) : p \in On(m)'
        /\ \A m \in Nodes : \A b \in Addr :
              cache'[m][b] = cache[m][b] \/ (b = p.sender /\ cache'[m][b] = p.mac)
    BY <1>5, Sent
  <1>7. pending' \in [Nodes -> [Addr -> Nat]]
    <2>1. pending \in [Nodes -> [Addr -> Nat]] /\ pending[n][a] + 1 \in Nat  BY <1>2 DEF TypeOK
    <2>2. PICK v : v = pending[n][a] + 1  OBVIOUS
    <2>3. pending' = [pending EXCEPT ![n][a] = v] /\ v \in Nat  BY <1>1, <2>1, <2>2
    <2>. QED  BY <1>2, <2>1, <2>3, SetEntry
  <1>8. TypeOK'  BY <1>1, <1>2, <1>6, <1>7 DEF TypeOK, actor
  <1>9. UNCHANGED <<phase, our_addr, candidate, used, raced>>  BY <1>1 DEF actor
  <1>. QED  BY <1>3, <1>5, <1>6, <1>8, <1>9, Calm

LEMMA LookupStep == ASSUME IInv, NEW n \in Nodes, NEW a \in Addr, Lookup(n, a)  PROVE IInv'
  <1>. USE DEF IInv
  <1>1. /\ asked < MaxLookups /\ asked' = asked + 1
        /\ requests' = [requests EXCEPT ![n] = Append(requests[n], a)]
        /\ looking' = [looking EXCEPT ![n] = looking[n] \cup {a}]
        /\ UNCHANGED <<phase, our_addr, candidate, picks, used, pending, queue, cache, lost, raced>>
    BY DEF Lookup, actor, wire
  <1>2. requests' \in [Nodes -> Seq(Addr)] /\ looking' \in [Nodes -> SUBSET Addr]
    <2>1. Append(requests[n], a) \in Seq(Addr) /\ looking[n] \cup {a} \in SUBSET Addr  BY DEF TypeOK
    <2>. QED  BY <1>1, <2>1 DEF TypeOK
  <1>3. asked' \in 0 .. MaxLookups  BY <1>1, AarpAssumption DEF TypeOK
  <1>4. TypeOK'  BY <1>1, <1>2, <1>3 DEF TypeOK
  <1>5. \A m \in Nodes : On(m)' = On(m)  BY <1>1 DEF On
  <1>. QED  BY <1>1, <1>4, <1>5, Calm

LEMMA TimeoutStep == ASSUME IInv, NEW n \in Nodes, NEW a \in Addr, LookupTimeout(n, a)  PROVE IInv'
  <1>. USE DEF IInv
  <1>1. /\ looking' = [looking EXCEPT ![n] = looking[n] \ {a}]
        /\ cache' = [cache EXCEPT ![n][a] = "negative"]
        /\ UNCHANGED <<phase, our_addr, candidate, picks, used, requests, pending, asked, queue, lost, raced>>
    BY DEF LookupTimeout, actor
  <1>2. looking' \in [Nodes -> SUBSET Addr]
    <2>1. looking[n] \ {a} \in SUBSET Addr  BY DEF TypeOK
    <2>. QED  BY <1>1, <2>1 DEF TypeOK
  <1>3. /\ cache' \in [Nodes -> [Addr -> Nodes \cup {"unknown", "negative"}]]
        /\ \A m \in Nodes : \A b \in Addr : cache'[m][b] = cache[m][b] \/ cache'[m][b] = "negative"
    <2>1. PICK V, v : V = Nodes \cup {"unknown", "negative"} /\ v = "negative"  OBVIOUS
    <2>2. cache \in [Nodes -> [Addr -> V]] /\ v \in V /\ cache' = [cache EXCEPT ![n][a] = v]
      BY <1>1, <2>1 DEF TypeOK
    <2>3. cache' \in [Nodes -> [Addr -> V]]  BY <2>2, SetEntry
    <2>4. \A m \in Nodes, b \in Addr : cache'[m][b] = IF m = n /\ b = a THEN v ELSE cache[m][b]
      BY <2>2, SetEntry
    <2>. QED  BY <2>1, <2>3, <2>4
  <1>4. TypeOK'  BY <1>1, <1>2, <1>3 DEF TypeOK
  <1>5. \A m \in Nodes : On(m)' = On(m)  BY <1>1 DEF On
  <1>6. "negative" \notin Nodes  BY AarpAssumption
  <1>. QED  BY <1>1, <1>3, <1>4, <1>5, <1>6, Calm

LEMMA LearnStep == ASSUME IInv, NEW n \in Nodes, NEW m \in Nodes, Learn(n, m)  PROVE IInv'
  <1>. USE DEF IInv
  <1>1. /\ phase[m] \in {"settled", "testing", "adopting"}
        /\ cache' = [cache EXCEPT ![n][our_addr[m]] = m]
        /\ UNCHANGED <<phase, our_addr, candidate, picks, used, requests, pending, looking, asked,
                       queue, lost, raced>>
    BY DEF Learn, actor, lookups
  <1>2. our_addr[m] \in Addr /\ our_addr[m] \in used[m]  BY <1>1 DEF TypeOK, Own
  <1>3. PICK a : a = our_addr[m]  OBVIOUS
  <1>4. /\ cache' \in [Nodes -> [Addr -> Nodes \cup {"unknown", "negative"}]]
        /\ \A k \in Nodes : \A b \in Addr : cache'[k][b] = cache[k][b] \/ (b = a /\ cache'[k][b] = m)
    <2>1. PICK V : V = Nodes \cup {"unknown", "negative"}  OBVIOUS
    <2>2. cache \in [Nodes -> [Addr -> V]] /\ m \in V /\ a \in Addr /\ cache' = [cache EXCEPT ![n][a] = m]
      BY <1>1, <1>2, <1>3, <2>1 DEF TypeOK
    <2>3. cache' \in [Nodes -> [Addr -> V]]  BY <2>2, SetEntry
    <2>4. \A k \in Nodes, b \in Addr : cache'[k][b] = IF k = n /\ b = a THEN m ELSE cache[k][b]
      BY <2>2, SetEntry
    <2>. QED  BY <2>1, <2>3, <2>4
  <1>5. TypeOK'  BY <1>1, <1>4 DEF TypeOK
  <1>6. \A k \in Nodes : On(k)' = On(k)  BY <1>1 DEF On
  <1>. QED  BY <1>1, <1>2, <1>3, <1>4, <1>5, <1>6, Calm

LEMMA StepInv == IInv /\ [Next]_vars => IInv'
  <1>. SUFFICES ASSUME IInv, [Next]_vars  PROVE IInv'
    OBVIOUS
  <1>1. CASE UNCHANGED vars
    <2>1. UNCHANGED <<phase, our_addr, candidate, picks, used, requests, pending, looking, asked,
                      queue, cache, lost, raced>>
      BY <1>1 DEF vars, actor, lookups, wire
    <2>2. TypeOK'  BY <2>1 DEF IInv, TypeOK
    <2>3. \A m \in Nodes : On(m)' = On(m)  BY <2>1 DEF On
    <2>. QED  BY <2>1, <2>2, <2>3, Calm
  <1>2. ASSUME NEW n \in Nodes, Start(n)  PROVE IInv'
    <2>1. PICK a \in Startup : Probe(n, a, "probing", queue)  BY <1>2 DEF Start
    <2>2. phase[n] = "off" /\ UNCHANGED <<lookups, raced>>  BY <1>2 DEF Start
    <2>3. PICK q : q = queue  OBVIOUS
    <2>. QED  BY <2>1, <2>2, <2>3, StartupSteps
  <1>3. ASSUME NEW n \in Nodes, HandleStartup(n)  PROVE IInv'
    <2>1. phase[n] = "probing" /\ queue[n] # <<>> /\ UNCHANGED <<lookups, raced>>  BY <1>3 DEF HandleStartup
    <2>2. CASE \E a \in Startup : Probe(n, a, "probing", Taken(n))
      <3>1. PICK q : q = Taken(n)  OBVIOUS
      <3>. QED  BY <2>1, <2>2, <3>1, StartupSteps
    <2>3. CASE Consume(n) /\ UNCHANGED actor
      <3>1. queue' = Taken(n) /\ UNCHANGED <<cache, lost, phase, our_addr, candidate, picks, used, raced,
                                             requests, pending, looking, asked>>
        BY <2>1, <2>3 DEF Consume, actor, lookups
      <3>2. TypeOK  BY DEF IInv
      <3>3. /\ queue' \in [Nodes -> Seq(PacketType)]
            /\ \A m \in Nodes : On(m)' \subseteq On(m)
            /\ \A m \in Nodes : \A x \in On(m) : x \in On(m)' \/ m = n
        BY <2>1, <3>1, <3>2, Consumed
      <3>4. TypeOK'  BY <3>1, <3>2, <3>3 DEF TypeOK
      <3>5. Honest' /\ CacheIsFirstHand'  BY <3>1, <3>2, <3>3, FirstHand DEF IInv
      <3>6. Own' /\ Placed'  BY <3>1 DEF IInv, Own, Placed
      <3>7. \A m \in Nodes : \A b \in NetRange : Claims(m, b)' => Claims(m, b) /\ m # n
        <4>1. \A b \in NetRange : ~Claims(n, b)  BY <2>1, <3>2, NoClaim
        <4>. QED  BY <3>1, <4>1 DEF Claims
      <3>8. ASSUME NEW m \in Nodes, NEW k \in Nodes, NEW b \in NetRange,
                   Claims(m, b)', Claims(k, b)', Challenged(k, m, b)
            PROVE  Challenged(k, m, b)'
        <4>1. m # n /\ k # n  BY <3>7, <3>8
        <4>2. (\A x \in On(m) : x \in On(m)') /\ (\A x \in On(k) : x \in On(k)')  BY <3>3, <4>1
        <4>. QED  BY <3>1, <3>8, <4>2 DEF Challenged
      <3>9. Contest'  BY <3>1, <3>7, <3>8, Unclaimed DEF IInv
      <3>. QED  BY <3>4, <3>5, <3>6, <3>9 DEF IInv
    <2>. QED  BY <1>3, <2>2, <2>3 DEF HandleStartup
  <1>4. ASSUME NEW n \in Nodes, Acquire(n) \/ HandleTesting(n) \/ Handle(n)  PROVE IInv'
    BY <1>4, AcquireStep, TestingStep, HandleStep
  <1>5. ASSUME NEW n \in Nodes, Confirm(n) \/ Free(n) \/ SetAddr(n)  PROVE IInv'
    BY <1>5, ConfirmStep, FreeStep, SetAddrStep
  <1>6. ASSUME NEW n \in Nodes, HandleLookup(n)  PROVE IInv'  BY <1>6, HandleLookupStep
  <1>7. ASSUME NEW n \in Nodes, NEW a \in Addr, Lookup(n, a) \/ LookupTimeout(n, a)  PROVE IInv'
    BY <1>7, LookupStep, TimeoutStep
  <1>8. ASSUME NEW n \in Nodes, NEW m \in Nodes, Learn(n, m)  PROVE IInv'  BY <1>8, LearnStep
  <1>. QED  BY <1>1, <1>2, <1>3, <1>4, <1>5, <1>6, <1>7, <1>8 DEF Next

\* The inductive invariant of the cable.
LEMMA Invariant == Spec => []IInv
  BY InitInv, StepInv, PTL DEF Spec

-----------------------------------------------------------------------------
(* What it gives *)

\* Every variable keeps its type, and a node has settled on an address whenever it defends,
\* resolves or moves (run, acquire_in_range).
THEOREM TypesRight == Spec => []TypeOK
  <1>1. IInv => TypeOK  BY DEF IInv
  <1>. QED  BY <1>1, Invariant, PTL

\* acquire_in_range, probe_candidate and set_addr: two nodes share an address of the range
\* only if a frame was lost or a Probe fell into the gap before set_addr.
THEOREM RangeAddressUnique == Spec => []UniqueInRange
  <1>1. IInv => UniqueInRange
    <2>. SUFFICES ASSUME IInv, NEW m \in Nodes, NEW n \in Nodes, Share(m, n), our_addr[n] \in NetRange,
                         lost = 0, ~raced
                  PROVE  FALSE
      BY AarpAssumption DEF UniqueInRange, IInv, TypeOK
    <2>. DEFINE a == our_addr[n]
    <2>1. m # n /\ our_addr[m] = a /\ Claims(m, a) /\ Claims(n, a)  BY DEF Share, Claims
    <2>2. Challenged(m, n, a) \/ Challenged(n, m, a)  BY <2>1 DEF IInv, Contest
    <2>3. phase[m] = "testing" \/ phase[n] = "testing"  BY <2>2 DEF Challenged
    <2>. QED  BY <2>1, <2>3 DEF IInv, Placed
  <1>. QED  BY <1>1, Invariant, PTL

\* received_pkt, learn and handle_aarp_packet: a cached station has probed for its address.
THEOREM CacheFirstHand == Spec => []CacheIsFirstHand
  <1>1. IInv => CacheIsFirstHand  BY DEF IInv
  <1>. QED  BY <1>1, Invariant, PTL

-----------------------------------------------------------------------------
(* Waiting *)

LEMMA ResolveWaits ==
    ASSUME TypeOK, WaiterIsPending, NEW n \in Nodes, NEW p, p.sender \in Addr, Resolve(n, p)
    PROVE  WaiterIsPending'
  <1>1. PICK s : s = p.sender  OBVIOUS
  <1>2. /\ UNCHANGED requests /\ pending' = [pending EXCEPT ![n][s] = 0]
        /\ looking' = IF Requested(n, s) THEN looking ELSE [looking EXCEPT ![n] = looking[n] \ {s}]
    BY <1>1 DEF Resolve
  <1>3. \A m \in Nodes, b \in Addr : pending'[m][b] = IF m = n /\ b = s THEN 0 ELSE pending[m][b]
    <2>1. pending \in [Nodes -> [Addr -> Nat]] /\ 0 \in Nat /\ s \in Addr  BY <1>1 DEF TypeOK
    <2>. QED  BY <1>2, <2>1, SetEntry
  <1>4. \A m \in Nodes, b \in Addr : Requested(m, b)' <=> Requested(m, b)  BY <1>2 DEF Requested
  <1>5. \A m \in Nodes : looking'[m] \subseteq looking[m] /\ looking[m] \in SUBSET Addr
    BY <1>2 DEF TypeOK
  <1>6. s \in looking'[n] => Requested(n, s)  BY <1>2 DEF TypeOK
  <1>7. ASSUME NEW m \in Nodes, NEW b \in looking'[m]  PROVE Requested(m, b)' \/ pending'[m][b] > 0
    <2>1. b \in looking[m] /\ b \in Addr  BY <1>5
    <2>2. CASE m = n /\ b = s  BY <1>4, <1>6, <2>1, <2>2
    <2>3. CASE ~(m = n /\ b = s)
      <3>1. pending'[m][b] = pending[m][b]  BY <1>3, <2>1, <2>3
      <3>. QED  BY <1>4, <2>1, <3>1 DEF WaiterIsPending
    <2>. QED  BY <2>2, <2>3
  <1>. QED  BY <1>7 DEF WaiterIsPending

LEMMA CalmWaits == WaiterIsPending /\ UNCHANGED lookups => WaiterIsPending'
  BY DEF lookups, WaiterIsPending, Requested

LEMMA StepWaits == IInv /\ WaiterIsPending /\ [Next]_vars => WaiterIsPending'
  <1>. SUFFICES ASSUME IInv, WaiterIsPending, [Next]_vars  PROVE WaiterIsPending'
    OBVIOUS
  <1>0. TypeOK  BY DEF IInv
  <1>1. CASE UNCHANGED vars  BY <1>1, CalmWaits DEF vars
  <1>2. ASSUME NEW n \in Nodes, Start(n) \/ HandleStartup(n) \/ Confirm(n) \/ Acquire(n) \/ Free(n) \/ SetAddr(n)
        PROVE  WaiterIsPending'
    <2>1. UNCHANGED lookups  BY <1>2 DEF Start, HandleStartup, Confirm, Acquire, Free, SetAddr
    <2>. QED  BY <2>1, CalmWaits
  <1>3. ASSUME NEW n \in Nodes, queue[n] # <<>>, HandleAarpPacket(n, Head(queue[n]))
        PROVE  WaiterIsPending'
    <2>1. PICK p : p = Head(queue[n])  OBVIOUS
    <2>2. p.sender \in Addr
      <3>1. p \in PacketType  BY <1>0, <1>3, <2>1 DEF TypeOK
      <3>. QED  BY <3>1 DEF PacketType
    <2>. QED  BY <1>0, <1>3, <2>1, <2>2, ResolveWaits, CalmWaits DEF HandleAarpPacket
  <1>4. ASSUME NEW n \in Nodes, Handle(n)  PROVE WaiterIsPending'
    BY <1>3, <1>4 DEF Handle
  <1>5. ASSUME NEW n \in Nodes, HandleTesting(n)  PROVE WaiterIsPending'
    <2>1. UNCHANGED lookups \/ (queue[n] # <<>> /\ HandleAarpPacket(n, Head(queue[n])))
      BY <1>5 DEF HandleTesting
    <2>. QED  BY <1>3, <2>1, CalmWaits
  <1>6. ASSUME NEW n \in Nodes, HandleLookup(n)  PROVE WaiterIsPending'
    <2>1. PICK a, v : a = Head(requests[n]) /\ v = pending[n][a] + 1  OBVIOUS
    <2>2. /\ requests[n] # <<>> /\ requests' = [requests EXCEPT ![n] = Tail(requests[n])]
          /\ pending' = [pending EXCEPT ![n][a] = v] /\ UNCHANGED looking
      BY <1>6, <2>1 DEF HandleLookup
    <2>3. a \in Addr /\ v \in Nat /\ v > 0
      <3>1. requests[n] \in Seq(Addr)  BY <1>0 DEF TypeOK
      <3>2. a \in Addr  BY <2>1, <2>2, <3>1
      <3>. QED  BY <1>0, <2>1, <3>2 DEF TypeOK
    <2>4. \A m \in Nodes, b \in Addr : pending'[m][b] = IF m = n /\ b = a THEN v ELSE pending[m][b]
      <3>1. pending \in [Nodes -> [Addr -> Nat]]  BY <1>0 DEF TypeOK
      <3>. QED  BY <2>2, <2>3, <3>1, SetEntry
    <2>5. ASSUME NEW m \in Nodes, NEW b, Requested(m, b)  PROVE Requested(m, b)' \/ (m = n /\ b = a)
      <3>1. CASE m # n
        <4>1. requests'[m] = requests[m]  BY <2>2, <3>1 DEF TypeOK
        <4>. QED  BY <2>5, <4>1 DEF Requested
      <3>2. CASE m = n
        <4>. DEFINE s == requests[n]
        <4>1. s \in Seq(Addr) /\ s # <<>> /\ requests'[m] = Tail(s)  BY <1>0, <2>2, <3>2 DEF TypeOK
        <4>2. /\ DOMAIN s = 1 .. Len(s) /\ DOMAIN Tail(s) = 1 .. Len(s) - 1 /\ Len(s) \in Nat
              /\ \A i \in 1 .. Len(s) - 1 : Tail(s)[i] = s[i + 1]
              /\ Head(s) = s[1]
          BY <4>1
        <4>3. PICK i \in 1 .. Len(s) : s[i] = b  BY <2>5, <3>2, <4>2 DEF Requested
        <4>4. CASE i = 1  BY <2>1, <3>2, <4>2, <4>3, <4>4
        <4>5. CASE i # 1
          <5>1. i - 1 \in 1 .. Len(s) - 1 /\ Tail(s)[i - 1] = b  BY <4>2, <4>3, <4>5
          <5>. QED  BY <4>1, <4>2, <5>1 DEF Requested
        <4>. QED  BY <4>4, <4>5
      <3>. QED  BY <3>1, <3>2
    <2>6. ASSUME NEW m \in Nodes, NEW b \in looking'[m]  PROVE Requested(m, b)' \/ pending'[m][b] > 0
      <3>1. b \in looking[m] /\ b \in Addr  BY <1>0, <2>2 DEF TypeOK
      <3>2. CASE m = n /\ b = a  BY <2>3, <2>4, <3>2
      <3>3. CASE ~(m = n /\ b = a)
        <4>1. pending'[m][b] = pending[m][b]  BY <2>4, <3>1, <3>3
        <4>. QED  BY <2>5, <3>1, <3>3, <4>1 DEF WaiterIsPending
      <3>. QED  BY <3>2, <3>3
    <2>. QED  BY <2>6 DEF WaiterIsPending
  <1>7. ASSUME NEW n \in Nodes, NEW a \in Addr, Lookup(n, a)  PROVE WaiterIsPending'
    <2>1. /\ requests' = [requests EXCEPT ![n] = Append(requests[n], a)]
          /\ looking' = [looking EXCEPT ![n] = looking[n] \cup {a}] /\ UNCHANGED pending
      BY <1>7 DEF Lookup
    <2>2. \A m \in Nodes, b \in Addr : Requested(m, b) => Requested(m, b)'
      <3>1. ASSUME NEW m \in Nodes
            PROVE  \A i \in DOMAIN requests[m] : i \in DOMAIN requests'[m] /\ requests'[m][i] = requests[m][i]
        <4>1. requests[m] \in Seq(Addr)  BY <1>0 DEF TypeOK
        <4>2. requests'[m] = requests[m] \/ requests'[m] = Append(requests[m], a)
          BY <1>0, <2>1 DEF TypeOK
        <4>3. CASE requests'[m] = requests[m]  BY <4>3
        <4>4. CASE requests'[m] = Append(requests[m], a)  BY <4>1, <4>4
        <4>. QED  BY <4>2, <4>3, <4>4
      <3>. QED  BY <3>1 DEF Requested
    <2>3. Requested(n, a)'
      <3>1. requests[n] \in Seq(Addr) /\ requests'[n] = Append(requests[n], a)  BY <1>0, <2>1 DEF TypeOK
      <3>2. Len(requests[n]) + 1 \in DOMAIN requests'[n] /\ requests'[n][Len(requests[n]) + 1] = a  BY <3>1
      <3>. QED  BY <3>2 DEF Requested
    <2>4. \A m \in Nodes : \A b \in looking'[m] : b \in Addr /\ (b \in looking[m] \/ (m = n /\ b = a))
      BY <1>0, <2>1 DEF TypeOK
    <2>. QED  BY <2>1, <2>2, <2>3, <2>4 DEF WaiterIsPending
  <1>8. ASSUME NEW n \in Nodes, NEW a \in Addr, LookupTimeout(n, a)  PROVE WaiterIsPending'
    <2>1. looking' = [looking EXCEPT ![n] = looking[n] \ {a}] /\ UNCHANGED <<requests, pending>>
      BY <1>8 DEF LookupTimeout
    <2>2. \A m \in Nodes : looking'[m] \subseteq looking[m]  BY <1>0, <2>1 DEF TypeOK
    <2>. QED  BY <2>1, <2>2 DEF WaiterIsPending, Requested
  <1>9. ASSUME NEW n \in Nodes, NEW m \in Nodes, Learn(n, m)  PROVE WaiterIsPending'
    BY <1>9, CalmWaits DEF Learn
  <1>. QED  BY <1>1, <1>2, <1>4, <1>5, <1>6, <1>7, <1>8, <1>9 DEF Next

\* lookup: a caller that waits has a command the actor has yet to take or a request that a
\* Response can still answer.
THEOREM WaitersPending == Spec => []WaiterIsPending
  <1>1. Init => WaiterIsPending  BY DEF Init, WaiterIsPending
  <1>. QED  BY <1>1, Invariant, StepWaits, PTL DEF Spec
=============================================================================
