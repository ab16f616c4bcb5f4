------------------------------ MODULE PapProofs ------------------------------
(***************************************************************************)
(* Theorems about Pap: what is printed over the network is what the        *)
(* clients handed out (ImplementsSpool), and the port holds no more than   *)
(* its window and one reply more (HeldBounded), both as long as no two     *)
(* clients have one socket.                                                *)
(*                                                                         *)
(* The invariant follows a chunk from the client's cache to the log:       *)
(*   Opening    which connections were opened, and which are asked for;    *)
(*   Pulling    the session's pull is in one place, and numbered as the    *)
(*              session is;                                                *)
(*   Counting   how many chunks were handed out and taken, and what the    *)
(*              client remembers of the last answers;                      *)
(*   Streaming  the events and bytes in the port continue the log, from    *)
(*              the state it shows to the state the session is in;         *)
(*   Port       what the window lets in, and where in the queue it is.     *)
(* Each action is first reduced to what it does to these parts (the ...    *)
(* Step lemmas), then each part is kept by each group of actions.          *)
(***************************************************************************)
EXTENDS Pap, TLAPS, SequenceTheorems, FiniteSetTheorems

-----------------------------------------------------------------------------
(* Types *)

Kinds == {"start", "chunk", "rename", "eof", "end", "query"}

ItemType  == [kind : Kinds, conn : 0 .. MaxConns, num : Nat]
EventType == [item : ItemType, ahead : Nat]
PortType  == [queue : Seq(ItemType), writing : Nat, events : Seq(EventType)]
PullType  == [tid : Nat \ {0}, id : {SocketOf[n] : n \in Conns}, seq : 1 .. MaxSeq]
ReplyType == [eof : BOOLEAN, item : ItemType \cup {None}]

Seen(l, k, n) == Spool!Seen(l, k, n)
Out(l, n)     == Spool!Out(l, n)
Live(l, n)    == Spool!Live(l, n)
Queried(l, n) == Spool!Queried(l, n)

Query == Item("query", 0, 0)

-----------------------------------------------------------------------------
(* The log grows at its end *)

\* Log k is log l and more.
Longer(k, l) ==
    /\ k \in Seq(ItemType) /\ l \in Seq(ItemType)
    /\ Len(l) <= Len(k)
    /\ \A i \in 1 .. Len(l) : k[i] = l[i]

Printed(e, n) == e.conn = n /\ e.kind \in {"chunk", "rename"}

\* What is seen in the longer log.
LEMMA SeenLonger ==
    ASSUME NEW k, NEW l, Longer(k, l), NEW kind, NEW n
    PROVE  Seen(k, kind, n) <=> Seen(l, kind, n) \/ \E i \in Len(l) + 1 .. Len(k) : k[i].kind = kind /\ k[i].conn = n
  <1>1. /\ Len(k) \in Nat /\ Len(l) \in Nat /\ DOMAIN k = 1 .. Len(k) /\ DOMAIN l = 1 .. Len(l)
        /\ Len(l) <= Len(k) /\ \A i \in 1 .. Len(l) : k[i] = l[i]
    BY DEF Longer
  <1>2. Seen(k, kind, n) <=> \E i \in 1 .. Len(k) : k[i].kind = kind /\ k[i].conn = n
    BY <1>1 DEF Seen, Spool!Seen
  <1>3. Seen(l, kind, n) <=> \E i \in 1 .. Len(l) : l[i].kind = kind /\ l[i].conn = n
    BY <1>1 DEF Seen, Spool!Seen
  <1>4. \A i \in 1 .. Len(k) : i \in 1 .. Len(l) \/ i \in Len(l) + 1 .. Len(k)
    BY <1>1
  <1>5. \A i : i \in 1 .. Len(l) \/ i \in Len(l) + 1 .. Len(k) => i \in 1 .. Len(k)
    BY <1>1
  <1>6. ASSUME Seen(k, kind, n)
        PROVE  Seen(l, kind, n) \/ \E i \in Len(l) + 1 .. Len(k) : k[i].kind = kind /\ k[i].conn = n
    <2>1. PICK i \in 1 .. Len(k) : k[i].kind = kind /\ k[i].conn = n  BY <1>2, <1>6
    <2>2. CASE i \in 1 .. Len(l)
      <3>1. k[i] = l[i]  BY <1>1, <2>2
      <3>. QED  BY <1>3, <2>1, <2>2, <3>1
    <2>3. CASE i \in Len(l) + 1 .. Len(k)  BY <2>1, <2>3
    <2>. QED  BY <1>4, <2>2, <2>3
  <1>7. ASSUME Seen(l, kind, n) PROVE Seen(k, kind, n)
    <2>1. PICK i \in 1 .. Len(l) : l[i].kind = kind /\ l[i].conn = n  BY <1>3, <1>7
    <2>2. k[i] = l[i] /\ i \in 1 .. Len(k)  BY <1>1, <1>5, <2>1
    <2>. QED  BY <1>2, <2>1, <2>2
  <1>8. ASSUME NEW i \in Len(l) + 1 .. Len(k), k[i].kind = kind, k[i].conn = n PROVE Seen(k, kind, n)
    BY <1>2, <1>5, <1>8
  <1>. QED  BY <1>6, <1>7, <1>8

\* What has come out in the longer log.
LEMMA OutLonger ==
    ASSUME NEW k, NEW l, Longer(k, l), NEW n
    PROVE  \A o : o \in Out(k, n) <=>
                 \/ o \in Out(l, n)
                 \/ \E i \in Len(l) + 1 .. Len(k) : Printed(k[i], n) /\ o = k[i].num
  <1>1. /\ Len(k) \in Nat /\ Len(l) \in Nat /\ DOMAIN k = 1 .. Len(k) /\ DOMAIN l = 1 .. Len(l)
        /\ Len(l) <= Len(k) /\ \A i \in 1 .. Len(l) : k[i] = l[i]
    BY DEF Longer
  <1>2. \A i : i \in 1 .. Len(k) <=> i \in 1 .. Len(l) \/ i \in Len(l) + 1 .. Len(k)
    BY <1>1
  <1>3. \A o : o \in Out(k, n) <=> \E i \in 1 .. Len(k) : Printed(k[i], n) /\ o = k[i].num
    BY <1>1 DEF Out, Spool!Out, Printed
  <1>4. \A o : o \in Out(l, n) <=> \E i \in 1 .. Len(l) : Printed(l[i], n) /\ o = l[i].num
    BY <1>1 DEF Out, Spool!Out, Printed
  <1>. QED  BY <1>1, <1>2, <1>3, <1>4

\* Nothing of n was added.
LEMMA OutSame ==
    ASSUME NEW k, NEW l, Longer(k, l), NEW n, \A i \in Len(l) + 1 .. Len(k) : ~Printed(k[i], n)
    PROVE  Out(k, n) = Out(l, n)
  BY OutLonger

\* The next chunks of n were added.
LEMMA OutMore ==
    ASSUME NEW k, NEW l, Longer(k, l), NEW n, NEW o \in Nat, Out(l, n) = 1 .. o,
           \A i \in Len(l) + 1 .. Len(k) : Printed(k[i], n) /\ k[i].num = o + i - Len(l)
    PROVE  Out(k, n) = 1 .. o + Len(k) - Len(l)
  <1>1. Len(k) \in Nat /\ Len(l) \in Nat /\ Len(l) <= Len(k)
    BY DEF Longer
  <1>2. ASSUME NEW x, x \in Out(k, n) PROVE x \in 1 .. o + Len(k) - Len(l)
    <2>1. x \in 1 .. o \/ \E i \in Len(l) + 1 .. Len(k) : x = o + i - Len(l)  BY <1>2, OutLonger
    <2>. QED  BY <1>1, <2>1
  <1>3. ASSUME NEW x \in 1 .. o + Len(k) - Len(l) PROVE x \in Out(k, n)
    <2>1. CASE x <= o  BY <1>1, <2>1, OutLonger
    <2>2. CASE x > o
      <3>1. PICK i \in Len(l) + 1 .. Len(k) : x = o + i - Len(l)
        <4>1. x - o + Len(l) \in Len(l) + 1 .. Len(k) /\ x = o + (x - o + Len(l)) - Len(l)  BY <1>1, <2>2
        <4>. QED  BY <4>1
      <3>2. Printed(k[i], n) /\ x = k[i].num  BY <3>1
      <3>. QED  BY <3>1, <3>2, OutLonger
    <2>. QED  BY <1>1, <2>1, <2>2
  <1>. QED  BY <1>2, <1>3

\* A connection is queried by what is added only if a query is added behind its start.
LEMMA QueriedLonger ==
    ASSUME NEW k, NEW l, Longer(k, l), NEW n, Queried(k, n), ~Queried(l, n)
    PROVE  \E i \in Len(l) + 1 .. Len(k) :
              k[i] = Query /\ \E j \in 1 .. i - 1 : k[j] = Item("start", n, 0)
  <1>1. /\ Len(k) \in Nat /\ Len(l) \in Nat /\ DOMAIN k = 1 .. Len(k) /\ DOMAIN l = 1 .. Len(l)
        /\ Len(l) <= Len(k) /\ \A i \in 1 .. Len(l) : k[i] = l[i]
    BY DEF Longer
  <1>2. PICK i \in 1 .. Len(k), j \in 1 .. Len(k) : i < j /\ k[i] = Item("start", n, 0) /\ k[j] = Query
    BY <1>1 DEF Queried, Spool!Queried, Spool!Query, Spool!Item, Query, Item
  <1>3. CASE j \in Len(l) + 1 .. Len(k)
    <2>1. i \in 1 .. j - 1  BY <1>1, <1>2
    <2>. QED  BY <1>2, <1>3, <2>1
  <1>4. CASE j \in 1 .. Len(l)
    <2>1. i \in 1 .. Len(l)  BY <1>1, <1>2, <1>4
    <2>2. l[i] = Item("start", n, 0) /\ l[j] = Query  BY <1>1, <1>2, <1>4, <2>1
    <2>3. Queried(l, n)
      BY <1>1, <1>2, <1>4, <2>1, <2>2 DEF Queried, Spool!Queried, Spool!Query, Spool!Item, Query, Item
    <2>. QED  BY <2>3
  <1>5. j \in 1 .. Len(l) \/ j \in Len(l) + 1 .. Len(k)  BY <1>1
  <1>. QED  BY <1>3, <1>4, <1>5

-----------------------------------------------------------------------------
(* What is on its way to the log *)

States == [live : 0 .. MaxConns, out : Nat]

\* Log l shows connection s.live, s.out chunks of which have come out.
LogIs(l, s) ==
    /\ \A m \in Conns : Live(l, m) <=> m = s.live
    /\ s.live # 0 => Out(l, s.live) = 1 .. s.out
    /\ \A m \in Conns : ~Seen(l, "start", m) => ~Seen(l, "end", m) /\ Out(l, m) = {}

\* Event e may come in state s, when h[n] chunks of connection n were handed out.
MayCome(h, s, e) ==
    \/ s.live = 0 /\ \E n \in Conns : e = Item("start", n, 0)
    \/ /\ s.live # 0
       /\ \/ e = Item("rename", s.live, s.out + 1) /\ s.out % JobLen = 0 /\ s.out + 1 <= h[s.live]
          \/ e = Item("eof", s.live, 0) /\ s.out > 0 /\ s.out % JobLen = 0 /\ s.out <= h[s.live]
          \/ e = Item("end", s.live, 0)

\* The state that event e leaves.
Then(s, e) ==
    [live |-> IF e.kind = "start" THEN e.conn ELSE IF e.kind = "end" THEN 0 ELSE s.live,
     out  |-> IF e.kind \in {"start", "end"} THEN 0 ELSE IF e.kind = "rename" THEN s.out + 1 ELSE s.out]

More(s, c) == [live |-> s.live, out |-> s.out + c]

\* The state in which event j comes: the c chunks of the queue come between events z and z + 1.
Before(st, z, c, j) == IF j = z + 1 THEN More(st[j - 1], c) ELSE st[j - 1]

\* The queue holds c chunks, then queries.  The chunks come when the events that wait for
\* nothing were reported, and ahead of the others.
Bytes(p, l, h, s, z, c) ==
    /\ c \in 0 .. Len(p.queue)
    /\ \A i \in 1 .. Len(p.queue) : p.queue[i] = IF i <= c THEN Item("chunk", s.live, s.out + i) ELSE Query
    /\ c > 0 =>
          /\ s.live # 0 /\ s.out + c <= h[s.live] /\ ~Queried(l, s.live)
          /\ \A j \in 1 .. Len(p.events) :
                IF j <= z THEN p.events[j].ahead = 0 ELSE p.events[j].ahead >= p.writing + c

Events(p, h, st, z, c) ==
    \A j \in 1 .. Len(p.events) :
        /\ MayCome(h, Before(st, z, c, j), p.events[j].item)
        /\ st[j] = Then(Before(st, z, c, j), p.events[j].item)

\* From what log l shows, through all that port p holds, to state s.
Stream(p, l, h, s, st, z, c) ==
    /\ st \in [0 .. Len(p.events) -> States] /\ z \in 0 .. Len(p.events)
    /\ LogIs(l, st[0])
    /\ Bytes(p, l, h, st[z], z, c)
    /\ Events(p, h, st, z, c)
    /\ Before(st, z, c, Len(p.events) + 1) = s

Streams(p, l, h, s) ==
    \E st \in [0 .. Len(p.events) -> States], z, c \in Nat : Stream(p, l, h, s, st, z, c)

\* Putting an item into the port: bytes join the queue, an event waits behind what is held.
LEMMA PutPort ==
    ASSUME NEW p \in PortType, NEW e \in ItemType
    PROVE  /\ Put(p, e) \in PortType
           /\ Put(p, e).writing = p.writing
           /\ e.kind \in {"chunk", "query"} =>
                 Put(p, e).queue = Append(p.queue, e) /\ Put(p, e).events = p.events
           /\ e.kind \notin {"chunk", "query"} =>
                 /\ Put(p, e).queue = p.queue
                 /\ Put(p, e).events = Append(p.events, [item |-> e, ahead |-> Held(p)])
  <1>1. /\ p.queue \in Seq(ItemType) /\ p.writing \in Nat /\ p.events \in Seq(EventType)
        /\ p = [queue |-> p.queue, writing |-> p.writing, events |-> p.events]
    BY DEF PortType
  <1>2. Held(p) \in Nat  BY <1>1 DEF Held
  <1>3. CASE e.kind \in {"chunk", "query"}
    <2>1. Append(p.queue, e) \in Seq(ItemType)  BY <1>1
    <2>2. Put(p, e) = [queue |-> Append(p.queue, e), writing |-> p.writing, events |-> p.events]
      BY <1>1, <1>3 DEF Put
    <2>. QED  BY <1>1, <1>3, <2>1, <2>2 DEF PortType
  <1>4. CASE e.kind \notin {"chunk", "query"}
    <2>1. [item |-> e, ahead |-> Held(p)] \in EventType  BY <1>2 DEF EventType
    <2>2. Append(p.events, [item |-> e, ahead |-> Held(p)]) \in Seq(EventType)  BY <1>1, <2>1
    <2>3. Put(p, e) = [queue |-> p.queue, writing |-> p.writing,
                       events |-> Append(p.events, [item |-> e, ahead |-> Held(p)])]
      BY <1>1, <1>4 DEF Put
    <2>. QED  BY <1>1, <1>4, <2>2, <2>3 DEF PortType
  <1>. QED  BY <1>3, <1>4

\* An event that may come leaves a state.
LEMMA ThenType ==
    ASSUME NEW h, NEW s \in States, NEW e \in ItemType, MayCome(h, s, e)
    PROVE  Then(s, e) \in States /\ e.kind \notin {"chunk", "query"}
  <1>1. s.live \in 0 .. MaxConns /\ s.out \in Nat /\ e.conn \in 0 .. MaxConns  BY DEF States, ItemType
  <1>2. e.kind \in {"start", "rename", "eof", "end"}  BY DEF MayCome, Item
  <1>. DEFINE v == IF e.kind = "start" THEN e.conn ELSE IF e.kind = "end" THEN 0 ELSE s.live
              o == IF e.kind \in {"start", "end"} THEN 0 ELSE IF e.kind = "rename" THEN s.out + 1 ELSE s.out
  <1>3. v \in 0 .. MaxConns  BY <1>1, <1>2, PapAssumption DEF PapAssumption
  <1>4. o \in Nat  BY <1>1
  <1>5. Then(s, e) = [live |-> v, out |-> o]  BY DEF Then
  <1>. HIDE DEF v, o
  <1>. QED  BY <1>2, <1>3, <1>4, <1>5 DEF States

\* What comes before an event is a state.
LEMMA BeforeType ==
    ASSUME NEW N \in Nat, NEW st \in [0 .. N -> States], NEW z, NEW c \in Nat, NEW j \in 1 .. N + 1
    PROVE  Before(st, z, c, j) \in States
  <1>1. st[j - 1] \in States  OBVIOUS
  <1>. QED  BY <1>1 DEF Before, More, States

\* An event that may come behind all that the port holds.
LEMMA PutEvent ==
    ASSUME NEW p \in PortType, NEW l, NEW h, NEW s, Streams(p, l, h, s),
           NEW e \in ItemType, MayCome(h, s, e)
    PROVE  Streams(Put(p, e), l, h, Then(s, e))
  <1>. DEFINE N == Len(p.events)
              q == Put(p, e)
  <1>1. PICK st \in [0 .. N -> States], z \in Nat, c \in Nat : Stream(p, l, h, s, st, z, c)
    BY DEF Streams
  <1>2. /\ p.queue \in Seq(ItemType) /\ p.writing \in Nat /\ p.events \in Seq(EventType) /\ N \in Nat
    BY DEF PortType
  <1>3. s = Before(st, z, c, N + 1) /\ s \in States  BY <1>1, <1>2, BeforeType DEF Stream
  <1>4. Then(s, e) \in States /\ e.kind \notin {"chunk", "query"}  BY <1>3, ThenType
  <1>5. /\ q.queue = p.queue /\ q.writing = p.writing
        /\ q.events = Append(p.events, [item |-> e, ahead |-> Held(p)])
    BY <1>4, PutPort
  <1>. HIDE DEF q
  <1>6. /\ Len(q.events) = N + 1
        /\ \A j \in 1 .. N : q.events[j] = p.events[j]
        /\ q.events[N + 1].item = e /\ q.events[N + 1].ahead = Held(p)
    BY <1>2, <1>5
  <1>. DEFINE tt == [j \in 0 .. N + 1 |-> IF j = N + 1 THEN Then(s, e) ELSE st[j]]
  <1>7. tt \in [0 .. N + 1 -> States]  BY <1>4
  <1>8. (\A j \in 0 .. N : tt[j] = st[j]) /\ tt[N + 1] = Then(s, e)  BY <1>2
  <1>. HIDE DEF tt
  <1>9. \A j \in 1 .. N + 1 : Before(tt, z, c, j) = Before(st, z, c, j)
    <2>1. \A j \in 1 .. N + 1 : tt[j - 1] = st[j - 1]  BY <1>2, <1>8
    <2>. QED  BY <2>1 DEF Before
  <1>10. z \in 0 .. N /\ LogIs(l, tt[0])  BY <1>1, <1>2, <1>8 DEF Stream
  <1>11. Bytes(q, l, h, tt[z], z, c)
    <2>1. Bytes(p, l, h, st[z], z, c) /\ tt[z] = st[z]  BY <1>1, <1>8, <1>10 DEF Stream
    <2>2. c > 0 => N + 1 > z /\ q.events[N + 1].ahead >= p.writing + c
      BY <1>2, <1>6, <1>10, <2>1 DEF Bytes, Held
    <2>3. c > 0 => \A j \in 1 .. N + 1 :
                      IF j <= z THEN q.events[j].ahead = 0 ELSE q.events[j].ahead >= q.writing + c
      <3>1. \A j \in 1 .. N + 1 : j \in 1 .. N \/ j = N + 1  BY <1>2
      <3>2. N + 1 > z => ~(N + 1 <= z)  BY <1>2, <1>10
      <3>. QED  BY <1>5, <1>6, <2>1, <2>2, <3>1, <3>2 DEF Bytes
    <2>. QED  BY <1>5, <1>6, <2>1, <2>3 DEF Bytes
  <1>12. Events(q, h, tt, z, c)
    <2>1. \A j \in 1 .. N : /\ MayCome(h, Before(tt, z, c, j), q.events[j].item)
                            /\ tt[j] = Then(Before(tt, z, c, j), q.events[j].item)
      <3>1. \A j \in 1 .. N : /\ MayCome(h, Before(st, z, c, j), p.events[j].item)
                              /\ st[j] = Then(Before(st, z, c, j), p.events[j].item)
        BY <1>1 DEF Stream, Events
      <3>2. \A j \in 1 .. N : tt[j] = st[j] /\ Before(tt, z, c, j) = Before(st, z, c, j)
        BY <1>2, <1>8, <1>9
      <3>. QED  BY <1>6, <3>1, <3>2
    <2>2. /\ MayCome(h, Before(tt, z, c, N + 1), q.events[N + 1].item)
          /\ tt[N + 1] = Then(Before(tt, z, c, N + 1), q.events[N + 1].item)
      BY <1>2, <1>3, <1>6, <1>8, <1>9
    <2>3. \A j \in 1 .. N + 1 : j \in 1 .. N \/ j = N + 1  BY <1>2
    <2>. QED  BY <1>6, <2>1, <2>2, <2>3 DEF Events
  <1>13. Before(tt, z, c, N + 1 + 1) = Then(s, e)
    <2>1. N + 1 + 1 # z + 1 /\ N + 1 + 1 - 1 = N + 1  BY <1>2, <1>10
    <2>. QED  BY <1>8, <2>1 DEF Before
  <1>14. Stream(q, l, h, Then(s, e), tt, z, c)
    <2>1. z \in 0 .. N + 1  BY <1>2, <1>10
    <2>. QED  BY <1>6, <1>7, <1>10, <1>11, <1>12, <1>13, <2>1 DEF Stream
  <1>15. tt \in [0 .. Len(q.events) -> States]  BY <1>6, <1>7
  <1>. QED  BY <1>14, <1>15 DEF Streams, q

\* The last chunk handed out, when the port holds nothing but chunks, and no event behind one.
LEMMA PutChunk ==
    ASSUME NEW p \in PortType, NEW l, NEW h, NEW s, Streams(p, l, h, s),
           \A j \in 1 .. Len(p.events) : p.events[j].ahead = 0,
           \A i \in 1 .. Len(p.queue) : p.queue[i].kind = "chunk",
           NEW e \in ItemType, e = Item("chunk", s.live, s.out + 1),
           s.live # 0, s.out + 1 <= h[s.live], ~Queried(l, s.live)
    PROVE  Streams(Put(p, e), l, h, More(s, 1))
  <1>. DEFINE N == Len(p.events)
              C == Len(p.queue)
              q == Put(p, e)
  <1>1. PICK st \in [0 .. N -> States], z \in Nat, c \in Nat : Stream(p, l, h, s, st, z, c)
    BY DEF Streams
  <1>2. /\ p.queue \in Seq(ItemType) /\ p.writing \in Nat /\ p.events \in Seq(EventType)
        /\ N \in Nat /\ C \in Nat
    BY DEF PortType
  <1>3. s = Before(st, z, c, N + 1) /\ s \in States
    <2>1. N + 1 \in 1 .. N + 1  BY <1>2
    <2>2. Before(st, z, c, N + 1) \in States  BY <1>1, <1>2, <2>1, BeforeType
    <2>. QED  BY <1>1, <2>2 DEF Stream
  <1>4. e.kind = "chunk"  BY DEF Item
  <1>5. q.queue = Append(p.queue, e) /\ q.writing = p.writing /\ q.events = p.events  BY <1>4, PutPort
  <1>. HIDE DEF q
  <1>6. /\ Len(q.queue) = C + 1 /\ q.queue[C + 1] = e
        /\ \A i \in 1 .. C : q.queue[i] = p.queue[i]
    BY <1>2, <1>5
  <1>7. Bytes(p, l, h, st[z], z, c) /\ Events(p, h, st, z, c) /\ LogIs(l, st[0]) /\ z \in 0 .. N
    BY <1>1 DEF Stream
  <1>8. c = C
    <2>1. c \in 0 .. C /\ (c < C => p.queue[C] = Query)  BY <1>2, <1>7 DEF Bytes
    <2>2. Query.kind # "chunk"  BY DEF Query, Item
    <2>. QED  BY <1>2, <2>1, <2>2
  <1>9. c > 0 => z = N
    <2>1. c > 0 /\ z < N => p.events[z + 1].ahead >= p.writing + c /\ p.events[z + 1].ahead = 0
      BY <1>2, <1>7 DEF Bytes
    <2>. QED  BY <1>2, <1>7, <2>1
  <1>10. \A j \in 1 .. N : Before(st, N, c + 1, j) = st[j - 1]  BY <1>2 DEF Before
  <1>11. \A j \in 1 .. N : Before(st, z, c, j) = st[j - 1]
    <2>1. CASE c > 0  BY <1>2, <1>9, <2>1 DEF Before
    <2>2. CASE c = 0
      <3>1. \A j \in 1 .. N : st[j - 1] \in States  BY <1>1, <1>2
      <3>2. ASSUME NEW u \in States PROVE More(u, 0) = u  BY DEF More, States
      <3>. QED  BY <2>2, <3>1, <3>2 DEF Before
    <2>. QED  BY <2>1, <2>2
  <1>12. st[N] \in States /\ s = More(st[N], c)
    <2>1. st[N] \in States  BY <1>1, <1>2
    <2>2. CASE c > 0
      <3>. N + 1 - 1 = N  BY <1>2
      <3>. QED  BY <1>3, <1>9, <2>1, <2>2 DEF Before
    <2>3. CASE c = 0
      <3>1. N + 1 - 1 = N  BY <1>2
      <3>2. s = More(st[N], 0) \/ s = st[N]  BY <1>3, <2>3, <3>1 DEF Before
      <3>3. More(st[N], 0) = st[N]  BY <2>1 DEF More, States
      <3>. QED  BY <2>1, <2>3, <3>2, <3>3
    <2>. QED  BY <2>1, <2>2, <2>3
  <1>13. s.live = st[N].live /\ s.out = st[N].out + c  BY <1>12 DEF More
  <1>14. st[N].out \in Nat  BY <1>12 DEF States
  <1>15. Bytes(q, l, h, st[N], N, c + 1)
    <2>1. \A i \in 1 .. C : q.queue[i] = Item("chunk", st[N].live, st[N].out + i)
      <3>1. CASE C = 0  BY <3>1
      <3>2. CASE C > 0
        <4>1. z = N /\ \A i \in 1 .. C : p.queue[i] = Item("chunk", st[N].live, st[N].out + i)
          BY <1>2, <1>7, <1>8, <1>9, <3>2 DEF Bytes
        <4>. QED  BY <1>6, <4>1
      <3>. QED  BY <1>2, <3>1, <3>2
    <2>2. q.queue[C + 1] = Item("chunk", st[N].live, st[N].out + (C + 1))
      <3>1. s.out + 1 = st[N].out + (C + 1)  BY <1>2, <1>8, <1>13, <1>14
      <3>. QED  BY <1>6, <1>13, <3>1
    <2>3. \A i \in 1 .. C + 1 : i \in 1 .. C \/ i = C + 1  BY <1>2
    <2>4. st[N].live # 0 /\ st[N].out + (c + 1) <= h[st[N].live] /\ ~Queried(l, st[N].live)
      <3>1. s.out + 1 = st[N].out + (c + 1)  BY <1>2, <1>8, <1>13, <1>14
      <3>. QED  BY <1>13, <3>1
    <2>5. \A j \in 1 .. N : q.events[j].ahead = 0  BY <1>5
    <2>. QED  BY <1>2, <1>5, <1>6, <1>8, <2>1, <2>2, <2>3, <2>4, <2>5 DEF Bytes
  <1>16. Events(q, h, st, N, c + 1)
    BY <1>2, <1>5, <1>7, <1>10, <1>11 DEF Events
  <1>17. Before(st, N, c + 1, N + 1) = More(s, 1)
    <2>1. N + 1 - 1 = N  BY <1>2
    <2>2. st[N].out + (c + 1) = s.out + 1  BY <1>1, <1>13, <1>14
    <2>. QED  BY <1>13, <2>1, <2>2 DEF Before, More
  <1>18. Stream(q, l, h, More(s, 1), st, N, c + 1)
    BY <1>1, <1>2, <1>5, <1>7, <1>15, <1>16, <1>17 DEF Stream
  <1>. QED  BY <1>1, <1>2, <1>5, <1>8, <1>18 DEF Streams, q

\* A query behind all that is queued.
LEMMA PutQuery ==
    ASSUME NEW p \in PortType, NEW l, NEW h, NEW s, Streams(p, l, h, s)
    PROVE  Streams(Put(p, Query), l, h, s)
  <1>. DEFINE N == Len(p.events)
              C == Len(p.queue)
              q == Put(p, Query)
  <1>1. PICK st \in [0 .. N -> States], z \in Nat, c \in Nat : Stream(p, l, h, s, st, z, c)
    BY DEF Streams
  <1>2. /\ p.queue \in Seq(ItemType) /\ p.writing \in Nat /\ p.events \in Seq(EventType)
        /\ N \in Nat /\ C \in Nat
    BY DEF PortType
  <1>3. Query \in ItemType /\ Query.kind = "query"  BY PapAssumption DEF PapAssumption, Query, Item, ItemType, Kinds
  <1>4. q.queue = Append(p.queue, Query) /\ q.writing = p.writing /\ q.events = p.events  BY <1>3, PutPort
  <1>. HIDE DEF q
  <1>5. /\ Len(q.queue) = C + 1 /\ q.queue[C + 1] = Query
        /\ \A i \in 1 .. C : q.queue[i] = p.queue[i]
    BY <1>2, <1>3, <1>4
  <1>6. Bytes(p, l, h, st[z], z, c)  BY <1>1 DEF Stream
  <1>7. Bytes(q, l, h, st[z], z, c)
    <2>1. \A i \in 1 .. C + 1 : i \in 1 .. C \/ (i = C + 1 /\ ~(i <= c))  BY <1>2, <1>6 DEF Bytes
    <2>2. c \in 0 .. C + 1  BY <1>2, <1>6 DEF Bytes
    <2>. QED  BY <1>4, <1>5, <1>6, <2>1, <2>2 DEF Bytes
  <1>8. Stream(q, l, h, s, st, z, c)  BY <1>1, <1>4, <1>7 DEF Stream, Events
  <1>. QED  BY <1>1, <1>4, <1>8 DEF Streams, q

\* More is handed out.
LEMMA HandedMore ==
    ASSUME NEW p \in PortType, NEW l, NEW h \in [Conns -> Nat], NEW g \in [Conns -> Nat],
           \A n \in Conns : h[n] <= g[n],
           NEW s, Streams(p, l, h, s)
    PROVE  Streams(p, l, g, s)
  <1>. DEFINE N == Len(p.events)
  <1>1. PICK st \in [0 .. N -> States], z \in Nat, c \in Nat : Stream(p, l, h, s, st, z, c)
    BY DEF Streams
  <1>2. N \in Nat  BY DEF PortType
  <1>3. ASSUME NEW u \in States, u.live # 0
        PROVE  /\ u.live \in Conns /\ u.out \in Nat
               /\ \A k \in Nat : u.out + k <= h[u.live] => u.out + k <= g[u.live]
    <2>1. u.live \in Conns /\ u.out \in Nat  BY <1>3, PapAssumption DEF PapAssumption, States, Conns
    <2>2. h[u.live] <= g[u.live] /\ h[u.live] \in Nat /\ g[u.live] \in Nat  BY <2>1
    <2>. QED  BY <2>1, <2>2
  <1>4. ASSUME NEW u \in States, NEW e, MayCome(h, u, e) PROVE MayCome(g, u, e)
    <2>1. CASE u.live = 0  BY <1>4, <2>1 DEF MayCome
    <2>2. CASE u.live # 0
      <3>1. u.out + 1 <= h[u.live] => u.out + 1 <= g[u.live]  BY <1>3, <2>2
      <3>2. u.out <= h[u.live] => u.out <= g[u.live]
        <4>1. u.out + 0 <= h[u.live] => u.out + 0 <= g[u.live]  BY <1>3, <2>2
        <4>2. u.out + 0 = u.out  BY <1>3, <2>2
        <4>. QED  BY <4>1, <4>2
      <3>. QED  BY <1>4, <2>2, <3>1, <3>2 DEF MayCome
    <2>. QED  BY <2>1, <2>2
  <1>5. Bytes(p, l, g, st[z], z, c)
    <2>1. Bytes(p, l, h, st[z], z, c) /\ st[z] \in States  BY <1>1, <1>2 DEF Stream
    <2>2. st[z].live # 0 /\ st[z].out + c <= h[st[z].live] => st[z].out + c <= g[st[z].live]
      BY <1>3, <2>1
    <2>. QED  BY <2>1, <2>2 DEF Bytes
  <1>6. Events(p, g, st, z, c)
    <2>1. \A j \in 1 .. N : Before(st, z, c, j) \in States
      <3>1. \A j \in 1 .. N : j \in 1 .. N + 1  BY <1>2
      <3>. QED  BY <1>1, <1>2, <3>1, BeforeType
    <2>. QED  BY <1>1, <1>4, <2>1 DEF Stream, Events
  <1>7. Stream(p, l, g, s, st, z, c)  BY <1>1, <1>5, <1>6 DEF Stream
  <1>. QED  BY <1>1, <1>7 DEF Streams

\* The bytes of a write go back to the window.
LEMMA WrittenPort ==
    ASSUME NEW p \in PortType
    PROVE  /\ Written(p) \in PortType
           /\ Written(p).queue = p.queue /\ Written(p).writing = 0
           /\ Len(Written(p).events) = Len(p.events)
           /\ \A j \in 1 .. Len(p.events) :
                 /\ Written(p).events[j].item = p.events[j].item
                 /\ Written(p).events[j].ahead =
                       IF p.events[j].ahead > p.writing THEN p.events[j].ahead - p.writing ELSE 0
  <1>. DEFINE Left(e) == [e EXCEPT !.ahead = IF @ > p.writing THEN @ - p.writing ELSE 0]
              ev == [j \in DOMAIN p.events |-> Left(p.events[j])]
  <1>1. /\ p.queue \in Seq(ItemType) /\ p.writing \in Nat /\ p.events \in Seq(EventType)
        /\ p = [queue |-> p.queue, writing |-> p.writing, events |-> p.events]
    BY DEF PortType
  <1>2. Len(p.events) \in Nat /\ DOMAIN p.events = 1 .. Len(p.events)
        /\ \A j \in 1 .. Len(p.events) : p.events[j] \in EventType
    BY <1>1
  <1>3. ASSUME NEW e \in EventType
        PROVE  /\ Left(e) \in EventType /\ Left(e).item = e.item
               /\ Left(e).ahead = IF e.ahead > p.writing THEN e.ahead - p.writing ELSE 0
    <2>1. e.item \in ItemType /\ e.ahead \in Nat /\ e = [item |-> e.item, ahead |-> e.ahead]  BY DEF EventType
    <2>2. PICK a \in Nat : a = IF e.ahead > p.writing THEN e.ahead - p.writing ELSE 0  BY <1>1, <2>1
    <2>3. Left(e) = [item |-> e.item, ahead |-> a]  BY <2>1, <2>2
    <2>. QED  BY <2>1, <2>2, <2>3 DEF EventType
  <1>. HIDE DEF Left
  <1>4. ev \in [1 .. Len(p.events) -> EventType]  BY <1>2, <1>3
  <1>5. ev \in Seq(EventType) /\ Len(ev) = Len(p.events)  BY <1>2, <1>4
  <1>6. \A j \in 1 .. Len(p.events) : ev[j] = Left(p.events[j])  BY <1>2
  <1>. HIDE DEF ev
  <1>7. Written(p) = [queue |-> p.queue, writing |-> 0, events |-> ev]
    <2>1. Written(p) = [p EXCEPT !.writing = 0, !.events = ev]  BY Zenon DEF Written, ev, Left
    <2>. QED  BY <1>1, <2>1
  <1>8. /\ Written(p).queue = p.queue /\ Written(p).writing = 0 /\ Written(p).events = ev
        /\ Written(p) \in PortType
    BY <1>1, <1>5, <1>7 DEF PortType
  <1>. QED  BY <1>2, <1>3, <1>5, <1>6, <1>8

\* A write that returns changes nothing of what is to come.
LEMMA WrittenStream ==
    ASSUME NEW p \in PortType, NEW l, NEW h, NEW s, Streams(p, l, h, s)
    PROVE  Streams(Written(p), l, h, s)
  <1>. DEFINE N == Len(p.events)
              q == Written(p)
  <1>1. PICK st \in [0 .. N -> States], z \in Nat, c \in Nat : Stream(p, l, h, s, st, z, c)
    BY DEF Streams
  <1>2. /\ p.writing \in Nat /\ N \in Nat
        /\ \A j \in 1 .. N : p.events[j].ahead \in Nat
    <2>1. p.events \in Seq(EventType) /\ p.writing \in Nat  BY DEF PortType
    <2>2. \A j \in 1 .. N : p.events[j] \in EventType  BY <2>1
    <2>. QED  BY <2>1, <2>2 DEF EventType
  <1>3. /\ q.queue = p.queue /\ q.writing = 0 /\ Len(q.events) = N
        /\ \A j \in 1 .. N :
              /\ q.events[j].item = p.events[j].item
              /\ q.events[j].ahead = IF p.events[j].ahead > p.writing THEN p.events[j].ahead - p.writing ELSE 0
    BY WrittenPort
  <1>. HIDE DEF q
  <1>4. Bytes(q, l, h, st[z], z, c)
    <2>1. Bytes(p, l, h, st[z], z, c)  BY <1>1 DEF Stream
    <2>2. c > 0 => \A j \in 1 .. N :
                      IF j <= z THEN q.events[j].ahead = 0 ELSE q.events[j].ahead >= q.writing + c
      BY <1>2, <1>3, <2>1 DEF Bytes
    <2>. QED  BY <1>3, <2>1, <2>2 DEF Bytes
  <1>5. Events(q, h, st, z, c)  BY <1>1, <1>3 DEF Stream, Events
  <1>6. Stream(q, l, h, s, st, z, c)  BY <1>1, <1>3, <1>4, <1>5 DEF Stream
  <1>. QED  BY <1>1, <1>3, <1>6 DEF Streams, q

\* An event is reported where it may come.
LEMMA LogEvent ==
    ASSUME NEW l \in Seq(ItemType), NEW h, NEW s \in States, LogIs(l, s),
           NEW e \in ItemType, MayCome(h, s, e), e.kind = "start" => ~Seen(l, "start", e.conn),
           NEW k, Longer(k, l), Len(k) = Len(l) + 1, k[Len(l) + 1] = e
    PROVE  LogIs(k, Then(s, e))
  <1>1. Len(l) \in Nat /\ \A i \in Len(l) + 1 .. Len(k) : i = Len(l) + 1
    <2>1. Len(l) \in Nat  OBVIOUS
    <2>. QED  BY <2>1
  <1>2. \A kind, n : Seen(k, kind, n) <=> Seen(l, kind, n) \/ (e.kind = kind /\ e.conn = n)
    <2>. SUFFICES ASSUME NEW kind, NEW n
                  PROVE  Seen(k, kind, n) <=> Seen(l, kind, n) \/ (e.kind = kind /\ e.conn = n)
      OBVIOUS
    <2>1. Seen(k, kind, n) <=> Seen(l, kind, n) \/ \E i \in Len(l) + 1 .. Len(k) : k[i].kind = kind /\ k[i].conn = n
      BY <1>1, SeenLonger
    <2>2. Len(l) + 1 \in Len(l) + 1 .. Len(k)  BY <1>1
    <2>. QED  BY <1>1, <2>1, <2>2
  <1>3. ASSUME NEW n, ~Printed(e, n) PROVE Out(k, n) = Out(l, n)
    BY <1>1, <1>3, OutSame
  <1>4. \A n \in Conns : Live(l, n) <=> n = s.live  BY DEF LogIs
  <1>5. \A n : ~Seen(l, "start", n) /\ n \in Conns => ~Seen(l, "end", n) /\ Out(l, n) = {}  BY DEF LogIs
  <1>6. s.live # 0 => s.live \in Conns /\ Seen(l, "start", s.live) /\ Out(l, s.live) = 1 .. s.out
    <2>1. s.live # 0 => s.live \in Conns  BY PapAssumption DEF PapAssumption, States, Conns
    <2>. QED  BY <1>4, <2>1 DEF LogIs, Live, Spool!Live, Seen
  <1>7. CASE s.live = 0 /\ \E n \in Conns : e = Item("start", n, 0)
    <2>1. PICK n \in Conns : e = Item("start", n, 0)  BY <1>7
    <2>2. e.kind = "start" /\ e.conn = n /\ ~Seen(l, "start", n)  BY <2>1 DEF Item
    <2>3. Then(s, e).live = n /\ Then(s, e).out = 0  BY <2>2 DEF Then
    <2>4. \A m : ~Printed(e, m)  BY <2>2 DEF Printed
    <2>5. \A m \in Conns : Live(k, m) <=> m = n
      <3>1. \A m : Seen(k, "end", m) <=> Seen(l, "end", m)  BY <1>2, <2>2
      <3>2. \A m : Seen(k, "start", m) <=> Seen(l, "start", m) \/ m = n  BY <1>2, <2>2
      <3>3. \A m \in Conns : ~(Seen(l, "start", m) /\ ~Seen(l, "end", m))
        <4>1. \A m \in Conns : m # 0  BY DEF Conns
        <4>. QED  BY <1>4, <1>7, <4>1 DEF Live, Spool!Live, Seen
      <3>4. ~Seen(l, "end", n)  BY <1>5, <2>2
      <3>. QED  BY <3>1, <3>2, <3>3, <3>4 DEF Live, Spool!Live, Seen
    <2>6. Out(k, n) = 1 .. 0
      <3>1. Out(l, n) = {} /\ 1 .. 0 = {}  BY <1>5, <2>2
      <3>. QED  BY <1>3, <2>4, <3>1
    <2>7. \A m \in Conns : ~Seen(k, "start", m) => ~Seen(k, "end", m) /\ Out(k, m) = {}
      <3>1. \A m : Seen(k, "end", m) => Seen(l, "end", m)  BY <1>2, <2>2
      <3>2. \A m : Seen(l, "start", m) => Seen(k, "start", m)  BY <1>2
      <3>3. \A m : Out(k, m) = Out(l, m)  BY <1>3, <2>4
      <3>. QED  BY <1>5, <3>1, <3>2, <3>3
    <2>. QED  BY <1>1, <2>3, <2>5, <2>6, <2>7 DEF LogIs
  <1>8. CASE s.live # 0 /\ e = Item("rename", s.live, s.out + 1)
    <2>1. e.kind = "rename" /\ e.conn = s.live /\ e.num = s.out + 1  BY <1>8 DEF Item
    <2>2. Then(s, e).live = s.live /\ Then(s, e).out = s.out + 1  BY <2>1 DEF Then
    <2>3. \A m : (Seen(k, "start", m) <=> Seen(l, "start", m)) /\ (Seen(k, "end", m) <=> Seen(l, "end", m))
      BY <1>2, <2>1
    <2>4. \A m \in Conns : Live(k, m) <=> m = s.live  BY <1>4, <2>3 DEF Live, Spool!Live, Seen
    <2>5. Out(k, s.live) = 1 .. s.out + 1
      <3>1. \A i \in Len(l) + 1 .. Len(k) : Printed(k[i], s.live) /\ k[i].num = s.out + i - Len(l)
        <4>1. s.out + 1 = s.out + (Len(l) + 1) - Len(l)  BY <1>1 DEF States
        <4>. QED  BY <1>1, <2>1, <4>1 DEF Printed
      <3>2. s.out \in Nat  BY DEF States
      <3>3. Out(k, s.live) = 1 .. s.out + Len(k) - Len(l)  BY <1>1, <1>6, <1>8, <3>1, <3>2, OutMore
      <3>. QED  BY <1>1, <3>2, <3>3
    <2>6. \A m \in Conns : ~Seen(k, "start", m) => ~Seen(k, "end", m) /\ Out(k, m) = {}
      <3>. SUFFICES ASSUME NEW m \in Conns, ~Seen(k, "start", m) PROVE ~Seen(k, "end", m) /\ Out(k, m) = {}
        OBVIOUS
      <3>1. m # s.live /\ ~Seen(l, "end", m) /\ Out(l, m) = {}  BY <1>5, <1>6, <1>8, <2>3
      <3>2. ~Printed(e, m)  BY <2>1, <3>1 DEF Printed
      <3>. QED  BY <1>3, <2>3, <3>1, <3>2
    <2>. QED  BY <1>1, <2>2, <2>4, <2>5, <2>6 DEF LogIs
  <1>9. CASE s.live # 0 /\ e = Item("eof", s.live, 0)
    <2>1. e.kind = "eof"  BY <1>9 DEF Item
    <2>2. Then(s, e).live = s.live /\ Then(s, e).out = s.out  BY <2>1 DEF Then
    <2>3. \A m : (Seen(k, "start", m) <=> Seen(l, "start", m)) /\ (Seen(k, "end", m) <=> Seen(l, "end", m))
      BY <1>2, <2>1
    <2>4. \A m \in Conns : Live(k, m) <=> m = s.live  BY <1>4, <2>3 DEF Live, Spool!Live, Seen
    <2>5. \A m : Out(k, m) = Out(l, m)
      <3>1. \A m : ~Printed(e, m)  BY <2>1 DEF Printed
      <3>. QED  BY <1>3, <3>1
    <2>. QED  BY <1>1, <1>5, <1>6, <2>2, <2>3, <2>4, <2>5 DEF LogIs
  <1>10. CASE s.live # 0 /\ e = Item("end", s.live, 0)
    <2>1. e.kind = "end" /\ e.conn = s.live  BY <1>10 DEF Item
    <2>2. Then(s, e).live = 0  BY <2>1 DEF Then
    <2>3. \A m : (Seen(k, "start", m) <=> Seen(l, "start", m)) /\ (Seen(k, "end", m) <=> Seen(l, "end", m) \/ m = s.live)
      BY <1>2, <2>1
    <2>4. \A m \in Conns : Live(k, m) <=> m = 0
      <3>1. \A m \in Conns : m # 0  BY DEF Conns
      <3>2. \A m \in Conns : Live(k, m) => Live(l, m) /\ m # s.live  BY <2>3 DEF Live, Spool!Live, Seen
      <3>. QED  BY <1>4, <3>1, <3>2
    <2>5. \A m : Out(k, m) = Out(l, m)
      <3>1. \A m : ~Printed(e, m)  BY <2>1 DEF Printed
      <3>. QED  BY <1>3, <3>1
    <2>. QED  BY <1>1, <1>5, <1>6, <1>10, <2>2, <2>3, <2>4, <2>5 DEF LogIs
  <1>. QED  BY <1>7, <1>8, <1>9, <1>10 DEF MayCome

\* The order of the events is the one the printer promises.
LEMMA MayComeMayFollow ==
    ASSUME NEW l \in Seq(ItemType), handed \in [Conns -> Nat], NEW s \in States, LogIs(l, s),
           NEW e \in ItemType, MayCome(handed, s, e),
           e.kind = "start" => ~Seen(l, "start", e.conn),
           e.kind = "rename" => ~Queried(l, e.conn)
    PROVE  Spool!MayFollow(l, e)
  <1>1. \A n \in Conns : Live(l, n) <=> n = s.live  BY DEF LogIs
  <1>2. s.live # 0 => /\ s.live \in Conns /\ Live(l, s.live) /\ Out(l, s.live) = 1 .. s.out
                      /\ s.out \in Nat /\ handed[s.live] \in Nat
    <2>1. s.live # 0 => s.live \in Conns  BY PapAssumption DEF PapAssumption, States, Conns
    <2>. QED  BY <2>1 DEF LogIs, States
  <1>3. CASE s.live = 0 /\ \E n \in Conns : e = Item("start", n, 0)
    <2>1. PICK n \in Conns : e = Item("start", n, 0)  BY <1>3
    <2>2. e.kind = "start" /\ e.conn = n /\ ~Seen(l, "start", n)  BY <2>1 DEF Item
    <2>3. \A m \in Conns : ~Live(l, m)
      <3>1. \A m \in Conns : m # 0  BY DEF Conns
      <3>. QED  BY <1>1, <1>3, <3>1
    <2>. QED  BY <2>1, <2>2, <2>3 DEF Spool!MayFollow, Spool!Item, Item, Spool!Conns, Conns, Live, Seen
  <1>4. CASE /\ s.live # 0 /\ e = Item("rename", s.live, s.out + 1) /\ s.out % JobLen = 0
             /\ s.out + 1 <= handed[s.live]
    <2>1. e.kind = "rename" /\ e.conn = s.live /\ e.num = s.out + 1 /\ ~Queried(l, s.live)  BY <1>4 DEF Item
    <2>2. /\ e.num \in 1 .. handed[s.live] /\ Out(l, s.live) = 1 .. e.num - 1
          /\ (e.num - 1) % JobLen = 0
      <3>1. e.num - 1 = s.out  BY <1>2, <1>4, <2>1
      <3>. QED  BY <1>2, <1>4, <2>1, <3>1
    <2>. QED  BY <1>2, <1>4, <2>1, <2>2 DEF Spool!MayFollow, Live, Queried, Out
  <1>5. CASE /\ s.live # 0 /\ e = Item("eof", s.live, 0) /\ s.out > 0 /\ s.out % JobLen = 0
             /\ s.out <= handed[s.live]
    <2>1. s.out \in 1 .. handed[s.live]  BY <1>2, <1>5
    <2>2. e.conn = s.live  BY <1>5 DEF Item
    <2>. QED  BY <1>2, <1>5, <2>1, <2>2 DEF Spool!MayFollow, Spool!Item, Item, Live, Out
  <1>6. CASE s.live # 0 /\ e = Item("end", s.live, 0)
    <2>1. e.conn = s.live  BY <1>6 DEF Item
    <2>. QED  BY <1>2, <1>6, <2>1 DEF Spool!MayFollow, Spool!Item, Item, Live
  <1>. QED  BY <1>3, <1>4, <1>5, <1>6 DEF MayCome

\* The event at the head is reported.
LEMMA ReportStream ==
    ASSUME NEW p \in PortType, NEW l \in Seq(ItemType), handed \in [Conns -> Nat],
           NEW s, Streams(p, l, handed, s),
           NEW e, Len(p.events) > 0, e = p.events[1].item, p.events[1].ahead = 0, p.writing = 0,
           e.kind = "start" => ~Seen(l, "start", e.conn),
           e.kind = "rename" => ~Queried(l, e.conn),
           NEW q \in PortType, q.queue = p.queue, q.writing = p.writing, q.events = Tail(p.events),
           NEW k, Longer(k, l), Len(k) = Len(l) + 1, k[Len(l) + 1] = e
    PROVE  Spool!MayFollow(l, e) /\ Streams(q, k, handed, s)
  <1>. DEFINE N == Len(p.events)
              M == Len(q.events)
  <1>1. PICK st \in [0 .. N -> States], z \in Nat, c \in Nat : Stream(p, l, handed, s, st, z, c)
    BY DEF Streams
  <1>2. /\ p.queue \in Seq(ItemType) /\ p.events \in Seq(EventType) /\ N \in Nat
    BY DEF PortType
  <1>3. /\ M \in Nat /\ N = M + 1 /\ \A j \in 1 .. M : q.events[j] = p.events[j + 1]
    BY <1>2
  <1>4. e \in ItemType
    <2>1. p.events[1] \in EventType  BY <1>2
    <2>. QED  BY <2>1 DEF EventType
  <1>5. Bytes(p, l, handed, st[z], z, c) /\ Events(p, handed, st, z, c) /\ LogIs(l, st[0]) /\ z \in 0 .. N
    BY <1>1 DEF Stream
  <1>6. c > 0 => z >= 1
    <2>1. c > 0 /\ z = 0 => p.events[1].ahead >= p.writing + c  BY <1>2, <1>5 DEF Bytes
    <2>. QED  BY <1>5, <2>1
  <1>7. st[0] \in States
    <2>1. 0 \in 0 .. N  BY <1>2
    <2>. QED  BY <1>1, <2>1
  <1>8. Before(st, z, c, 1) = st[0]
    <2>1. CASE c > 0  BY <1>5, <1>6, <2>1 DEF Before
    <2>2. CASE c = 0
      <3>1. More(st[0], 0) = st[0]  BY <1>7 DEF More, States
      <3>. QED  BY <2>2, <3>1 DEF Before
    <2>. QED  BY <2>1, <2>2
  <1>9. MayCome(handed, st[0], e) /\ st[1] = Then(st[0], e)
    <2>1. 1 \in 1 .. N  BY <1>2
    <2>. QED  BY <1>5, <1>8, <2>1 DEF Events
  <1>10. Spool!MayFollow(l, e)  BY <1>4, <1>5, <1>7, <1>9, MayComeMayFollow
  <1>11. LogIs(k, st[1])  BY <1>4, <1>5, <1>7, <1>9, LogEvent
  <1>. DEFINE tt == [j \in 0 .. M |-> st[j + 1]]
              y == IF z = 0 THEN 0 ELSE z - 1
  <1>12. tt \in [0 .. M -> States] /\ \A j \in 0 .. M : tt[j] = st[j + 1]
    <2>1. \A j \in 0 .. M : j + 1 \in 0 .. N  BY <1>3
    <2>. QED  BY <1>1, <2>1
  <1>. HIDE DEF tt
  <1>13. y \in 0 .. M /\ (z >= 1 => z = y + 1)  BY <1>3, <1>5
  <1>14. c = 0 => z = 0 \/ z = y + 1  BY <1>5
  <1>. HIDE DEF y
  <1>15. \A j \in 1 .. M + 1 : Before(tt, y, c, j) = Before(st, z, c, j + 1)
    <2>. SUFFICES ASSUME NEW j \in 1 .. M + 1 PROVE Before(tt, y, c, j) = Before(st, z, c, j + 1)
      OBVIOUS
    <2>1. /\ tt[j - 1] = st[j] /\ j + 1 - 1 = j /\ st[j] \in States
      <3>1. j - 1 \in 0 .. M /\ j - 1 + 1 = j /\ j \in 0 .. N /\ j + 1 - 1 = j  BY <1>3
      <3>. QED  BY <1>1, <1>12, <3>1
    <2>2. CASE c = 0
      <3>1. More(st[j], 0) = st[j]  BY <2>1 DEF More, States
      <3>. QED  BY <2>1, <2>2, <3>1 DEF Before
    <2>3. CASE c > 0
      <3>1. j = y + 1 <=> j + 1 = z + 1  BY <1>6, <1>13, <2>3
      <3>. QED  BY <2>1, <3>1 DEF Before
    <2>. QED  BY <1>1, <2>2, <2>3
  <1>16. Bytes(q, k, handed, tt[y], y, c)
    <2>1. CASE c = 0  BY <1>5, <2>1 DEF Bytes
    <2>2. CASE c > 0
      <3>1. z = y + 1 /\ tt[y] = st[z]  BY <1>6, <1>12, <1>13, <2>2
      <3>2. st[z] \in States /\ st[z].live # 0  BY <1>1, <1>5, <2>2 DEF Bytes
      <3>3. ~Queried(k, st[z].live)
        <4>1. ~Queried(l, st[z].live)  BY <1>5, <2>2 DEF Bytes
        <4>2. \A i \in Len(l) + 1 .. Len(k) : k[i] = e
          <5>1. Len(l) \in Nat  OBVIOUS
          <5>. QED  BY <5>1
        <4>3. e # Query  BY <1>7, <1>9, <1>4, ThenType DEF Query, Item
        <4>. QED  BY <3>2, <4>1, <4>2, <4>3, QueriedLonger
      <3>4. \A j \in 1 .. M : IF j <= y THEN q.events[j].ahead = 0 ELSE q.events[j].ahead >= q.writing + c
        <4>. SUFFICES ASSUME NEW j \in 1 .. M
                      PROVE  IF j <= y THEN q.events[j].ahead = 0 ELSE q.events[j].ahead >= q.writing + c
          OBVIOUS
        <4>1. j + 1 \in 1 .. N /\ (j + 1 <= z <=> j <= y)  BY <1>3, <1>13, <3>1
        <4>2. IF j + 1 <= z THEN p.events[j + 1].ahead = 0 ELSE p.events[j + 1].ahead >= p.writing + c
          BY <1>5, <2>2, <4>1 DEF Bytes
        <4>. QED  BY <1>3, <4>1, <4>2
      <3>. QED  BY <1>5, <2>2, <3>1, <3>2, <3>3, <3>4 DEF Bytes
    <2>. QED  BY <1>1, <2>1, <2>2
  <1>17. Events(q, handed, tt, y, c)
    <2>. SUFFICES ASSUME NEW j \in 1 .. M
                  PROVE  /\ MayCome(handed, Before(tt, y, c, j), q.events[j].item)
                         /\ tt[j] = Then(Before(tt, y, c, j), q.events[j].item)
      BY DEF Events
    <2>1. j + 1 \in 1 .. N /\ j \in 1 .. M + 1 /\ j \in 0 .. M  BY <1>3
    <2>2. /\ MayCome(handed, Before(st, z, c, j + 1), p.events[j + 1].item)
          /\ st[j + 1] = Then(Before(st, z, c, j + 1), p.events[j + 1].item)
      BY <1>5, <2>1 DEF Events
    <2>. QED  BY <1>3, <1>12, <1>15, <2>1, <2>2
  <1>18. Before(tt, y, c, M + 1) = s
    <2>1. M + 1 \in 1 .. M + 1 /\ M + 1 + 1 = N + 1  BY <1>3
    <2>2. Before(st, z, c, N + 1) = s  BY <1>1 DEF Stream
    <2>. QED  BY <1>15, <2>1, <2>2
  <1>19. LogIs(k, tt[0])
    <2>1. tt[0] = st[1]  BY <1>3, <1>12
    <2>. QED  BY <1>11, <2>1
  <1>20. Stream(q, k, handed, s, tt, y, c)
    BY <1>12, <1>13, <1>16, <1>17, <1>18, <1>19 DEF Stream
  <1>21. y \in Nat  BY <1>13
  <1>. QED  BY <1>1, <1>10, <1>12, <1>20, <1>21 DEF Streams

\* Chunks and then queries are written.
LEMMA LogWritten ==
    ASSUME NEW l, NEW s \in States, LogIs(l, s), NEW k, Longer(k, l),
           NEW c \in Nat, Len(l) + c <= Len(k), c > 0 => s.live # 0,
           \A i \in 1 .. Len(k) - Len(l) :
              k[Len(l) + i] = IF i <= c THEN Item("chunk", s.live, s.out + i) ELSE Query
    PROVE  LogIs(k, More(s, c))
  <1>1. /\ l \in Seq(ItemType) /\ k \in Seq(ItemType) /\ Len(l) \in Nat /\ Len(k) \in Nat
    BY DEF Longer
  <1>2. \A j \in Len(l) + 1 .. Len(k) :
           k[j] = IF j <= Len(l) + c THEN Item("chunk", s.live, s.out + (j - Len(l))) ELSE Query
    <2>. SUFFICES ASSUME NEW j \in Len(l) + 1 .. Len(k)
                  PROVE  k[j] = IF j <= Len(l) + c THEN Item("chunk", s.live, s.out + (j - Len(l))) ELSE Query
      OBVIOUS
    <2>1. PICK i \in 1 .. Len(k) - Len(l) : i = j - Len(l)
      <3>1. j - Len(l) \in 1 .. Len(k) - Len(l)  BY <1>1
      <3>. QED  BY <3>1
    <2>2. j = Len(l) + i /\ (i <= c <=> j <= Len(l) + c)  BY <1>1, <2>1
    <2>. QED  BY <2>1, <2>2
  <1>3. \A j \in Len(l) + 1 .. Len(k) : k[j].kind \in {"chunk", "query"}
    <2>1. Query.kind = "query" /\ \A a, b : Item("chunk", a, b).kind = "chunk"  BY DEF Item, Query
    <2>. QED  BY <1>2, <2>1
  <1>4. \A n : (Seen(k, "start", n) <=> Seen(l, "start", n)) /\ (Seen(k, "end", n) <=> Seen(l, "end", n))
    <2>. SUFFICES ASSUME NEW n
                  PROVE  (Seen(k, "start", n) <=> Seen(l, "start", n)) /\ (Seen(k, "end", n) <=> Seen(l, "end", n))
      OBVIOUS
    <2>1. Seen(k, "start", n) <=>
             Seen(l, "start", n) \/ \E i \in Len(l) + 1 .. Len(k) : k[i].kind = "start" /\ k[i].conn = n
      BY SeenLonger
    <2>2. Seen(k, "end", n) <=>
             Seen(l, "end", n) \/ \E i \in Len(l) + 1 .. Len(k) : k[i].kind = "end" /\ k[i].conn = n
      BY SeenLonger
    <2>. QED  BY <1>3, <2>1, <2>2
  <1>5. \A m \in Conns : Live(k, m) <=> m = s.live
    BY <1>4 DEF LogIs, Live, Spool!Live, Seen
  <1>6. ASSUME NEW m, m # s.live PROVE Out(k, m) = Out(l, m)
    <2>1. \A i \in Len(l) + 1 .. Len(k) : ~Printed(k[i], m)
      <3>. SUFFICES ASSUME NEW i \in Len(l) + 1 .. Len(k), Printed(k[i], m) PROVE FALSE
        OBVIOUS
      <3>1. k[i].conn = m /\ k[i].kind # "query"  BY DEF Printed
      <3>2. Query.kind = "query" /\ \A a, b : Item("chunk", a, b).conn = a  BY DEF Item, Query
      <3>3. k[i].conn = s.live  BY <1>2, <3>1, <3>2
      <3>. QED  BY <1>6, <3>1, <3>3
    <2>. QED  BY <2>1, OutSame
  <1>7. ASSUME s.live # 0 PROVE Out(k, s.live) = 1 .. s.out + c
    <2>1. PICK L \in Nat : L = Len(l) + c  BY <1>1
    <2>2. PICK b : b = SubSeq(k, 1, L)  OBVIOUS
    <2>3. b \in Seq(ItemType) /\ Len(b) = L /\ \A i \in 1 .. L : b[i] = k[i]
      BY <1>1, <2>1, <2>2
    <2>4. Longer(k, b)  BY <1>1, <2>1, <2>3 DEF Longer
    <2>5. Longer(b, l)
      <3>1. \A i \in 1 .. Len(l) : i \in 1 .. L /\ k[i] = l[i]  BY <1>1, <2>1 DEF Longer
      <3>. QED  BY <1>1, <2>1, <2>3, <3>1 DEF Longer
    <2>6. s.out \in Nat /\ Out(l, s.live) = 1 .. s.out  BY <1>7 DEF LogIs, States
    <2>7. \A i \in Len(l) + 1 .. Len(b) : Printed(b[i], s.live) /\ b[i].num = s.out + i - Len(l)
      <3>. SUFFICES ASSUME NEW i \in Len(l) + 1 .. Len(b)
                    PROVE  Printed(b[i], s.live) /\ b[i].num = s.out + i - Len(l)
        OBVIOUS
      <3>1. i \in Len(l) + 1 .. Len(k) /\ i <= Len(l) + c /\ i \in 1 .. L  BY <1>1, <2>1, <2>3
      <3>2. b[i] = Item("chunk", s.live, s.out + (i - Len(l)))  BY <1>2, <2>3, <3>1
      <3>3. s.out + (i - Len(l)) = s.out + i - Len(l)  BY <1>1, <2>6
      <3>. QED  BY <3>2, <3>3 DEF Printed, Item
    <2>8. Out(b, s.live) = 1 .. s.out + Len(b) - Len(l)  BY <2>5, <2>6, <2>7, OutMore
    <2>9. \A i \in Len(b) + 1 .. Len(k) : ~Printed(k[i], s.live)
      <3>. SUFFICES ASSUME NEW i \in Len(b) + 1 .. Len(k) PROVE ~Printed(k[i], s.live)
        OBVIOUS
      <3>1. i \in Len(l) + 1 .. Len(k) /\ ~(i <= Len(l) + c)  BY <1>1, <2>1, <2>3
      <3>2. k[i] = Query  BY <1>2, <3>1
      <3>. QED  BY <3>2 DEF Printed, Query, Item
    <2>10. Out(k, s.live) = Out(b, s.live)  BY <2>4, <2>9, OutSame
    <2>11. s.out + Len(b) - Len(l) = s.out + c  BY <1>1, <2>1, <2>3, <2>6
    <2>. QED  BY <2>8, <2>10, <2>11
  <1>8. \A m \in Conns : ~Seen(k, "start", m) => ~Seen(k, "end", m) /\ Out(k, m) = {}
    <2>. SUFFICES ASSUME NEW m \in Conns, ~Seen(k, "start", m) PROVE ~Seen(k, "end", m) /\ Out(k, m) = {}
      OBVIOUS
    <2>1. ~Seen(l, "start", m)  BY <1>4
    <2>2. ~Seen(l, "end", m) /\ Out(l, m) = {}  BY <2>1 DEF LogIs
    <2>3. m # s.live  BY <2>1 DEF LogIs, Live, Spool!Live, Seen
    <2>. QED  BY <1>4, <1>6, <2>2, <2>3
  <1>9. More(s, c).live = s.live /\ More(s, c).out = s.out + c  BY DEF More
  <1>. QED  BY <1>5, <1>7, <1>8, <1>9 DEF LogIs

\* Nothing but chunks of n is added: n is not queried by it.
LEMMA QuietLonger ==
    ASSUME NEW l, NEW k, Longer(k, l), NEW n, ~Queried(l, n),
           \A i \in Len(l) + 1 .. Len(k) : k[i].kind # "query"
    PROVE  ~Queried(k, n)
  <1>1. Query.kind = "query"  BY DEF Query, Item
  <1>. QED  BY <1>1, QueriedLonger

\* Each of them may follow what is written before it.
LEMMA WrittenMayFollow ==
    ASSUME NEW l, NEW s \in States, LogIs(l, s), NEW k, Longer(k, l), handed \in [Conns -> Nat],
           NEW c \in Nat, c > 0 => s.live # 0 /\ s.out + c <= handed[s.live] /\ ~Queried(l, s.live),
           \A i \in 1 .. Len(k) - Len(l) :
              k[Len(l) + i] = IF i <= c THEN Item("chunk", s.live, s.out + i) ELSE Query
    PROVE  \A j \in Len(l) + 1 .. Len(k) : Spool!MayFollow(SubSeq(k, 1, j - 1), k[j])
  <1>1. /\ l \in Seq(ItemType) /\ k \in Seq(ItemType) /\ Len(l) \in Nat /\ Len(k) \in Nat
    BY DEF Longer
  <1>. SUFFICES ASSUME NEW j \in Len(l) + 1 .. Len(k) PROVE Spool!MayFollow(SubSeq(k, 1, j - 1), k[j])
    OBVIOUS
  <1>2. PICK i \in 1 .. Len(k) - Len(l) : j = Len(l) + i
    <2>1. j - Len(l) \in 1 .. Len(k) - Len(l) /\ j = Len(l) + (j - Len(l))  BY <1>1
    <2>. QED  BY <2>1
  <1>3. PICK b : b = SubSeq(k, 1, j - 1)  OBVIOUS
  <1>4. CASE ~(i <= c)
    <2>1. k[j] = Query  BY <1>2, <1>4
    <2>. QED  BY <2>1 DEF Spool!MayFollow, Spool!Query, Query, Spool!Item, Item
  <1>5. CASE i <= c
    <2>1. k[j] = Item("chunk", s.live, s.out + i)  BY <1>2, <1>5
    <2>2. s.live # 0 /\ s.out + c <= handed[s.live] /\ ~Queried(l, s.live)  BY <1>5
    <2>3. s.live \in Conns /\ s.out \in Nat /\ handed[s.live] \in Nat
      BY <2>2, PapAssumption DEF PapAssumption, States, Conns
    <2>4. b \in Seq(ItemType) /\ Len(b) = j - 1 /\ \A x \in 1 .. j - 1 : b[x] = k[x]
      <3>1. j - 1 \in Nat /\ j - 1 <= Len(k)  BY <1>1
      <3>. QED  BY <1>1, <1>3, <3>1
    <2>5. Longer(b, l)
      <3>1. Len(l) <= j - 1 /\ \A x \in 1 .. Len(l) : x \in 1 .. j - 1 /\ k[x] = l[x]  BY <1>1 DEF Longer
      <3>. QED  BY <1>1, <2>4, <3>1 DEF Longer
    <2>6. PICK d \in Nat : d = i - 1  OBVIOUS
    <2>7. Len(b) = Len(l) + d /\ d < c  BY <1>1, <1>2, <1>5, <2>4, <2>6
    <2>8. \A x \in 1 .. d : b[Len(l) + x] = Item("chunk", s.live, s.out + x)
      <3>. SUFFICES ASSUME NEW x \in 1 .. d PROVE b[Len(l) + x] = Item("chunk", s.live, s.out + x)
        OBVIOUS
      <3>1. x \in 1 .. Len(k) - Len(l) /\ x <= c /\ Len(l) + x \in 1 .. j - 1  BY <1>1, <1>2, <2>6, <2>7
      <3>. QED  BY <2>4, <3>1
    <2>9. LogIs(b, More(s, d))
      <3>1. /\ Len(l) + d <= Len(b)
            /\ \A x \in 1 .. Len(b) - Len(l) :
                  b[Len(l) + x] = IF x <= d THEN Item("chunk", s.live, s.out + x) ELSE Query
        <4>1. Len(b) - Len(l) = d  BY <1>1, <2>7
        <4>. QED  BY <1>1, <2>7, <2>8, <4>1
      <3>. QED  BY <2>2, <2>5, <3>1, LogWritten
    <2>10. Live(b, s.live) /\ Out(b, s.live) = 1 .. s.out + d  BY <2>2, <2>3, <2>9 DEF LogIs, More
    <2>11. ~Queried(b, s.live)
      <3>1. \A x \in Len(l) + 1 .. Len(b) : b[x].kind # "query"
        <4>. SUFFICES ASSUME NEW x \in Len(l) + 1 .. Len(b) PROVE b[x].kind # "query"
          OBVIOUS
        <4>1. PICK y \in 1 .. d : x = Len(l) + y
          <5>1. x - Len(l) \in 1 .. d /\ x = Len(l) + (x - Len(l))  BY <1>1, <2>7
          <5>. QED  BY <5>1
        <4>2. b[x] = Item("chunk", s.live, s.out + y)  BY <2>8, <4>1
        <4>. QED  BY <4>2 DEF Item
      <3>. QED  BY <2>2, <2>5, <3>1, QuietLonger
    <2>12. k[j].kind = "chunk" /\ k[j].conn = s.live /\ k[j].num = s.out + i  BY <2>1 DEF Item
    <2>13. /\ k[j].num \in 1 .. handed[s.live]
           /\ Out(b, s.live) = 1 .. k[j].num - 1
      <3>1. s.out + d = s.out + i - 1 /\ s.out + i \in 1 .. handed[s.live]
        BY <1>5, <2>2, <2>3, <2>6
      <3>2. k[j].num - 1 = s.out + d  BY <2>3, <2>6, <2>12
      <3>. QED  BY <2>10, <2>12, <3>1, <3>2
    <2>14. Spool!MayFollow(b, k[j])
      BY <2>10, <2>11, <2>12, <2>13 DEF Spool!MayFollow, Live, Queried, Out
    <2>. QED  BY <1>3, <2>14
  <1>. QED  BY <1>4, <1>5

\* A write takes what is queued from its head.
LEMMA WriteStream ==
    ASSUME NEW p \in PortType, NEW l, handed \in [Conns -> Nat],
           NEW s, Streams(p, l, handed, s),
           p.writing = 0, Len(p.events) > 0 => p.events[1].ahead # 0,
           NEW w \in 1 .. Len(p.queue), NEW k, Longer(k, l), Len(k) = Len(l) + w,
           \A i \in 1 .. w : k[Len(l) + i] = p.queue[i],
           NEW q \in PortType, q.writing = w, q.events = p.events, Len(q.queue) = Len(p.queue) - w,
           \A i \in 1 .. Len(p.queue) - w : q.queue[i] = p.queue[w + i]
    PROVE  /\ \A j \in Len(l) + 1 .. Len(k) : Spool!MayFollow(SubSeq(k, 1, j - 1), k[j])
           /\ Streams(q, k, handed, s)
  <1>. DEFINE N == Len(p.events)
              C == Len(p.queue)
  <1>1. PICK st \in [0 .. N -> States], z \in Nat, c \in Nat : Stream(p, l, handed, s, st, z, c)
    BY DEF Streams
  <1>2. N \in Nat /\ C \in Nat /\ Len(l) \in Nat
    <2>1. p.queue \in Seq(ItemType) /\ p.events \in Seq(EventType) /\ l \in Seq(ItemType)
      BY DEF PortType, Longer
    <2>. QED  BY <2>1
  <1>3. /\ Bytes(p, l, handed, st[z], z, c) /\ Events(p, handed, st, z, c) /\ LogIs(l, st[0]) /\ z \in 0 .. N
        /\ Before(st, z, c, N + 1) = s
    BY <1>1 DEF Stream
  <1>4. c > 0 => z = 0
    <2>1. c > 0 /\ z > 0 => p.events[1].ahead = 0 /\ N > 0  BY <1>2, <1>3 DEF Bytes
    <2>. QED  BY <1>3, <2>1
  <1>. w \in Nat /\ w >= 1  BY <1>2
  <1>5. PICK s0 \in States : s0 = st[0]
    <2>1. 0 \in 0 .. N  BY <1>2
    <2>. QED  BY <1>1, <2>1
  <1>6. PICK d \in Nat : d = IF w <= c THEN w ELSE c  OBVIOUS
  <1>7. c > 0 => s0.live # 0 /\ s0.out + c <= handed[s0.live] /\ ~Queried(l, s0.live)
    BY <1>3, <1>4, <1>5 DEF Bytes
  <1>8. \A i \in 1 .. C : p.queue[i] = IF i <= c THEN Item("chunk", s0.live, s0.out + i) ELSE Query
    <2>1. \A i \in 1 .. C : p.queue[i] = IF i <= c THEN Item("chunk", st[z].live, st[z].out + i) ELSE Query
      BY <1>3 DEF Bytes
    <2>2. CASE c > 0  BY <1>4, <1>5, <2>1, <2>2
    <2>3. CASE c = 0
      <3>1. \A i \in 1 .. C : ~(i <= c)  BY <2>3
      <3>. QED  BY <2>1, <3>1
    <2>. QED  BY <2>2, <2>3
  <1>9. Len(k) - Len(l) = w /\ c <= C  BY <1>2, <1>3 DEF Bytes
  <1>10. \A i \in 1 .. Len(k) - Len(l) :
            k[Len(l) + i] = IF i <= c THEN Item("chunk", s0.live, s0.out + i) ELSE Query
    <2>1. \A i \in 1 .. w : i \in 1 .. C  BY <1>2
    <2>. QED  BY <1>8, <1>9, <2>1
  <1>11. \A j \in Len(l) + 1 .. Len(k) : Spool!MayFollow(SubSeq(k, 1, j - 1), k[j])
    BY <1>3, <1>5, <1>7, <1>10, WrittenMayFollow
  <1>12. LogIs(k, More(s0, d))
    <2>1. \A i \in 1 .. Len(k) - Len(l) :
             k[Len(l) + i] = IF i <= d THEN Item("chunk", s0.live, s0.out + i) ELSE Query
      <3>1. \A i \in 1 .. w : i <= d <=> i <= c  BY <1>6
      <3>. QED  BY <1>9, <1>10, <3>1
    <2>2. Len(l) + d <= Len(k) /\ (d > 0 => s0.live # 0)  BY <1>2, <1>6, <1>7
    <2>. QED  BY <1>3, <1>5, <2>1, <2>2, LogWritten
  <1>. DEFINE tt == [j \in 0 .. N |-> IF j = 0 THEN More(s0, d) ELSE st[j]]
  <1>13. More(s0, d) \in States  BY DEF More, States
  <1>14. /\ tt \in [0 .. N -> States] /\ tt[0] = More(s0, d)
         /\ \A j \in 1 .. N : tt[j] = st[j]
    BY <1>1, <1>2, <1>13
  <1>. HIDE DEF tt
  <1>15. PICK e \in Nat : e = c - d
    <2>1. c - d \in Nat  BY <1>1, <1>2, <1>6
    <2>. QED  BY <2>1
  <1>16. \A j \in 1 .. N + 1 : Before(tt, z, e, j) = Before(st, z, c, j)
    <2>. SUFFICES ASSUME NEW j \in 1 .. N + 1 PROVE Before(tt, z, e, j) = Before(st, z, c, j)
      OBVIOUS
    <2>1. CASE c = 0
      <3>0. d = 0  BY <1>6, <2>1
      <3>1. d = 0 /\ e = 0  BY <1>15, <2>1, <3>0
      <3>2. More(s0, 0) = s0  BY <1>5 DEF More, States
      <3>3. tt[j - 1] = st[j - 1]
        <4>1. j - 1 = 0 \/ j - 1 \in 1 .. N  BY <1>2
        <4>. QED  BY <1>5, <1>14, <3>1, <3>2, <4>1
      <3>. QED  BY <2>1, <3>1, <3>3 DEF Before
    <2>2. CASE c > 0
      <3>1. z = 0 /\ d + e = c  BY <1>4, <1>6, <1>15, <2>2
      <3>2. CASE j = 1
        <4>1. j - 1 = 0 /\ j = z + 1  BY <3>1, <3>2
        <4>2. More(More(s0, d), e) = More(s0, c)
          <5>1. s0.out + d + e = s0.out + c  
            <6>1. s0.out \in Nat  BY DEF States
            <6>. QED  BY <3>1, <6>1
          <5>. QED  BY <5>1 DEF More
        <4>. QED  BY <1>5, <1>14, <4>1, <4>2 DEF Before
      <3>3. CASE j # 1
        <4>1. j - 1 \in 1 .. N /\ j # z + 1  BY <1>2, <3>1, <3>3
        <4>. QED  BY <1>14, <4>1 DEF Before
      <3>. QED  BY <3>2, <3>3
    <2>. QED  BY <1>1, <2>1, <2>2
  <1>17. Events(q, handed, tt, z, e)
    <2>. SUFFICES ASSUME NEW j \in 1 .. N
                  PROVE  /\ MayCome(handed, Before(tt, z, e, j), p.events[j].item)
                         /\ tt[j] = Then(Before(tt, z, e, j), p.events[j].item)
      BY DEF Events
    <2>1. j \in 1 .. N + 1  BY <1>2
    <2>. QED  BY <1>3, <1>14, <1>16, <2>1 DEF Events
  <1>18. Bytes(q, k, handed, tt[z], z, e)
    <2>1. e \in 0 .. Len(q.queue)  BY <1>2, <1>6, <1>9, <1>15
    <2>2. CASE c > 0
      <3>1. z = 0 /\ tt[z] = More(s0, d) /\ d + e = c  BY <1>4, <1>6, <1>14, <1>15, <2>2
      <3>2. tt[z].live = s0.live /\ tt[z].out = s0.out + d  BY <3>1 DEF More
      <3>3. ASSUME NEW i \in 1 .. C - w
            PROVE  q.queue[i] = IF i <= e THEN Item("chunk", tt[z].live, tt[z].out + i) ELSE Query
        <4>1. w + i \in 1 .. C  BY <1>2
        <4>2. q.queue[i] = IF w + i <= c THEN Item("chunk", s0.live, s0.out + (w + i)) ELSE Query
          BY <1>8, <4>1
        <4>3. i <= e <=> w + i <= c  BY <1>1, <1>6, <1>15
        <4>4. w + i <= c => s0.out + (w + i) = s0.out + d + i  BY <1>1, <1>6 DEF States
        <4>. QED  BY <3>2, <4>2, <4>3, <4>4
      <3>4. s0.out + d + e = s0.out + c  BY <1>1, <1>5, <1>6, <1>15, <3>1 DEF States
      <3>5. e > 0 => ~Queried(k, s0.live)
        <4>. SUFFICES ASSUME e > 0 PROVE ~Queried(k, s0.live)
          OBVIOUS
        <4>1. \A i \in 1 .. w : k[Len(l) + i] = Item("chunk", s0.live, s0.out + i)
          <5>1. \A i \in 1 .. w : i <= c  BY <1>1, <1>6, <1>15
          <5>. QED  BY <1>9, <1>10, <5>1
        <4>2. \A x \in Len(l) + 1 .. Len(k) : k[x].kind # "query"
          <5>. SUFFICES ASSUME NEW x \in Len(l) + 1 .. Len(k) PROVE k[x].kind # "query"
            OBVIOUS
          <5>1. PICK i \in 1 .. w : x = Len(l) + i
            <6>1. x - Len(l) \in 1 .. w /\ x = Len(l) + (x - Len(l))  BY <1>2
            <6>. QED  BY <6>1
          <5>2. k[x] = Item("chunk", s0.live, s0.out + i)  BY <4>1, <5>1
          <5>. QED  BY <5>2 DEF Item
        <4>. QED  BY <1>7, <2>2, <4>2, QuietLonger
      <3>6. e > 0 => \A j \in 1 .. N :
               IF j <= z THEN q.events[j].ahead = 0 ELSE q.events[j].ahead >= q.writing + e
        <4>. SUFFICES ASSUME e > 0, NEW j \in 1 .. N PROVE p.events[j].ahead >= w + e /\ ~(j <= z)
          OBVIOUS
        <4>1. w + e = p.writing + c  BY <1>1, <1>6, <1>15
        <4>2. ~(j <= z)  BY <3>1
        <4>. QED  BY <1>3, <2>2, <4>1, <4>2 DEF Bytes
      <3>. QED  BY <1>2, <1>7, <2>1, <2>2, <3>2, <3>3, <3>4, <3>5, <3>6 DEF Bytes
    <2>3. CASE c = 0
      <3>0. d = 0  BY <1>6, <2>3
      <3>1. e = 0  BY <1>15, <2>3, <3>0
      <3>2. ASSUME NEW i \in 1 .. C - w PROVE q.queue[i] = Query /\ ~(i <= e)
        <4>1. w + i \in 1 .. C /\ ~(w + i <= c)  BY <1>2, <2>3
        <4>. QED  BY <1>8, <3>1, <4>1
      <3>. QED  BY <2>1, <3>1, <3>2 DEF Bytes
    <2>. QED  BY <1>1, <2>2, <2>3
  <1>19. Before(tt, z, e, N + 1) = s
    <2>1. N + 1 \in 1 .. N + 1  BY <1>2
    <2>. QED  BY <1>3, <1>16, <2>1
  <1>20. 0 \in 0 .. N /\ LogIs(k, tt[0])  BY <1>2, <1>12, <1>14
  <1>21. Stream(q, k, handed, s, tt, z, e)
    BY <1>3, <1>14, <1>17, <1>18, <1>19, <1>20 DEF Stream
  <1>. QED  BY <1>1, <1>11, <1>14, <1>15, <1>21 DEF Streams

-----------------------------------------------------------------------------
(* The inductive invariant *)

SessionOk(s) ==
    /\ s = [n |-> s.n, id |-> s.id, seq |-> s.seq, pull |-> s.pull, bytes |-> s.bytes, rseq |-> s.rseq,
            cache |-> s.cache, pending |-> s.pending, stdout |-> s.stdout]
    /\ s.n \in 0 .. MaxConns /\ s.seq \in 1 .. MaxSeq /\ s.pull \in Nat /\ s.bytes \in Nat
    /\ IF s.n = 0 THEN s = NoSession ELSE s.id = SocketOf[s.n]

CacheType == Seq([seq : 1 .. MaxSeq, reply : ReplyType])

ClientOk(c) ==
    /\ c = [pc |-> c.pc, n |-> c.n, id |-> c.id, job |-> c.job, pos |-> c.pos, cache |-> c.cache,
            rseq |-> c.rseq, reads |-> c.reads, got |-> c.got]
    /\ c.n \in 0 .. MaxConns /\ c.job \in Nat /\ c.pos \in Nat /\ c.cache \in CacheType
    /\ IF c.pc = "off" THEN c.job = 0 /\ c.pos = 0 /\ c.cache = <<>>
                       ELSE c.n \in Conns /\ c.id = SocketOf[c.n]

AnswerType == [tid : Nat \ {0}, reply : ReplyType]

TypeOK ==
    /\ SessionOk(session) /\ ClientOk(client)
    /\ inbox \in Seq(PullType)
    /\ pulls \in SUBSET PullType /\ IsFiniteSet(pulls)
    /\ replies \in SUBSET AnswerType /\ IsFiniteSet(replies)
    /\ port \in PortType /\ log \in Seq(ItemType)
    /\ credit \in BOOLEAN /\ jobStart \in BOOLEAN
    /\ handed \in [Conns -> Nat] /\ taken \in [Conns -> Nat]

\* Connection n was opened: its start is reported, or waits in the port.
BegunIn(p, l, n) ==
    \/ Seen(l, "start", n)
    \/ \E j \in 1 .. Len(p.events) : p.events[j].item.kind = "start" /\ p.events[j].item.conn = n

Begun(n) == BegunIn(port, log, n)

Here == client.pc # "off"

Calling == call.kind \in {"open", "read", "close"}

\* Connections are opened by the clients there were.
Opened ==
    /\ \A n \in Conns : Begun(n) => n <= client.n
    /\ session.n # 0 => Begun(session.n)

\* What a client that gave up asked to open was not opened, and is on its way once.
Abandoning ==
    /\ \A r \in stale :
          /\ ~r.live
          /\ r.kind = "open" =>
                /\ r.n \in 1 .. client.n /\ r.id = SocketOf[r.n] /\ ~Begun(r.n)
                /\ Here => r.n < client.n
    /\ \A r, q \in stale : r.kind = "open" /\ q.kind = "open" /\ r.n = q.n => r = q

\* The client waits for what it asked last, and asks to open until it is told that it was.
Asking ==
    /\ Calling =>
          call = [kind |-> call.kind, n |-> call.n, id |-> call.id, seq |-> call.seq, live |-> TRUE]
    /\ call.kind = "open" =>
          client.pc = "opening" /\ call.n = client.n /\ call.id = client.id /\ ~Begun(client.n)
    /\ call.kind = "read" => client.pc = "reading"
    /\ call.kind = "close" => client.pc = "closing"
    /\ client.pc = "opening" /\ call.kind = "reply" /\ call.reply.kind = "busy" => ~Begun(client.n)

Opening == Opened /\ Abandoning /\ Asking

Ours(p) == session.n # 0 /\ p.id = session.id

\* A pull bears the id of a connection that was opened, and the number its session asks with.
Asks(p) ==
    /\ \E k \in Conns : Begun(k) /\ p.id = SocketOf[k]
    /\ Ours(p) => p.seq = session.seq
    /\ p.tid = session.pull => Ours(p)

\* The pull of the session is in one place: with the cable, last in the inbox, or answered.
Pulling ==
    /\ session.n = 0 => session.pull = 0
    /\ \A p \in pulls : Asks(p) /\ (Ours(p) => p.tid = session.pull)
    /\ \A i \in 1 .. Len(inbox) : Here /\ Asks(inbox[i]) /\ inbox[i].id = client.id
    /\ \A i \in 1 .. Len(inbox) : inbox[i].tid = session.pull =>
          i = Len(inbox) /\ \A p \in pulls : p.tid # session.pull
    /\ \A m \in replies : m.tid = session.pull =>
          /\ \A p \in pulls : ~Ours(p)
          /\ \A i \in 1 .. Len(inbox) : ~Ours(inbox[i])
    /\ \A m, l \in replies : m.tid = session.pull /\ l.tid = session.pull => m = l

\* The sequence number k before q.
Back(q, k) == IF k < q THEN q - k ELSE q + MaxSeq - k

EofReply == [eof |-> TRUE, item |-> None]

ChunkReply(n, i) == [eof |-> FALSE, item |-> Item("chunk", n, i)]

\* The cache ends with the answer to the pull k before q.
Answers(cache, q, k) ==
    \A j \in 1 .. Len(cache) : cache[j].seq = Back(q, Len(cache) + k - j)

\* The client has not answered the session's pull, or with this reply.
NotAnswered ==
    Answers(client.cache, session.seq, 1) /\ handed[client.n] = taken[client.n]

AnsweredWith(reply) ==
    /\ client.cache # <<>>
    /\ Answers(client.cache, session.seq, 0)
    /\ client.cache[Len(client.cache)].reply = reply

\* A reply that the session may take: an end where a job ended, or the next chunk.
NextReply(reply) ==
    \/ reply = EofReply /\ taken[session.n] % JobLen = 0
    \/ /\ reply = ChunkReply(session.n, taken[session.n] + 1)
       /\ handed[session.n] = taken[session.n] + 1

\* The client of the session has nothing to repeat, or the reply to this very pull.
InStep ==
    \/ NotAnswered
    \/ \E reply \in ReplyType :
          /\ AnsweredWith(reply) /\ NextReply(reply)
          /\ IF reply.eof THEN handed[client.n] = taken[client.n] ELSE client.pc = "printing"

Jobs ==
    /\ client.pos <= JobLen /\ client.job <= MaxJobs
    /\ Len(client.cache) <= CacheLen
    /\ IF client.job = 0
       THEN handed[client.n] = 0 /\ client.cache = <<>> /\ client.pc \in {"opening", "idle"}
       ELSE /\ handed[client.n] = (client.job - 1) * JobLen + client.pos
            /\ client.pc # "printing" => client.pos = JobLen
            /\ client.pc # "opening"

Totals ==
    \A n \in Conns : /\ taken[n] <= handed[n]
                     /\ ~Begun(n) => taken[n] = 0
                     /\ n > client.n => handed[n] = 0

SoFar ==
    session.n # 0 => /\ session.bytes > 0 => taken[session.n] > 0
                     /\ jobStart => taken[session.n] % JobLen = 0

\* What answers the pull that is out may be taken, and is what the client remembers.
Answered ==
    \A m \in replies : m.tid = session.pull =>
        /\ NextReply(m.reply)
        /\ Here /\ session.n = client.n => AnsweredWith(m.reply) \/ (client.cache = <<>> /\ m.reply.eof)

Counting ==
    /\ Totals
    /\ Here => Jobs
    /\ Here /\ session.n = client.n => InStep
    /\ SoFar
    /\ Answered

\* What the session has taken, by the state it leaves.
Now(n, t) == [live |-> n, out |-> IF n = 0 THEN 0 ELSE t[n]]

Streaming == Streams(port, log, handed, Now(session.n, taken))

\* A connection is started once.
StartsOnce(p, l) ==
    /\ \A j \in 1 .. Len(p.events) : p.events[j].item.kind = "start" => ~Seen(l, "start", p.events[j].item.conn)
    /\ \A i, j \in 1 .. Len(p.events) :
          p.events[i].item.kind = "start" /\ p.events[j].item.kind = "start"
             /\ p.events[i].item.conn = p.events[j].item.conn => i = j

\* While a pull is out no more than one chunk is held, and a second one finds room.
Window(p, l, cr, pull) ==
    /\ cr <=> Held(p) = 0
    /\ \A j \in 1 .. Len(p.events) : p.events[j].ahead <= Held(p)
    /\ pull # 0 =>
          /\ Held(p) <= 1
          /\ \A j \in 1 .. Len(p.events) : p.events[j].ahead = 0
          /\ \A i \in 1 .. Len(p.queue) : p.queue[i].kind = "chunk"
    /\ p.writing <= Len(l)
    /\ \A i \in 1 .. Len(p.queue) : p.queue[i].kind = "chunk" => i + p.writing <= 2
    /\ \A i \in 1 .. p.writing : l[Len(l) - p.writing + i].kind = "chunk" => i <= 2

\* No query gets between a connection's start and its chunks.
Quiet(p, l, n) ==
    n # 0 => /\ ~Queried(l, n)
             /\ \/ \A i \in 1 .. Len(p.queue) : p.queue[i].kind = "chunk"
                \/ \E j \in 1 .. Len(p.events) :
                      p.events[j].item = Item("start", n, 0) /\ p.events[j].ahead = Held(p)

\* A rename is pulled only into an empty port, and is reported before anything is written.
Renames(p, l, pull, start) ==
    /\ pull # 0 /\ start => Held(p) = 0
    /\ \A j \in 1 .. Len(p.events) : p.events[j].item.kind = "rename" =>
          /\ p.writing = 0 /\ ~Queried(l, p.events[j].item.conn)
          /\ \A i \in 1 .. j : p.events[i].ahead = 0

Port ==
    /\ Window(port, log, credit, session.pull)
    /\ Quiet(port, log, session.n)
    /\ Renames(port, log, session.pull, jobStart)
    /\ StartsOnce(port, log)

IInv == TypeOK /\ Opening /\ Pulling /\ Counting /\ Streaming /\ Port

-----------------------------------------------------------------------------
(* The port *)

\* What the type of a port says of its parts.
LEMMA PortFacts ==
    ASSUME NEW p \in PortType
    PROVE  /\ Len(p.queue) \in Nat /\ Len(p.events) \in Nat /\ p.writing \in Nat
           /\ Held(p) \in Nat /\ Held(p) = Len(p.queue) + p.writing
           /\ \A j \in 1 .. Len(p.events) : p.events[j].ahead \in Nat /\ p.events[j].item \in ItemType
           /\ \A i \in 1 .. Len(p.queue) : p.queue[i] \in ItemType
  <1>1. p.queue \in Seq(ItemType) /\ p.events \in Seq(EventType) /\ p.writing \in Nat  BY DEF PortType
  <1>2. \A j \in 1 .. Len(p.events) : p.events[j] \in EventType  BY <1>1
  <1>. QED  BY <1>1, <1>2 DEF EventType, Held

\* Put, index by index.
LEMMA PutFacts ==
    ASSUME NEW p \in PortType, NEW e \in ItemType
    PROVE  /\ Put(p, e) \in PortType /\ Put(p, e).writing = p.writing
           /\ IF e.kind \in {"chunk", "query"}
              THEN /\ Len(Put(p, e).queue) = Len(p.queue) + 1 /\ Put(p, e).queue[Len(p.queue) + 1] = e
                   /\ \A i \in 1 .. Len(p.queue) : Put(p, e).queue[i] = p.queue[i]
                   /\ Put(p, e).events = p.events
                   /\ Held(Put(p, e)) = Held(p) + 1
              ELSE /\ Len(Put(p, e).events) = Len(p.events) + 1
                   /\ Put(p, e).events[Len(p.events) + 1].item = e
                   /\ Put(p, e).events[Len(p.events) + 1].ahead = Held(p)
                   /\ \A j \in 1 .. Len(p.events) : Put(p, e).events[j] = p.events[j]
                   /\ Put(p, e).queue = p.queue
                   /\ Held(Put(p, e)) = Held(p)
  <1>1. p.queue \in Seq(ItemType) /\ p.events \in Seq(EventType) /\ p.writing \in Nat  BY DEF PortType
  <1>2. CASE e.kind \in {"chunk", "query"}
    <2>1. Put(p, e).queue = Append(p.queue, e) /\ Put(p, e).events = p.events /\ Put(p, e).writing = p.writing
      BY <1>2, PutPort
    <2>2. /\ Len(Append(p.queue, e)) = Len(p.queue) + 1 /\ Append(p.queue, e)[Len(p.queue) + 1] = e
          /\ \A i \in 1 .. Len(p.queue) : Append(p.queue, e)[i] = p.queue[i]
      BY <1>1
    <2>3. Held(Put(p, e)) = Held(p) + 1  BY <1>1, <2>1, <2>2 DEF Held
    <2>. QED  BY <1>2, <2>1, <2>2, <2>3, PutPort
  <1>3. CASE e.kind \notin {"chunk", "query"}
    <2>1. PICK v \in EventType : v = [item |-> e, ahead |-> Held(p)]
      <3>1. Held(p) \in Nat  BY PortFacts
      <3>2. [item |-> e, ahead |-> Held(p)] \in EventType  BY <3>1 DEF EventType
      <3>. QED  BY <3>2
    <2>2. Put(p, e).queue = p.queue /\ Put(p, e).events = Append(p.events, v) /\ Put(p, e).writing = p.writing
      BY <1>3, <2>1, PutPort
    <2>3. /\ Len(Append(p.events, v)) = Len(p.events) + 1 /\ Append(p.events, v)[Len(p.events) + 1] = v
          /\ \A j \in 1 .. Len(p.events) : Append(p.events, v)[j] = p.events[j]
      BY <1>1
    <2>4. v.item = e /\ v.ahead = Held(p)  BY <2>1
    <2>5. Held(Put(p, e)) = Held(p)  BY <2>2 DEF Held
    <2>6. Put(p, e) \in PortType  BY PutPort
    <2>. QED  BY <1>3, <2>2, <2>3, <2>4, <2>5, <2>6
  <1>. QED  BY <1>2, <1>3

\* A chunk is put only in answer to a pull, and the next pull goes out on the credit there was.
LEMMA PutWindow ==
    ASSUME NEW p \in PortType, NEW l, NEW cr, NEW pull, Window(p, l, cr, pull),
           NEW e \in ItemType, e.kind = "chunk" => pull # 0,
           NEW b, b # 0 => cr /\ e.kind # "query",
           NEW cr2, cr2 <=> Held(Put(p, e)) = 0
    PROVE  Window(Put(p, e), l, cr2, b)
  <1>. DEFINE q == Put(p, e)
              N == Len(p.events)
              C == Len(p.queue)
  <1>1. /\ C \in Nat /\ N \in Nat /\ p.writing \in Nat /\ Held(p) = C + p.writing
        /\ \A j \in 1 .. N : p.events[j].ahead \in Nat
    BY PortFacts
  <1>2. CASE e.kind \in {"chunk", "query"}
    <2>1. /\ q.writing = p.writing /\ Len(q.queue) = C + 1 /\ q.queue[C + 1] = e
          /\ \A i \in 1 .. C : q.queue[i] = p.queue[i]
          /\ q.events = p.events /\ Held(q) = Held(p) + 1
      BY <1>2, PutFacts
    <2>. HIDE DEF q
    <2>2. \A i \in 1 .. C + 1 : i \in 1 .. C \/ i = C + 1  BY <1>1
    <2>3. b # 0 => Held(p) = 0 /\ e.kind = "chunk"  BY <1>2 DEF Window
    <2>4. e.kind = "chunk" => Held(p) <= 1  BY DEF Window
    <2>5. \A j \in 1 .. N : q.events[j].ahead <= Held(q) /\ (Held(p) = 0 => q.events[j].ahead = 0)
      BY <1>1, <2>1 DEF Window
    <2>6. Held(p) = 0 => C = 0 /\ Held(q) <= 1  BY <1>1, <2>1
    <2>7. \A i \in 1 .. C + 1 : q.queue[i].kind = "chunk" => i + q.writing <= 2
      <3>1. \A i \in 1 .. C : q.queue[i].kind = "chunk" => i + q.writing <= 2  BY <2>1 DEF Window
      <3>2. e.kind = "chunk" => C + 1 + q.writing <= 2  BY <1>1, <2>1, <2>4
      <3>. QED  BY <2>1, <2>2, <3>1, <3>2
    <2>8. b # 0 => \A i \in 1 .. C + 1 : q.queue[i].kind = "chunk"
      BY <1>1, <2>1, <2>2, <2>3, <2>6
    <2>9. cr2 <=> Held(q) = 0  BY DEF q
    <2>. QED  BY <2>1, <2>3, <2>5, <2>6, <2>7, <2>8, <2>9 DEF Window, q
  <1>3. CASE e.kind \notin {"chunk", "query"}
    <2>1. /\ q.writing = p.writing /\ q.queue = p.queue /\ Len(q.events) = N + 1
          /\ q.events[N + 1].ahead = Held(p)
          /\ \A j \in 1 .. N : q.events[j] = p.events[j]
          /\ Held(q) = Held(p)
      BY <1>3, PutFacts
    <2>. HIDE DEF q
    <2>2. \A j \in 1 .. N + 1 : j \in 1 .. N \/ j = N + 1  BY <1>1
    <2>3. b # 0 => Held(p) = 0  BY DEF Window
    <2>4. \A j \in 1 .. N + 1 : q.events[j].ahead <= Held(q) /\ (Held(p) = 0 => q.events[j].ahead = 0)
      <3>1. \A j \in 1 .. N : q.events[j].ahead <= Held(q) /\ (Held(p) = 0 => q.events[j].ahead = 0)
        BY <1>1, <2>1 DEF Window
      <3>2. q.events[N + 1].ahead <= Held(q)  BY <1>1, <2>1
      <3>. QED  BY <2>1, <2>2, <3>1, <3>2
    <2>5. Held(p) = 0 => C = 0  BY <1>1
    <2>6. cr2 <=> Held(q) = 0  BY DEF q
    <2>. QED  BY <2>1, <2>3, <2>4, <2>5, <2>6 DEF Window, q
  <1>. QED  BY <1>2, <1>3

\* No query gets between a connection's start and its chunks by putting an item that is none.
LEMMA PutQuiet ==
    ASSUME NEW p \in PortType, NEW l, NEW n, NEW e \in ItemType,
           \/ n = 0
           \/ /\ Quiet(p, l, n) /\ e.kind # "query"
              /\ e.kind = "chunk" => \A i \in 1 .. Len(p.queue) : p.queue[i].kind = "chunk"
           \/ e = Item("start", n, 0) /\ ~Queried(l, n)
    PROVE  Quiet(Put(p, e), l, n)
  <1>. DEFINE q == Put(p, e)
              N == Len(p.events)
              C == Len(p.queue)
  <1>1. C \in Nat /\ N \in Nat  BY PortFacts
  <1>2. CASE n = 0  BY <1>2 DEF Quiet
  <1>3. CASE n # 0 /\ Quiet(p, l, n) /\ e.kind = "chunk" /\ \A i \in 1 .. C : p.queue[i].kind = "chunk"
    <2>1. /\ Len(q.queue) = C + 1 /\ q.queue[C + 1] = e
          /\ \A i \in 1 .. C : q.queue[i] = p.queue[i]
      BY <1>3, PutFacts
    <2>2. \A i \in 1 .. C + 1 : i \in 1 .. C \/ i = C + 1  BY <1>1
    <2>3. \A i \in 1 .. C + 1 : q.queue[i].kind = "chunk"  BY <1>3, <2>1, <2>2
    <2>. QED  BY <1>3, <2>1, <2>3 DEF Quiet
  <1>4. CASE n # 0 /\ Quiet(p, l, n) /\ e.kind \notin {"chunk", "query"}
    <2>1. /\ q.queue = p.queue /\ Len(q.events) = N + 1
          /\ \A j \in 1 .. N : q.events[j] = p.events[j]
          /\ Held(q) = Held(p)
      BY <1>4, PutFacts
    <2>. HIDE DEF q
    <2>2. \A j \in 1 .. N : j \in 1 .. N + 1  BY <1>1
    <2>3. ASSUME NEW j \in 1 .. N, p.events[j].item = Item("start", n, 0) /\ p.events[j].ahead = Held(p)
          PROVE  j \in 1 .. N + 1 /\ q.events[j].item = Item("start", n, 0) /\ q.events[j].ahead = Held(q)
      BY <2>1, <2>2, <2>3
    <2>4. (\A i \in 1 .. C : p.queue[i].kind = "chunk")
            \/ \E j \in 1 .. N : p.events[j].item = Item("start", n, 0) /\ p.events[j].ahead = Held(p)
      BY <1>4 DEF Quiet
    <2>. QED  BY <1>4, <2>1, <2>3, <2>4 DEF Quiet, q
  <1>5. CASE n # 0 /\ e = Item("start", n, 0) /\ ~Queried(l, n)
    <2>1. e.kind \notin {"chunk", "query"}  BY <1>5 DEF Item
    <2>2. /\ Len(q.events) = N + 1 /\ q.events[N + 1].item = e /\ q.events[N + 1].ahead = Held(p)
          /\ Held(q) = Held(p)
      BY <2>1, PutFacts
    <2>. HIDE DEF q
    <2>3. N + 1 \in 1 .. N + 1  BY <1>1
    <2>. QED  BY <1>5, <2>2, <2>3 DEF Quiet, q
  <1>. QED  BY <1>2, <1>3, <1>4, <1>5

\* A rename is put into an empty port only, and nothing is put ahead of it.
LEMMA PutRenames ==
    ASSUME NEW p \in PortType, NEW l, NEW cr, NEW pull, NEW start,
           Window(p, l, cr, pull), Renames(p, l, pull, start),
           NEW e \in ItemType, e.kind = "rename" => Held(p) = 0 /\ ~Queried(l, e.conn),
           NEW b, b # 0 => cr /\ e.kind # "query", NEW start2, e.kind = "chunk" => ~start2
    PROVE  Renames(Put(p, e), l, b, start2)
  <1>. DEFINE q == Put(p, e)
              N == Len(p.events)
  <1>1. /\ N \in Nat /\ p.writing \in Nat /\ Len(p.queue) \in Nat /\ Held(p) = Len(p.queue) + p.writing
        /\ \A j \in 1 .. N : p.events[j].ahead \in Nat
    BY PortFacts
  <1>2. CASE e.kind \in {"chunk", "query"}
    <2>1. q.writing = p.writing /\ q.events = p.events  BY <1>2, PutFacts
    <2>. HIDE DEF q
    <2>2. ~(b # 0 /\ start2)  BY <1>2
    <2>. QED  BY <2>1, <2>2 DEF Renames, q
  <1>3. CASE e.kind \notin {"chunk", "query"}
    <2>1. /\ q.writing = p.writing /\ Len(q.events) = N + 1
          /\ q.events[N + 1].item = e /\ q.events[N + 1].ahead = Held(p)
          /\ \A j \in 1 .. N : q.events[j] = p.events[j]
          /\ Held(q) = Held(p)
      BY <1>3, PutFacts
    <2>. HIDE DEF q
    <2>2. b # 0 => Held(q) = 0  BY <2>1 DEF Window
    <2>3. \A j \in 1 .. N + 1 : j \in 1 .. N \/ j = N + 1  BY <1>1
    <2>4. ASSUME NEW j \in 1 .. N, q.events[j].item.kind = "rename"
          PROVE  /\ q.writing = 0 /\ ~Queried(l, q.events[j].item.conn)
                 /\ \A i \in 1 .. j : q.events[i].ahead = 0
      <3>1. \A i \in 1 .. j : i \in 1 .. N  BY <1>1
      <3>. QED  BY <2>1, <2>4, <3>1 DEF Renames
    <2>5. ASSUME e.kind = "rename"
          PROVE  /\ q.writing = 0 /\ ~Queried(l, e.conn)
                 /\ \A i \in 1 .. N + 1 : q.events[i].ahead = 0
      <3>1. Held(p) = 0 /\ ~Queried(l, e.conn)  BY <2>5
      <3>2. q.writing = 0  BY <1>1, <2>1, <3>1
      <3>3. \A i \in 1 .. N : q.events[i].ahead = 0  BY <1>1, <2>1, <3>1 DEF Window
      <3>. QED  BY <2>1, <2>3, <3>1, <3>2, <3>3
    <2>6. ASSUME NEW j \in 1 .. N + 1, q.events[j].item.kind = "rename"
          PROVE  /\ q.writing = 0 /\ ~Queried(l, q.events[j].item.conn)
                 /\ \A i \in 1 .. j : q.events[i].ahead = 0
      <3>1. CASE j \in 1 .. N  BY <2>4, <2>6, <3>1
      <3>2. CASE j = N + 1  BY <2>1, <2>5, <2>6, <3>2
      <3>. QED  BY <2>3, <3>1, <3>2
    <2>. QED  BY <2>1, <2>2, <2>6 DEF Renames, q
  <1>. QED  BY <1>2, <1>3

\* A connection that was not started may be started.
LEMMA PutStarts ==
    ASSUME NEW p \in PortType, NEW l, StartsOnce(p, l), NEW e \in ItemType,
           e.kind = "start" =>
              /\ ~Seen(l, "start", e.conn)
              /\ \A j \in 1 .. Len(p.events) :
                    ~(p.events[j].item.kind = "start" /\ p.events[j].item.conn = e.conn)
    PROVE  StartsOnce(Put(p, e), l)
  <1>. DEFINE q == Put(p, e)
              N == Len(p.events)
  <1>1. N \in Nat  BY PortFacts
  <1>2. CASE e.kind \in {"chunk", "query"}
    <2>1. q.events = p.events  BY <1>2, PutFacts
    <2>. QED  BY <2>1 DEF StartsOnce
  <1>3. CASE e.kind \notin {"chunk", "query"}
    <2>1. /\ Len(q.events) = N + 1 /\ q.events[N + 1].item = e
          /\ \A j \in 1 .. N : q.events[j] = p.events[j]
      BY <1>3, PutFacts
    <2>. HIDE DEF q
    <2>2. \A j \in 1 .. N + 1 : j \in 1 .. N \/ j = N + 1  BY <1>1
    <2>. QED  BY <2>1, <2>2 DEF StartsOnce, q
  <1>. QED  BY <1>2, <1>3

\* What is queued is chunks and queries.
LEMMA QueueKinds ==
    ASSUME NEW p \in PortType, NEW l, NEW h, NEW s, Streams(p, l, h, s)
    PROVE  \A i \in 1 .. Len(p.queue) : p.queue[i].kind \in {"chunk", "query"}
  <1>1. PICK st, z, c : Stream(p, l, h, s, st, z, c)  BY DEF Streams
  <1>2. Query.kind = "query" /\ \A a, b : Item("chunk", a, b).kind = "chunk"  BY DEF Query, Item
  <1>. QED  BY <1>1, <1>2 DEF Stream, Bytes

\* An event is reported, and leaves the port.
LEMMA ReportPort ==
    ASSUME NEW p \in PortType, NEW l, NEW cr, NEW pull, NEW n, NEW start,
           Window(p, l, cr, pull), Quiet(p, l, n), Renames(p, l, pull, start), StartsOnce(p, l),
           NEW e, Len(p.events) > 0, e = p.events[1].item, p.events[1].ahead = 0, p.writing = 0,
           e.kind # "query",
           NEW q \in PortType, q.queue = p.queue, q.writing = p.writing,
           Len(q.events) = Len(p.events) - 1,
           \A j \in 1 .. Len(q.events) : q.events[j] = p.events[j + 1],
           NEW k, Longer(k, l), Len(k) = Len(l) + 1, k[Len(l) + 1] = e
    PROVE  /\ Window(q, k, cr, pull) /\ Quiet(q, k, n) /\ Renames(q, k, pull, start) /\ StartsOnce(q, k)
  <1>. DEFINE N == Len(p.events)
              M == Len(q.events)
              C == Len(p.queue)
  <1>1. /\ N \in Nat /\ M \in Nat /\ N = M + 1 /\ C \in Nat /\ Held(p) = C /\ Held(q) = C
        /\ Len(l) \in Nat
    <2>1. Len(l) \in Nat  BY DEF Longer
    <2>2. N \in Nat /\ C \in Nat /\ Held(p) = C + 0 /\ Held(q) = C + 0 /\ M \in Nat  BY PortFacts
    <2>. QED  BY <2>1, <2>2
  <1>2. \A j \in 1 .. M : j + 1 \in 1 .. N  BY <1>1
  <1>3. \A i \in Len(l) + 1 .. Len(k) : k[i] = e
    <2>1. \A i \in Len(l) + 1 .. Len(k) : i = Len(l) + 1  BY <1>1
    <2>. QED  BY <2>1
  <1>4. ASSUME NEW m, ~Queried(l, m) PROVE ~Queried(k, m)
    BY <1>3, <1>4, QuietLonger
  <1>5. Window(q, k, cr, pull)
    <2>1. \A j \in 1 .. M : q.events[j].ahead <= Held(q) /\ (pull # 0 => q.events[j].ahead = 0)
      BY <1>1, <1>2 DEF Window
    <2>2. q.writing <= Len(k) /\ \A i : i \notin 1 .. q.writing  BY <1>1
    <2>3. \A i \in 1 .. Len(q.queue) : q.queue[i].kind = "chunk" => i + q.writing <= 2  BY DEF Window
    <2>4. (cr <=> Held(q) = 0) /\ (pull # 0 => Held(q) <= 1)  BY <1>1 DEF Window
    <2>5. pull # 0 => \A i \in 1 .. Len(q.queue) : q.queue[i].kind = "chunk"  BY DEF Window
    <2>. QED  BY <2>1, <2>2, <2>3, <2>4, <2>5 DEF Window
  <1>6. Quiet(q, k, n)
    <2>. SUFFICES ASSUME n # 0
                  PROVE  /\ ~Queried(k, n)
                         /\ \/ \A i \in 1 .. C : q.queue[i].kind = "chunk"
                            \/ \E j \in 1 .. M : q.events[j].item = Item("start", n, 0) /\ q.events[j].ahead = Held(q)
      BY DEF Quiet
    <2>1. ~Queried(k, n)  BY <1>4 DEF Quiet
    <2>2. CASE \A i \in 1 .. C : p.queue[i].kind = "chunk"  BY <2>1, <2>2
    <2>3. CASE \E j \in 1 .. N : p.events[j].item = Item("start", n, 0) /\ p.events[j].ahead = Held(p)
      <3>1. PICK j \in 1 .. N : p.events[j].item = Item("start", n, 0) /\ p.events[j].ahead = Held(p)
        BY <2>3
      <3>2. CASE j = 1
        <4>1. C = 0  BY <1>1, <3>1, <3>2
        <4>. QED  BY <2>1, <4>1
      <3>3. CASE j # 1
        <4>1. PICK i \in 1 .. M : j = i + 1
          <5>1. j - 1 \in 1 .. M /\ j = j - 1 + 1  BY <1>1, <3>3
          <5>. QED  BY <5>1
        <4>2. q.events[i] = p.events[j]  BY <4>1
        <4>. QED  BY <1>1, <2>1, <3>1, <4>1, <4>2
      <3>. QED  BY <3>2, <3>3
    <2>. QED  BY <2>2, <2>3 DEF Quiet
  <1>7. Renames(q, k, pull, start)
    <2>. SUFFICES ASSUME NEW j \in 1 .. M, q.events[j].item.kind = "rename"
                  PROVE  /\ q.writing = 0 /\ ~Queried(k, q.events[j].item.conn)
                         /\ \A i \in 1 .. j : q.events[i].ahead = 0
      BY <1>1 DEF Renames
    <2>1. j + 1 \in 1 .. N /\ q.events[j] = p.events[j + 1]  BY <1>2
    <2>2. ~Queried(l, q.events[j].item.conn) /\ \A i \in 1 .. j + 1 : p.events[i].ahead = 0
      BY <2>1 DEF Renames
    <2>3. \A i \in 1 .. j : i \in 1 .. M /\ i + 1 \in 1 .. j + 1  BY <1>1
    <2>4. \A i \in 1 .. j : q.events[i].ahead = 0  BY <2>2, <2>3
    <2>5. ~Queried(k, q.events[j].item.conn)  BY <1>4, <2>2
    <2>. QED  BY <2>4, <2>5
  <1>8. StartsOnce(q, k)
    <2>1. \A c : Seen(k, "start", c) => Seen(l, "start", c) \/ (e.kind = "start" /\ e.conn = c)
      BY <1>3, SeenLonger
    <2>2. 1 \in 1 .. N /\ \A j \in 1 .. M : j + 1 # 1  BY <1>1
    <2>3. ASSUME NEW j \in 1 .. M, q.events[j].item.kind = "start"
          PROVE  ~Seen(k, "start", q.events[j].item.conn)
      <3>1. j + 1 \in 1 .. N /\ q.events[j] = p.events[j + 1]  BY <1>2
      <3>2. ~Seen(l, "start", q.events[j].item.conn)  BY <2>3, <3>1 DEF StartsOnce
      <3>3. ~(e.kind = "start" /\ e.conn = q.events[j].item.conn)  BY <2>2, <2>3, <3>1 DEF StartsOnce
      <3>. QED  BY <2>1, <3>2, <3>3
    <2>4. ASSUME NEW i \in 1 .. M, NEW j \in 1 .. M,
                 q.events[i].item.kind = "start" /\ q.events[j].item.kind = "start"
                   /\ q.events[i].item.conn = q.events[j].item.conn
          PROVE  i = j
      <3>1. /\ i + 1 \in 1 .. N /\ q.events[i] = p.events[i + 1]
            /\ j + 1 \in 1 .. N /\ q.events[j] = p.events[j + 1]
        BY <1>2
      <3>2. i + 1 = j + 1  BY <2>4, <3>1 DEF StartsOnce
      <3>. QED  BY <1>1, <3>2
    <2>. QED  BY <2>3, <2>4 DEF StartsOnce
  <1>. QED  BY <1>5, <1>6, <1>7, <1>8

\* A write takes what is queued from its head.
\* The first w items of the queue of p are written to the log, and the port is q.
Wrote(p, l, w, k, q) ==
    /\ \A i \in 1 .. Len(p.queue) : p.queue[i].kind \in {"chunk", "query"}
    /\ p.writing = 0 /\ (Len(p.events) > 0 => p.events[1].ahead # 0)
    /\ w \in 1 .. Len(p.queue)
    /\ Longer(k, l) /\ Len(k) = Len(l) + w
    /\ \A i \in 1 .. w : k[Len(l) + i] = p.queue[i]
    /\ q \in PortType /\ q.writing = w /\ q.events = p.events /\ Len(q.queue) = Len(p.queue) - w
    /\ \A i \in 1 .. Len(p.queue) - w : q.queue[i] = p.queue[w + i]

\* What the port holds stays as it should be when a write starts.
LEMMA WritePort ==
    ASSUME NEW p \in PortType, NEW l, NEW cr, NEW pull, NEW n, NEW start,
           Window(p, l, cr, pull), Quiet(p, l, n), Renames(p, l, pull, start), StartsOnce(p, l),
           NEW w, NEW k, NEW q, Wrote(p, l, w, k, q)
    PROVE  /\ Window(q, k, cr, pull) /\ Quiet(q, k, n) /\ Renames(q, k, pull, start) /\ StartsOnce(q, k)
  <1>. USE DEF Wrote
  <1>. DEFINE N == Len(p.events)
              C == Len(p.queue)
  <1>1. /\ N \in Nat /\ C \in Nat /\ w \in Nat /\ w >= 1 /\ Held(p) = C /\ Held(q) = C
        /\ Len(l) \in Nat
    <2>1. Len(l) \in Nat  BY DEF Longer
    <2>2. N \in Nat /\ C \in Nat /\ Held(p) = C + 0  BY PortFacts
    <2>3. Held(q) = C - w + w  BY PortFacts
    <2>. QED  BY <2>1, <2>2, <2>3
  <1>2. \A i \in 1 .. C - w : w + i \in 1 .. C  BY <1>1
  <1>3. \A i \in 1 .. w : i \in 1 .. C  BY <1>1
  <1>4. \A i \in Len(l) + 1 .. Len(k) : \E j \in 1 .. w : i = Len(l) + j
    <2>. SUFFICES ASSUME NEW i \in Len(l) + 1 .. Len(k) PROVE \E j \in 1 .. w : i = Len(l) + j
      OBVIOUS
    <2>1. i - Len(l) \in 1 .. w /\ i = Len(l) + (i - Len(l))  BY <1>1
    <2>. QED  BY <2>1
  <1>5. \A m : Seen(k, "start", m) => Seen(l, "start", m)
    <2>1. \A i \in Len(l) + 1 .. Len(k) : k[i].kind # "start"
      <3>. SUFFICES ASSUME NEW i \in Len(l) + 1 .. Len(k) PROVE k[i].kind # "start"
        OBVIOUS
      <3>1. PICK j \in 1 .. w : i = Len(l) + j  BY <1>4
      <3>2. k[i] = p.queue[j] /\ j \in 1 .. C  BY <1>3, <3>1
      <3>3. p.queue[j].kind \in {"chunk", "query"}  BY <3>2
      <3>. QED  BY <3>2, <3>3
    <2>. QED  BY <2>1, SeenLonger
  <1>6. Window(q, k, cr, pull)
    <2>1. \A j \in 1 .. N : q.events[j].ahead <= Held(q) /\ (pull # 0 => q.events[j].ahead = 0)
      BY <1>1 DEF Window
    <2>2. q.writing <= Len(k)  BY <1>1
    <2>3. ASSUME NEW i \in 1 .. Len(q.queue), q.queue[i].kind = "chunk" PROVE i + q.writing <= 2
      <3>1. w + i \in 1 .. C /\ p.queue[w + i].kind = "chunk"  BY <1>2, <2>3
      <3>2. w + i + p.writing <= 2  BY <3>1 DEF Window
      <3>. QED  BY <1>1, <3>2
    <2>4. ASSUME NEW i \in 1 .. q.writing, k[Len(k) - q.writing + i].kind = "chunk" PROVE i <= 2
      <3>1. Len(k) - q.writing + i = Len(l) + i /\ i \in 1 .. C  BY <1>1, <1>3
      <3>2. p.queue[i].kind = "chunk"  BY <2>4, <3>1
      <3>3. i + p.writing <= 2  BY <3>1, <3>2 DEF Window
      <3>. QED  BY <3>3
    <2>5. (cr <=> Held(q) = 0) /\ (pull # 0 => Held(q) <= 1)  BY <1>1 DEF Window
    <2>6. pull # 0 => \A i \in 1 .. Len(q.queue) : q.queue[i].kind = "chunk"
      BY <1>2 DEF Window
    <2>. QED  BY <2>1, <2>2, <2>3, <2>4, <2>5, <2>6 DEF Window
  <1>7. Quiet(q, k, n)
    <2>. SUFFICES ASSUME n # 0
                  PROVE  /\ ~Queried(k, n)
                         /\ \/ \A i \in 1 .. Len(q.queue) : q.queue[i].kind = "chunk"
                            \/ \E j \in 1 .. N : p.events[j].item = Item("start", n, 0) /\ p.events[j].ahead = Held(q)
      BY DEF Quiet
    <2>1. CASE \A i \in 1 .. C : p.queue[i].kind = "chunk"
      <3>1. \A i \in 1 .. Len(q.queue) : q.queue[i].kind = "chunk"
        <4>. SUFFICES ASSUME NEW i \in 1 .. C - w PROVE q.queue[i].kind = "chunk"
          OBVIOUS
        <4>1. w + i \in 1 .. C /\ q.queue[i] = p.queue[w + i]  BY <1>2
        <4>2. p.queue[w + i].kind = "chunk"  BY <2>1, <4>1
        <4>. QED  BY <4>1, <4>2
      <3>2. \A i \in Len(l) + 1 .. Len(k) : k[i].kind # "query"
        <4>. SUFFICES ASSUME NEW i \in Len(l) + 1 .. Len(k) PROVE k[i].kind # "query"
          OBVIOUS
        <4>1. PICK j \in 1 .. w : i = Len(l) + j  BY <1>4
        <4>2. k[i] = p.queue[j] /\ j \in 1 .. C  BY <1>3, <4>1
        <4>. QED  BY <2>1, <4>2
      <3>. QED  BY <3>1, <3>2, QuietLonger DEF Quiet
    <2>2. CASE \E j \in 1 .. N : p.events[j].item = Item("start", n, 0) /\ p.events[j].ahead = Held(p)
      <3>1. PICK j \in 1 .. N : p.events[j].item = Item("start", n, 0) /\ p.events[j].ahead = Held(p)
        BY <2>2
      <3>2. p.events[j].item.kind = "start" /\ p.events[j].item.conn = n  BY <3>1 DEF Item
      <3>3. ~Seen(k, "start", n)  BY <1>5, <3>2 DEF StartsOnce
      <3>4. ~Queried(k, n)
        <4>. SUFFICES ASSUME Queried(k, n) PROVE FALSE
          OBVIOUS
        <4>1. PICK i \in DOMAIN k : k[i] = Spool!Item("start", n, 0)  BY DEF Queried, Spool!Queried
        <4>2. k[i].kind = "start" /\ k[i].conn = n  BY <4>1 DEF Spool!Item
        <4>. QED  BY <3>3, <4>2 DEF Seen, Spool!Seen
      <3>. QED  BY <1>1, <3>1, <3>4
    <2>. QED  BY <2>1, <2>2 DEF Quiet
  <1>8. Renames(q, k, pull, start)
    <2>1. \A j \in 1 .. N : p.events[j].item.kind # "rename"
      <3>. SUFFICES ASSUME NEW j \in 1 .. N, p.events[j].item.kind = "rename" PROVE FALSE
        OBVIOUS
      <3>1. 1 \in 1 .. j /\ N > 0  BY <1>1
      <3>. QED  BY <3>1 DEF Renames
    <2>. QED  BY <1>1, <2>1 DEF Renames
  <1>9. StartsOnce(q, k)  BY <1>5 DEF StartsOnce
  <1>. QED  BY <1>6, <1>7, <1>8, <1>9

\* A write returns, and the window opens by as much.
LEMMA ReturnPort ==
    ASSUME NEW p \in PortType, NEW l, NEW cr, NEW pull, NEW n, NEW start,
           Window(p, l, cr, pull), Quiet(p, l, n), Renames(p, l, pull, start), StartsOnce(p, l),
           p.writing > 0,
           NEW q \in PortType, q.queue = p.queue, q.writing = 0, Len(q.events) = Len(p.events),
           \A j \in 1 .. Len(p.events) :
              /\ q.events[j].item = p.events[j].item
              /\ q.events[j].ahead =
                    IF p.events[j].ahead > p.writing THEN p.events[j].ahead - p.writing ELSE 0,
           NEW cr2, cr2 <=> Held(q) = 0, NEW b, b = pull \/ b = 0 \/ Held(q) = 0
    PROVE  /\ Window(q, l, cr2, b) /\ Quiet(q, l, n) /\ Renames(q, l, b, start) /\ StartsOnce(q, l)
  <1>. DEFINE N == Len(p.events)
              C == Len(p.queue)
  <1>1. /\ N \in Nat /\ C \in Nat /\ p.writing \in Nat /\ Held(p) = C + p.writing /\ Held(q) = C
        /\ \A j \in 1 .. N : p.events[j].ahead \in Nat
    <2>1. Held(q) = C + 0 /\ C \in Nat  BY PortFacts
    <2>2. Held(q) = C  BY <2>1
    <2>. QED  BY <2>2, PortFacts
  <1>2. Window(q, l, cr2, b)
    <2>1. \A j \in 1 .. N : /\ q.events[j].ahead <= C
                            /\ C = 0 => q.events[j].ahead = 0
                            /\ p.events[j].ahead = 0 => q.events[j].ahead = 0
      <3>. SUFFICES ASSUME NEW j \in 1 .. N
                    PROVE  /\ q.events[j].ahead <= C
                           /\ C = 0 => q.events[j].ahead = 0
                           /\ p.events[j].ahead = 0 => q.events[j].ahead = 0
        OBVIOUS
      <3>1. p.events[j].ahead <= C + p.writing /\ p.events[j].ahead \in Nat  BY <1>1 DEF Window
      <3>2. q.events[j].ahead = IF p.events[j].ahead > p.writing THEN p.events[j].ahead - p.writing ELSE 0
        OBVIOUS
      <3>. QED  BY <1>1, <3>1, <3>2
    <2>2. b # 0 => pull # 0 \/ C = 0  BY <1>1
    <2>3. pull # 0 => /\ C <= 1 /\ \A j \in 1 .. N : p.events[j].ahead = 0
                      /\ \A i \in 1 .. C : p.queue[i].kind = "chunk"
      BY <1>1 DEF Window
    <2>4. b # 0 => /\ Held(q) <= 1
                   /\ \A j \in 1 .. N : q.events[j].ahead = 0
                   /\ \A i \in 1 .. C : q.queue[i].kind = "chunk"
      <3>1. CASE pull # 0  BY <1>1, <2>1, <2>3, <3>1
      <3>2. CASE C = 0  BY <1>1, <2>1, <3>2
      <3>. QED  BY <2>2, <3>1, <3>2
    <2>5. ASSUME NEW i \in 1 .. C, q.queue[i].kind = "chunk" PROVE i + q.writing <= 2
      <3>1. i + p.writing <= 2  BY <2>5 DEF Window
      <3>. QED  BY <1>1, <3>1
    <2>6. Len(l) - 0 = Len(l) /\ q.writing <= Len(l) /\ \A i : i \notin 1 .. q.writing
      <3>1. p.writing <= Len(l)  BY DEF Window
      <3>. QED  BY <1>1, <3>1 DEF Window
    <2>. QED  BY <1>1, <2>1, <2>4, <2>5, <2>6 DEF Window
  <1>3. Quiet(q, l, n)
    <2>1. ASSUME NEW j \in 1 .. N, p.events[j].ahead = Held(p) PROVE q.events[j].ahead = Held(q)
      <3>1. q.events[j].ahead = IF p.events[j].ahead > p.writing THEN p.events[j].ahead - p.writing ELSE 0
        OBVIOUS
      <3>. QED  BY <1>1, <2>1, <3>1
    <2>. QED  BY <2>1 DEF Quiet
  <1>4. Renames(q, l, b, start)
    <2>1. \A j \in 1 .. N : q.events[j].item.kind # "rename"  BY DEF Renames
    <2>2. b # 0 /\ start => Held(q) = 0  BY <1>1 DEF Renames
    <2>. QED  BY <2>1, <2>2 DEF Renames
  <1>5. StartsOnce(q, l)  BY DEF StartsOnce
  <1>. QED  BY <1>2, <1>3, <1>4, <1>5

-----------------------------------------------------------------------------
(* Transaction ids and the next pull *)

\* What the assumption on the constants says.
LEMMA ConnFacts ==
    /\ Conns = 1 .. MaxConns /\ MaxConns \in Nat \ {0} /\ 0 \notin Conns
    /\ JobLen \in Nat \ {0} /\ CacheLen \in Nat \ {0} /\ MaxJobs \in Nat \ {0}
    /\ MaxSeq \in Nat /\ MaxSeq > CacheLen /\ 1 \in 1 .. MaxSeq
    /\ \A n : n \in Conns <=> n \in 0 .. MaxConns /\ n # 0
  BY PapAssumption DEF PapAssumption, Conns

\* More than enough ids are tried: one is free.
LEMMA FreeTidFresh ==
    ASSUME TypeOK
    PROVE  /\ FreeTid \in Nat \ {0} /\ FreeTid # session.pull
           /\ \A p \in pulls \cup replies : p.tid # FreeTid
           /\ \A i \in 1 .. Len(inbox) : inbox[i].tid # FreeTid
  <1>. DEFINE A == pulls \cup replies
              K == Cardinality(A)
              L == Len(inbox)
              B == K + L + 2
              T1 == {p.tid : p \in A}
              T2 == {inbox[i].tid : i \in 1 .. L}
              Free(t) == t # session.pull /\ \A p \in pulls \cup replies \cup Range(inbox) : p.tid # t
  <1>1. IsFiniteSet(A) /\ K \in Nat /\ L \in Nat /\ DOMAIN inbox = 1 .. L
    <2>1. IsFiniteSet(pulls) /\ IsFiniteSet(replies) /\ inbox \in Seq(PullType)  BY DEF TypeOK
    <2>2. IsFiniteSet(A)  BY <2>1, FS_Union
    <2>. QED  BY <2>1, <2>2, FS_CardinalityType
  <1>2. IsFiniteSet(T1) /\ Cardinality(T1) \in Nat /\ Cardinality(T1) <= K
    <2>. DEFINE f == [p \in A |-> p.tid]
    <2>1. f \in Surjection(A, T1)  BY DEF Surjection
    <2>. HIDE DEF f, A, T1
    <2>2. IsFiniteSet(T1) /\ Cardinality(T1) <= Cardinality(A)  BY <1>1, <2>1, FS_Surjection
    <2>. QED  BY <2>2, FS_CardinalityType
  <1>3. IsFiniteSet(T2) /\ Cardinality(T2) \in Nat /\ Cardinality(T2) <= L
    <2>. DEFINE g == [i \in 1 .. L |-> inbox[i].tid]
    <2>1. g \in Surjection(1 .. L, T2)  BY DEF Surjection
    <2>. HIDE DEF g, T2
    <2>2. IsFiniteSet(1 .. L) /\ Cardinality(1 .. L) = L
      <3>1. PICK E \in Nat : E = L  BY <1>1
      <3>2. IsFiniteSet(1 .. E) /\ Cardinality(1 .. E) = IF 1 > E THEN 0 ELSE E - 1 + 1  BY FS_Interval
      <3>3. Cardinality(1 .. E) = E  BY <3>2
      <3>. QED  BY <3>1, <3>2, <3>3
    <2>3. IsFiniteSet(T2) /\ Cardinality(T2) <= Cardinality(1 .. L)  BY <2>1, <2>2, FS_Surjection
    <2>. QED  BY <2>2, <2>3, FS_CardinalityType
  <1>. HIDE DEF T1, T2
  <1>4. PICK U : U = T1 \cup T2  OBVIOUS
  <1>5. IsFiniteSet(U) /\ Cardinality(U) \in Nat /\ Cardinality(U) <= K + L
    <2>1. IsFiniteSet(T1 \cup T2)
          /\ Cardinality(T1 \cup T2) = Cardinality(T1) + Cardinality(T2) - Cardinality(T1 \cap T2)
      BY <1>2, <1>3, FS_Union
    <2>2. T1 \cap T2 \in SUBSET T1  OBVIOUS
    <2>3. IsFiniteSet(T1 \cap T2)  BY <1>2, <2>2, FS_Subset
    <2>4. Cardinality(T1 \cap T2) \in Nat  BY <2>3, FS_CardinalityType
    <2>5. Cardinality(T1 \cup T2) \in Nat  BY <2>1, FS_CardinalityType
    <2>. QED  BY <1>1, <1>2, <1>3, <1>4, <2>1, <2>4, <2>5
  <1>6. PICK V : V = U \cup {session.pull}  OBVIOUS
  <1>7. IsFiniteSet(V) /\ Cardinality(V) \in Nat /\ Cardinality(V) <= K + L + 1
    <2>1. /\ IsFiniteSet(U \cup {session.pull})
          /\ Cardinality(U \cup {session.pull}) =
                IF session.pull \in U THEN Cardinality(U) ELSE Cardinality(U) + 1
      BY <1>5, FS_AddElement
    <2>2. IsFiniteSet(V) /\ (Cardinality(V) = Cardinality(U) \/ Cardinality(V) = Cardinality(U) + 1)
      BY <1>6, <2>1
    <2>. QED  BY <1>1, <1>5, <2>2
  <1>8. PICK D \in Nat : D = B  BY <1>1
  <1>9. \E t \in 1 .. D : t \notin V
    <2>. SUFFICES ASSUME 1 .. D \in SUBSET V PROVE FALSE
      OBVIOUS
    <2>1. IsFiniteSet(1 .. D) /\ Cardinality(1 .. D) = IF 1 > D THEN 0 ELSE D - 1 + 1  BY FS_Interval
    <2>2. Cardinality(1 .. D) <= Cardinality(V)  BY <1>7, FS_Subset
    <2>. QED  BY <1>1, <1>7, <1>8, <2>1, <2>2
  <1>10. \E t \in 1 .. B : Free(t)
    <2>1. PICK t \in 1 .. D : t \notin V  BY <1>9
    <2>2. t # session.pull /\ t \notin T1 /\ t \notin T2  BY <1>4, <1>6, <2>1
    <2>3. \A p \in A : p.tid # t  BY <2>2 DEF T1
    <2>4. \A i \in 1 .. L : inbox[i].tid # t  BY <2>2 DEF T2
    <2>5. \A p \in Range(inbox) : p.tid # t  BY <1>1, <2>4 DEF Range
    <2>. QED  BY <1>8, <2>1, <2>2, <2>3, <2>5
  <1>11. FreeTid \in 1 .. B /\ Free(FreeTid)
    <2>1. FreeTid = CHOOSE t \in 1 .. B : Free(t)  BY DEF FreeTid
    <2>. HIDE DEF Free, B
    <2>. QED  BY <1>10, <2>1
  <1>12. \A i \in 1 .. L : inbox[i] \in Range(inbox)  BY <1>1 DEF Range
  <1>. QED  BY <1>1, <1>11, <1>12

\* What the type of a session says.
LEMMA SessionFacts ==
    ASSUME NEW s, SessionOk(s)
    PROVE  /\ s = NoSession <=> s.n = 0
           /\ s.n # 0 => s.n \in Conns /\ s.id = SocketOf[s.n]
           /\ s.pull \in Nat /\ s.bytes \in Nat /\ s.seq \in 1 .. MaxSeq
           /\ s.n = 0 => s.pull = 0
  <1>1. NoSession.n = 0 /\ NoSession.pull = 0  BY DEF NoSession, Session
  <1>. QED  BY <1>1, ConnFacts DEF SessionOk

\* The session after a step, and the pull that goes out.
LEMMA MaybePull ==
    ASSUME TypeOK, NEW s, SessionOk(s), NEW others \in SUBSET PullType, IsFiniteSet(others),
           NEW old, NEW new, maybe_pull(s, others, old, new)
    PROVE  /\ SessionOk(session')
           /\ session'.n = s.n /\ session'.id = s.id /\ session'.seq = s.seq /\ session'.bytes = s.bytes
           /\ pulls' \in SUBSET PullType /\ IsFiniteSet(pulls')
           /\ \/ session'.pull = s.pull /\ pulls' = others
              \/ /\ s.n # 0 /\ s.pull = 0 /\ (old \/ new) /\ session'.pull = FreeTid
                 /\ pulls' = others \cup {[tid |-> FreeTid, id |-> s.id, seq |-> s.seq]}
  <1>1. /\ s = NoSession <=> s.n = 0
        /\ s.n # 0 => s.n \in Conns /\ s.id = SocketOf[s.n]
        /\ s.seq \in 1 .. MaxSeq
    BY SessionFacts
  <1>2. CASE s # NoSession /\ s.pull = 0 /\ (old \/ new)
    <2>1. session' = [s EXCEPT !.pull = FreeTid]
          /\ pulls' = others \cup {[tid |-> FreeTid, id |-> s.id, seq |-> s.seq]}
      BY <1>2 DEF maybe_pull
    <2>2. PICK t \in Nat \ {0} : t = FreeTid  BY FreeTidFresh
    <2>3. session' = [n |-> s.n, id |-> s.id, seq |-> s.seq, pull |-> t, bytes |-> s.bytes,
                      rseq |-> s.rseq, cache |-> s.cache, pending |-> s.pending, stdout |-> s.stdout]
      BY <2>1, <2>2 DEF SessionOk
    <2>4. /\ session'.n = s.n /\ session'.id = s.id /\ session'.seq = s.seq /\ session'.bytes = s.bytes
          /\ session'.pull = t
          /\ SessionOk(session')
      BY <1>1, <1>2, <2>3 DEF SessionOk
    <2>5. [tid |-> t, id |-> s.id, seq |-> s.seq] \in PullType  BY <1>1, <1>2 DEF PullType
    <2>6. IsFiniteSet(others \cup {[tid |-> t, id |-> s.id, seq |-> s.seq]})  BY FS_AddElement
    <2>. QED  BY <1>1, <1>2, <2>1, <2>2, <2>4, <2>5, <2>6
  <1>3. CASE ~(s # NoSession /\ s.pull = 0 /\ (old \/ new))
    <2>1. session' = s /\ pulls' = others  BY <1>3 DEF maybe_pull
    <2>. QED  BY <2>1
  <1>. QED  BY <1>2, <1>3

\* Session records of the server's steps.
LEMMA NewSession ==
    ASSUME NEW n \in Conns
    PROVE  /\ SessionOk(Session(n, SocketOf[n])) /\ Session(n, SocketOf[n]).n = n
           /\ Session(n, SocketOf[n]).id = SocketOf[n] /\ Session(n, SocketOf[n]).seq = 1
           /\ Session(n, SocketOf[n]).pull = 0 /\ Session(n, SocketOf[n]).bytes = 0
  BY ConnFacts DEF Session, SessionOk

\* No session is one of the sessions there may be.
LEMMA NoSessionOk == SessionOk(NoSession) /\ NoSession.n = 0 /\ NoSession.pull = 0
  BY ConnFacts DEF NoSession, Session, SessionOk

\* next_pap_seq stays within the sequence numbers.
LEMMA NextSeq ==
    ASSUME NEW q \in 1 .. MaxSeq
    PROVE  next_pap_seq(q) \in 1 .. MaxSeq
  BY ConnFacts DEF next_pap_seq

\* The session that has accepted a reply.
LEMMA AcceptSession ==
    ASSUME NEW s, SessionOk(s), s.n # 0, NEW reply
    PROVE  /\ SessionOk(Accept(s, reply)) /\ Accept(s, reply).n = s.n /\ Accept(s, reply).id = s.id
           /\ Accept(s, reply).pull = 0 /\ Accept(s, reply).seq = next_pap_seq(s.seq)
           /\ Accept(s, reply).bytes = IF reply.eof THEN 0 ELSE 1
  <1>1. PICK q \in 1 .. MaxSeq : q = next_pap_seq(s.seq)
    <2>1. next_pap_seq(s.seq) \in 1 .. MaxSeq  BY NextSeq DEF SessionOk
    <2>. QED  BY <2>1
  <1>2. PICK b \in {0, 1} : b = IF reply.eof THEN 0 ELSE 1  OBVIOUS
  <1>3. Accept(s, reply) = [n |-> s.n, id |-> s.id, seq |-> q, pull |-> 0, bytes |-> b,
            rseq |-> s.rseq, cache |-> s.cache, pending |-> s.pending, stdout |-> s.stdout]
    <2>0. PICK x : x = [s EXCEPT !.pull = 0, !.seq = q]  OBVIOUS
    <2>1. x = [n |-> s.n, id |-> s.id, seq |-> q, pull |-> 0, bytes |-> s.bytes,
               rseq |-> s.rseq, cache |-> s.cache, pending |-> s.pending, stdout |-> s.stdout]
      BY <2>0 DEF SessionOk
    <2>2. [s EXCEPT !.pull = 0, !.seq = next_pap_seq(@)] = x  BY <1>1, <2>0, Zenon
    <2>3. Accept(s, reply) = IF reply.eof THEN [x EXCEPT !.bytes = 0] ELSE [x EXCEPT !.bytes = 1]
      BY <2>2, Zenon DEF Accept
    <2>4. Accept(s, reply) = [x EXCEPT !.bytes = b]  BY <1>2, <2>3
    <2>. QED  BY <2>1, <2>4
  <1>. QED  BY <1>1, <1>2, <1>3 DEF SessionOk

\* The session whose pull failed.
LEMMA NoPull ==
    ASSUME NEW s, SessionOk(s), s.n # 0
    PROVE  /\ SessionOk([s EXCEPT !.pull = 0]) /\ [s EXCEPT !.pull = 0].n = s.n
           /\ [s EXCEPT !.pull = 0].id = s.id /\ [s EXCEPT !.pull = 0].pull = 0
           /\ [s EXCEPT !.pull = 0].seq = s.seq /\ [s EXCEPT !.pull = 0].bytes = s.bytes
  BY DEF SessionOk

-----------------------------------------------------------------------------
(* What each step changes *)

SameSession ==
    /\ SessionOk(session')
    /\ session'.n = session.n /\ session'.id = session.id /\ session'.seq = session.seq
    /\ session'.pull = session.pull /\ session'.bytes = session.bytes

\* Reads and output change only the fields of a session that the pulls do not see.
LEMMA FieldSession ==
    ASSUME NEW s, SessionOk(s), s.n # 0, NEW t,
           \/ \E x : t = [s EXCEPT !.pending = x]
           \/ \E x : t = [s EXCEPT !.pending.live = x]
           \/ \E x : t = [s EXCEPT !.stdout = x]
           \/ t = answer_read(s)
    PROVE  /\ SessionOk(t) /\ t.n = s.n /\ t.id = s.id /\ t.seq = s.seq /\ t.pull = s.pull /\ t.bytes = s.bytes
  <1>1. ASSUME NEW x, t = [s EXCEPT !.pending = x]
        PROVE  t = [n |-> s.n, id |-> s.id, seq |-> s.seq, pull |-> s.pull, bytes |-> s.bytes,
                    rseq |-> s.rseq, cache |-> s.cache, pending |-> x, stdout |-> s.stdout]
    BY <1>1 DEF SessionOk
  <1>2. ASSUME NEW x, t = [s EXCEPT !.pending.live = x]
        PROVE  \E y : t = [s EXCEPT !.pending = y]
    <2>1. t = [s EXCEPT !.pending = [s.pending EXCEPT !.live = x]]  BY <1>2
    <2>. QED  BY <2>1
  <1>3. ASSUME NEW x, t = [s EXCEPT !.stdout = x]
        PROVE  t = [n |-> s.n, id |-> s.id, seq |-> s.seq, pull |-> s.pull, bytes |-> s.bytes,
                    rseq |-> s.rseq, cache |-> s.cache, pending |-> s.pending, stdout |-> x]
    BY <1>3 DEF SessionOk
  <1>4. ASSUME t = answer_read(s)
        PROVE  \E a, b, c, d : t = [n |-> s.n, id |-> s.id, seq |-> s.seq, pull |-> s.pull, bytes |-> s.bytes,
                    rseq |-> a, cache |-> b, pending |-> c, stdout |-> d]
    <2>1. PICK a : a = next_pap_seq(s.rseq)  OBVIOUS
    <2>2. PICK b : b = Remember(s.cache, s.pending.seq, [kind |-> "data", data |-> s.stdout])  OBVIOUS
    <2>3. answer_read(s) = [s EXCEPT !.pending = None, !.stdout = <<>>, !.rseq = a, !.cache = b]
      BY <2>1, <2>2, Zenon DEF answer_read
    <2>4. t = [n |-> s.n, id |-> s.id, seq |-> s.seq, pull |-> s.pull, bytes |-> s.bytes,
               rseq |-> a, cache |-> b, pending |-> None, stdout |-> <<>>]
      BY <1>4, <2>3 DEF SessionOk
    <2>. QED  BY <2>4
  <1>5. ASSUME NEW a, NEW b, NEW c, NEW d,
               t = [n |-> s.n, id |-> s.id, seq |-> s.seq, pull |-> s.pull, bytes |-> s.bytes,
                    rseq |-> a, cache |-> b, pending |-> c, stdout |-> d]
        PROVE  /\ SessionOk(t) /\ t.n = s.n /\ t.id = s.id /\ t.seq = s.seq /\ t.pull = s.pull /\ t.bytes = s.bytes
    BY <1>5 DEF SessionOk
  <1>6. ASSUME NEW x, t = [s EXCEPT !.pending = x]
        PROVE  /\ SessionOk(t) /\ t.n = s.n /\ t.id = s.id /\ t.seq = s.seq /\ t.pull = s.pull /\ t.bytes = s.bytes
    BY <1>1, <1>5, <1>6
  <1>. QED  BY <1>2, <1>3, <1>4, <1>5, <1>6

\* The actions that are about reads and output leave the session's pulls alone.
LEMMA SessionKept ==
    ASSUME TypeOK, NEW r, SendData(r) \/ IdleAnswer \/ PrinterInput \/ Abandoned \/ session' = session
    PROVE  SameSession
  <1>1. SessionOk(session) /\ (session = NoSession <=> session.n = 0)  BY SessionFacts DEF TypeOK
  <1>2. CASE SendData(r)
    <2>1. session.n # 0  BY <1>1, <1>2 DEF SendData
    <2>2. CASE session' = session  BY <1>1, <2>2 DEF SameSession
    <2>3. CASE r.seq = session.rseq
      <3>1. PICK x : x = [kind |-> "read", seq |-> r.seq, live |-> r.live]  OBVIOUS
      <3>2. PICK s : s = [session EXCEPT !.pending = x]  OBVIOUS
      <3>3. session' = answer_read(s) \/ session' = s  BY <1>2, <2>3, <3>1, <3>2 DEF SendData
      <3>4. /\ SessionOk(s) /\ s.n = session.n /\ s.id = session.id /\ s.seq = session.seq
            /\ s.pull = session.pull /\ s.bytes = session.bytes
        BY <1>1, <2>1, <3>2, FieldSession
      <3>5. CASE session' = answer_read(s)
        <4>1. /\ SessionOk(session') /\ session'.n = s.n /\ session'.id = s.id /\ session'.seq = s.seq
              /\ session'.pull = s.pull /\ session'.bytes = s.bytes
          BY <2>1, <3>4, <3>5, FieldSession
        <4>. QED  BY <3>4, <4>1 DEF SameSession
      <3>. QED  BY <3>3, <3>4, <3>5 DEF SameSession
    <2>. QED  BY <1>2, <2>2, <2>3 DEF SendData
  <1>3. CASE IdleAnswer
    <2>1. session.n # 0 /\ session' = answer_read(session)  BY <1>1, <1>3 DEF IdleAnswer
    <2>. QED  BY <1>1, <2>1, FieldSession DEF SameSession
  <1>4. CASE PrinterInput
    <2>1. session.n # 0  BY <1>1, <1>4 DEF PrinterInput
    <2>2. PICK x : x = Append(session.stdout, sentOut[session.n] + 1)  OBVIOUS
    <2>3. PICK s : s = [session EXCEPT !.stdout = x]  OBVIOUS
    <2>4. s = [session EXCEPT !.stdout = Append(@, sentOut[session.n] + 1)]  BY <2>2, <2>3, Zenon
    <2>5. session' = answer_read(s) \/ session' = s  BY <1>4, <2>4 DEF PrinterInput
    <2>6. /\ SessionOk(s) /\ s.n = session.n /\ s.id = session.id /\ s.seq = session.seq
          /\ s.pull = session.pull /\ s.bytes = session.bytes
      BY <1>1, <2>1, <2>3, FieldSession
    <2>7. CASE session' = answer_read(s)
      <3>1. /\ SessionOk(session') /\ session'.n = s.n /\ session'.id = s.id /\ session'.seq = s.seq
            /\ session'.pull = s.pull /\ session'.bytes = s.bytes
        BY <2>1, <2>6, <2>7, FieldSession
      <3>. QED  BY <2>6, <3>1 DEF SameSession
    <2>. QED  BY <2>5, <2>6, <2>7 DEF SameSession
  <1>5. CASE Abandoned
    <2>1. CASE session' = session  BY <1>1, <2>1 DEF SameSession
    <2>2. CASE session # NoSession /\ session' = [session EXCEPT !.pending.live = FALSE]
      BY <1>1, <2>2, FieldSession DEF SameSession
    <2>. QED  BY <1>5, <2>1, <2>2 DEF Abandoned
  <1>6. CASE session' = session  BY <1>1, <1>6 DEF SameSession
  <1>. QED  BY <1>2, <1>3, <1>4, <1>5, <1>6

\* Neither the port nor the pulls are touched.
Still ==
    /\ SameSession
    /\ UNCHANGED <<replies, credit, port, jobStart, handed, taken, log>>

\* Types survive a step that leaves the server's side alone.
LEMMA StillTypes ==
    ASSUME TypeOK, Still, ClientOk(client'), inbox' \in Seq(PullType), pulls' \in SUBSET pulls
    PROVE  TypeOK'
  <1>1. pulls' \in SUBSET PullType /\ IsFiniteSet(pulls')  BY FS_Subset DEF TypeOK
  <1>. QED  BY <1>1 DEF TypeOK, Still, SameSession

\* The server answers a request, or what the printer sent is queued.
Bookkeeping ==
    \/ \E r \in Requests :
          SendData(r) \/ Unanswered(r) \/ (handle_listener_event(r) /\ session # NoSession)
    \/ IdleAnswer \/ PrinterInput \/ settle_ident

\* What a bookkeeping step leaves as it was.
LEMMA BookkeepingStep ==
    ASSUME TypeOK, Bookkeeping
    PROVE  TypeOK' /\ Still /\ UNCHANGED <<client, inbox, pulls>>
  <1>1. Still /\ UNCHANGED <<client, inbox, pulls>>
    <2>1. CASE \E r \in Requests : SendData(r)
      BY <2>1, SessionKept DEF SendData, Still
    <2>2. CASE \E r \in Requests : Unanswered(r)
      <3>1. SameSession  BY <2>2, SessionKept DEF Unanswered, serverVars
      <3>. QED  BY <2>2, <3>1 DEF Unanswered, serverVars, Still
    <2>3. CASE \E r \in Requests : handle_listener_event(r) /\ session # NoSession
      <3>1. SameSession  BY <2>3, SessionKept DEF handle_listener_event
      <3>. QED  BY <2>3, <3>1 DEF handle_listener_event, Still, NoEvent
    <2>4. CASE IdleAnswer  BY <2>4, SessionKept DEF IdleAnswer, Still
    <2>5. CASE PrinterInput  BY <2>5, SessionKept DEF PrinterInput, Still
    <2>6. CASE settle_ident
      <3>1. SameSession  BY <2>6, SessionKept DEF settle_ident
      <3>. QED  BY <2>6, <3>1 DEF settle_ident, Still, clientVars
    <2>. QED  BY <2>1, <2>2, <2>3, <2>4, <2>5, <2>6 DEF Bookkeeping
  <1>2. ClientOk(client') /\ inbox' \in Seq(PullType) /\ pulls' \in SUBSET pulls  BY <1>1 DEF TypeOK
  <1>. QED  BY <1>1, <1>2, StillTypes

\* The client goes on, and stays connected.
Proceeds ==
    \/ OpenConnReply \/ print_stream \/ DrainOver \/ read_response \/ DataReply \/ ReadTimeout \/ close

Moved(c, d, x) ==
    \/ d = [c EXCEPT !.pc = x]
    \/ \E y : d = [c EXCEPT !.pc = x, !.reads = y]

\* A client that moved on has kept all but its place.
LEMMA ClientField ==
    ASSUME NEW c, ClientOk(c), c.pc # "off", NEW x, x # "off", NEW d, Moved(c, d, x)
    PROVE  /\ ClientOk(d) /\ d.pc = x /\ d.n = c.n /\ d.id = c.id /\ d.job = c.job /\ d.pos = c.pos
           /\ d.cache = c.cache
  <1>1. ASSUME NEW y, NEW z, NEW u,
               d = [pc |-> x, n |-> c.n, id |-> c.id, job |-> c.job, pos |-> c.pos, cache |-> c.cache,
                    rseq |-> y, reads |-> z, got |-> u]
        PROVE  /\ ClientOk(d) /\ d.pc = x /\ d.n = c.n /\ d.id = c.id /\ d.job = c.job /\ d.pos = c.pos
               /\ d.cache = c.cache
    BY <1>1 DEF ClientOk
  <1>2. c = [pc |-> c.pc, n |-> c.n, id |-> c.id, job |-> c.job, pos |-> c.pos, cache |-> c.cache,
             rseq |-> c.rseq, reads |-> c.reads, got |-> c.got]
    BY DEF ClientOk
  <1>3. ASSUME d = [c EXCEPT !.pc = x]
        PROVE  d = [pc |-> x, n |-> c.n, id |-> c.id, job |-> c.job, pos |-> c.pos, cache |-> c.cache,
                    rseq |-> c.rseq, reads |-> c.reads, got |-> c.got]
    BY <1>2, <1>3
  <1>4. ASSUME NEW y, d = [c EXCEPT !.pc = x, !.reads = y]
        PROVE  d = [pc |-> x, n |-> c.n, id |-> c.id, job |-> c.job, pos |-> c.pos, cache |-> c.cache,
                    rseq |-> c.rseq, reads |-> y, got |-> c.got]
    BY <1>2, <1>4
  <1>7. \A y, z, u :
           d = [pc |-> x, n |-> c.n, id |-> c.id, job |-> c.job, pos |-> c.pos, cache |-> c.cache,
                rseq |-> y, reads |-> z, got |-> u] =>
           /\ ClientOk(d) /\ d.pc = x /\ d.n = c.n /\ d.id = c.id /\ d.job = c.job /\ d.pos = c.pos
           /\ d.cache = c.cache
    BY <1>1
  <1>8. CASE d = [c EXCEPT !.pc = x]  BY <1>3, <1>7, <1>8
  <1>9. CASE \E y : d = [c EXCEPT !.pc = x, !.reads = y]  BY <1>4, <1>7, <1>9
  <1>. QED  BY <1>8, <1>9 DEF Moved

\* What a step of the client's own leaves as it was, and where the client is after it.
LEMMA ProceedsStep ==
    ASSUME TypeOK, Proceeds
    PROVE  /\ TypeOK' /\ Still /\ UNCHANGED <<inbox, pulls>>
           /\ Here /\ Here' /\ client'.n = client.n /\ client'.id = client.id
           /\ \/ /\ client'.job = client.job /\ client'.pos = client.pos /\ client'.cache = client.cache
                 /\ client.pc # "printing" /\ client'.pc # "printing"
                 /\ client'.pc = "opening" => client.pc = "opening"
                 /\ client'.pc \in {"opening", "idle"} \/ client.job > 0 \/ client.pc \notin {"opening", "idle"}
              \/ /\ client.pc = "idle" /\ client.job < MaxJobs /\ client'.pc = "printing"
                 /\ client'.job = client.job + 1 /\ client'.pos = 0 /\ client'.cache = <<>>
  <1>1. ClientOk(client)  BY DEF TypeOK
  <1>2. Still /\ UNCHANGED <<inbox, pulls>>
    <2>1. SameSession
      BY SessionKept DEF Proceeds, OpenConnReply, print_stream, DrainOver, read_response, DataReply,
                         ReadTimeout, close, serverVars
    <2>. QED
      BY <2>1 DEF Proceeds, OpenConnReply, print_stream, DrainOver, read_response, DataReply,
                  ReadTimeout, close, serverVars, Still
  <1>. DEFINE Kept(x) == /\ ClientOk(client') /\ client'.pc = x /\ client'.n = client.n /\ client'.id = client.id
                         /\ client'.job = client.job /\ client'.pos = client.pos /\ client'.cache = client.cache
              Result ==
                 /\ ClientOk(client') /\ Here /\ Here' /\ client'.n = client.n /\ client'.id = client.id
                 /\ \/ /\ client'.job = client.job /\ client'.pos = client.pos /\ client'.cache = client.cache
                       /\ client.pc # "printing" /\ client'.pc # "printing"
                       /\ client'.pc = "opening" => client.pc = "opening"
                       /\ client'.pc \in {"opening", "idle"} \/ client.job > 0 \/ client.pc \notin {"opening", "idle"}
                    \/ /\ client.pc = "idle" /\ client.job < MaxJobs /\ client'.pc = "printing"
                       /\ client'.job = client.job + 1 /\ client'.pos = 0 /\ client'.cache = <<>>
  <1>3. ASSUME OpenConnReply PROVE Result
    <2>1. client.pc = "opening" /\ (client' = [client EXCEPT !.pc = "idle"] \/ client' = client)
      BY <1>3 DEF OpenConnReply
    <2>2. ASSUME client' = [client EXCEPT !.pc = "idle"] PROVE Kept("idle")
      <3>1. Moved(client, client', "idle") /\ client.pc # "off"  BY <2>1, <2>2 DEF Moved
      <3>. QED  BY <1>1, <3>1, ClientField
    <2>3. client' = client => Kept("opening")  BY <1>1, <2>1
    <2>. QED  BY <2>1, <2>2, <2>3 DEF Here
  <1>4. ASSUME DrainOver PROVE Result
    <2>1. client.pc = "drain" /\ client' = [client EXCEPT !.pc = "idle"]  BY <1>4 DEF DrainOver
    <2>2. Kept("idle")
      <3>1. Moved(client, client', "idle") /\ client.pc # "off"  BY <2>1 DEF Moved
      <3>. QED  BY <1>1, <3>1, ClientField
    <2>. QED  BY <2>1, <2>2 DEF Here
  <1>5. ASSUME ReadTimeout PROVE Result
    <2>1. client.pc = "reading" /\ client' = [client EXCEPT !.pc = "idle"]  BY <1>5 DEF ReadTimeout
    <2>2. Kept("idle")
      <3>1. Moved(client, client', "idle") /\ client.pc # "off"  BY <2>1 DEF Moved
      <3>. QED  BY <1>1, <3>1, ClientField
    <2>. QED  BY <2>1, <2>2 DEF Here
  <1>6. ASSUME close PROVE Result
    <2>1. client.pc = "idle" /\ client.job > 0 /\ client' = [client EXCEPT !.pc = "closing"]  BY <1>6 DEF close
    <2>2. Kept("closing")
      <3>1. Moved(client, client', "closing") /\ client.pc # "off"  BY <2>1 DEF Moved
      <3>. QED  BY <1>1, <3>1, ClientField
    <2>. QED  BY <2>1, <2>2 DEF Here
  <1>7. ASSUME read_response PROVE Result
    <2>1. PICK y : y = client.reads + 1  OBVIOUS
    <2>2. client.pc = "idle" /\ client.job > 0 /\ client' = [client EXCEPT !.pc = "reading", !.reads = y]
      BY <1>7, <2>1 DEF read_response
    <2>3. Kept("reading")
      <3>1. Moved(client, client', "reading") /\ client.pc # "off"  BY <2>2 DEF Moved
      <3>. QED  BY <1>1, <3>1, ClientField
    <2>. QED  BY <2>2, <2>3 DEF Here
  <1>8. ASSUME DataReply PROVE Result
    <2>1. PICK y : y = next_pap_seq(client.rseq)  OBVIOUS
    <2>2. PICK z : z = client.got \o call.reply.data  OBVIOUS
    <2>3. PICK c : c = [client EXCEPT !.rseq = y, !.got = z]  OBVIOUS
    <2>4. c = [client EXCEPT !.rseq = next_pap_seq(@), !.got = @ \o call.reply.data]
      BY <2>1, <2>2, <2>3, Zenon
    <2>5. client.pc = "reading" /\ (client' = [c EXCEPT !.reads = @ + 1] \/ client' = [c EXCEPT !.pc = "idle"])
      BY <1>8, <2>4 DEF DataReply
    <2>6. c = [pc |-> client.pc, n |-> client.n, id |-> client.id, job |-> client.job, pos |-> client.pos,
               cache |-> client.cache, rseq |-> y, reads |-> client.reads, got |-> z]
      BY <1>1, <2>3 DEF ClientOk
    <2>7. CASE client' = [c EXCEPT !.reads = @ + 1]
      <3>1. PICK u : u = c.reads + 1  OBVIOUS
      <3>2. client' = [c EXCEPT !.reads = u]  BY <2>7, <3>1, Zenon
      <3>3. client' = [pc |-> client.pc, n |-> client.n, id |-> client.id, job |-> client.job, pos |-> client.pos,
                       cache |-> client.cache, rseq |-> y, reads |-> u, got |-> z]
        BY <2>6, <3>2
      <3>4. Kept("reading")  BY <1>1, <2>5, <3>3 DEF ClientOk
      <3>. QED  BY <2>5, <3>4 DEF Here
    <2>8. CASE client' = [c EXCEPT !.pc = "idle"]
      <3>1. client' = [pc |-> "idle", n |-> client.n, id |-> client.id, job |-> client.job, pos |-> client.pos,
                       cache |-> client.cache, rseq |-> y, reads |-> client.reads, got |-> z]
        BY <2>6, <2>8
      <3>2. Kept("idle")  BY <1>1, <2>5, <3>1 DEF ClientOk
      <3>. QED  BY <2>5, <3>2 DEF Here
    <2>. QED  BY <2>5, <2>7, <2>8
  <1>9. ASSUME print_stream PROVE Result
    <2>1. PICK j : j = client.job + 1  OBVIOUS
    <2>2. [client EXCEPT !.pc = "printing", !.job = @ + 1, !.pos = 0, !.cache = <<>>]
            = [client EXCEPT !.pc = "printing", !.job = j, !.pos = 0, !.cache = <<>>]
      BY <2>1, Zenon
    <2>3. client' = [client EXCEPT !.pc = "printing", !.job = j, !.pos = 0, !.cache = <<>>]
      BY <1>9, <2>2, Zenon DEF print_stream
    <2>4. client' = [pc |-> "printing", n |-> client.n, id |-> client.id, job |-> j, pos |-> 0,
                     cache |-> <<>>, rseq |-> client.rseq, reads |-> client.reads, got |-> client.got]
      BY <1>1, <2>3 DEF ClientOk
    <2>5. client.pc = "idle" /\ client.job < MaxJobs  BY <1>9 DEF print_stream
    <2>6. j \in Nat /\ <<>> \in CacheType  BY <1>1, <2>1 DEF ClientOk, CacheType
    <2>7. /\ ClientOk(client') /\ client'.pc = "printing" /\ client'.n = client.n /\ client'.id = client.id
          /\ client'.job = j /\ client'.pos = 0 /\ client'.cache = <<>>
      BY <1>1, <2>4, <2>5, <2>6 DEF ClientOk
    <2>. QED  BY <2>1, <2>5, <2>7 DEF Here
  <1>10. Result
    <2>. HIDE DEF Result
    <2>. QED  BY <1>3, <1>4, <1>5, <1>6, <1>7, <1>8, <1>9 DEF Proceeds
  <1>11. TypeOK'
    <2>1. inbox' \in Seq(PullType) /\ pulls' \in SUBSET pulls  BY <1>2 DEF TypeOK
    <2>. QED  BY <1>2, <1>10, <2>1, StillTypes
  <1>. QED  BY <1>2, <1>10, <1>11

\* The client goes away.
Leaves == PrintTimeout \/ GiveUp \/ CloseConnReply

\* A client that leaves has nothing in its inbox.
LEMMA LeavesStep ==
    ASSUME TypeOK, Leaves
    PROVE  /\ TypeOK' /\ Still /\ pulls' = pulls /\ inbox' = <<>>
           /\ Here /\ client'.pc = "off" /\ client'.n = client.n
  <1>1. SessionOk(session) /\ ClientOk(client)  BY DEF TypeOK
  <1>2. Still /\ pulls' = pulls /\ inbox' = <<>>
    <2>1. SameSession
      BY SessionKept DEF Leaves, PrintTimeout, GiveUp, CloseConnReply, serverVars
    <2>. QED  BY <2>1 DEF Leaves, PrintTimeout, GiveUp, CloseConnReply, serverVars, Still
  <1>3. client.pc # "off" /\ Dropped  BY DEF Leaves, PrintTimeout, GiveUp, CloseConnReply
  <1>4. client' = [pc |-> "off", n |-> client.n, id |-> 0, job |-> 0, pos |-> 0, cache |-> <<>>,
                   rseq |-> 1, reads |-> client.reads, got |-> <<>>]
    BY <1>3 DEF Dropped, Off
  <1>5. ClientOk(client') /\ client'.pc = "off" /\ client'.n = client.n
    BY <1>1, <1>4 DEF ClientOk, CacheType
  <1>6. inbox' \in Seq(PullType) /\ pulls' \in SUBSET pulls  BY <1>2
  <1>7. TypeOK'  BY <1>2, <1>5, <1>6, StillTypes
  <1>. QED  BY <1>2, <1>3, <1>5, <1>7 DEF Here

\* A client that comes has a number of its own and asks to open.
LEMMA ConnectStep ==
    ASSUME TypeOK, Connect
    PROVE  /\ TypeOK' /\ Still /\ pulls' \in SUBSET pulls /\ inbox' = <<>>
           /\ ~Here /\ client'.pc = "opening" /\ client'.n = client.n + 1
           /\ client'.job = 0 /\ client'.pos = 0 /\ client'.cache = <<>>
           /\ client.n \in Nat /\ client.n + 1 \in Conns
           /\ call' = [kind |-> "open", n |-> client'.n, id |-> client'.id, seq |-> client'.rseq, live |-> TRUE]
  <1>1. SessionOk(session) /\ ClientOk(client)  BY DEF TypeOK
  <1>2. Still /\ inbox' = <<>> /\ pulls' \in SUBSET pulls
    <2>1. SameSession  BY SessionKept DEF Connect
    <2>. QED  BY <2>1 DEF Connect, Still
  <1>3. client.pc = "off" /\ client.n < MaxConns /\ client.n \in 0 .. MaxConns  BY <1>1 DEF Connect, ClientOk
  <1>4. PICK n \in Conns : n = client.n + 1
    <2>1. client.n + 1 \in Conns  BY <1>3, ConnFacts
    <2>. QED  BY <2>1
  <1>5. PICK d : d = SocketOf[n]  OBVIOUS
  <1>6. client' = [client EXCEPT !.pc = "opening", !.n = n, !.id = d]
    BY <1>4, <1>5 DEF Connect
  <1>7. client' = [pc |-> "opening", n |-> n, id |-> d, job |-> client.job, pos |-> client.pos,
                   cache |-> client.cache, rseq |-> client.rseq, reads |-> client.reads, got |-> client.got]
    BY <1>1, <1>6 DEF ClientOk
  <1>8. client.job = 0 /\ client.pos = 0 /\ client.cache = <<>>  BY <1>1, <1>3 DEF ClientOk
  <1>9. /\ ClientOk(client') /\ client'.pc = "opening" /\ client'.n = n
        /\ client'.job = 0 /\ client'.pos = 0 /\ client'.cache = <<>>
    BY <1>5, <1>7, <1>8, ConnFacts DEF ClientOk, CacheType
  <1>10. inbox' \in Seq(PullType)  BY <1>2
  <1>11. TypeOK'  BY <1>2, <1>9, <1>10, StillTypes
  <1>12. call' = [kind |-> "open", n |-> client'.n, id |-> client'.id, seq |-> client'.rseq, live |-> TRUE]
    <2>1. PICK c : c = [client EXCEPT !.pc = "opening", !.n = client.n + 1, !.id = SocketOf[client.n + 1]]
      OBVIOUS
    <2>2. client' = c /\ call' = Request(c, "open")  BY <2>1 DEF Connect
    <2>. QED  BY <2>2 DEF Request
  <1>13. client.n \in Nat  BY <1>3
  <1>. QED  BY <1>2, <1>3, <1>4, <1>9, <1>11, <1>12, <1>13 DEF Here

\* A pull that arrives is last in the inbox.
LEMMA PullArrivesStep ==
    ASSUME TypeOK, NEW p, PullArrives(p)
    PROVE  /\ TypeOK' /\ Still /\ UNCHANGED client
           /\ p \in pulls /\ Here /\ client.id = p.id /\ p \in PullType /\ pulls' = pulls \ {p}
           /\ Len(inbox) \in Nat /\ Len(inbox') = Len(inbox) + 1 /\ inbox'[Len(inbox) + 1] = p
           /\ \A i \in 1 .. Len(inbox) : inbox'[i] = inbox[i]
  <1>1. /\ p \in pulls /\ Here /\ client.id = p.id /\ p \in PullType /\ pulls' = pulls \ {p}
        /\ inbox' = Append(inbox, p) /\ inbox \in Seq(PullType)
        /\ UNCHANGED client
    BY DEF TypeOK, PullArrives, Here
  <1>2. Still
    <2>1. SameSession  BY SessionKept DEF PullArrives
    <2>. QED  BY <2>1 DEF PullArrives, Still
  <1>3. ClientOk(client') /\ inbox' \in Seq(PullType) /\ pulls' \in SUBSET pulls  BY <1>1 DEF TypeOK
  <1>4. TypeOK'  BY <1>2, <1>3, StillTypes
  <1>. QED  BY <1>1, <1>2, <1>4

\* A reply that the session no longer waits for.
Late(m) == PullAnswered(m) /\ (session = NoSession \/ session.pull # m.tid)

\* A reply nobody waits for is dropped.
LEMMA LateStep ==
    ASSUME TypeOK, NEW m, Late(m)
    PROVE  /\ TypeOK' /\ SameSession /\ replies' = replies \ {m}
           /\ UNCHANGED <<client, inbox, pulls, credit, port, jobStart, handed, taken, log>>
  <1>1. /\ session' = session /\ replies' = replies \ {m}
        /\ UNCHANGED <<client, inbox, pulls, credit, port, jobStart, handed, taken, log>>
    BY DEF Late, PullAnswered, serverVars, clientVars
  <1>2. SameSession  BY <1>1, SessionKept
  <1>3. replies' \in SUBSET AnswerType /\ IsFiniteSet(replies')
    <2>1. replies' \in SUBSET replies  BY <1>1
    <2>. QED  BY <2>1, FS_Subset DEF TypeOK
  <1>. QED  BY <1>1, <1>2, <1>3 DEF TypeOK, SameSession

\* The session s after a step, with a pull for it if ok says so.
After(s, others, ok) ==
    /\ SessionOk(session')
    /\ session'.n = s.n /\ session'.id = s.id /\ session'.seq = s.seq /\ session'.bytes = s.bytes
    /\ pulls' \in SUBSET PullType /\ IsFiniteSet(pulls')
    /\ \/ session'.pull = s.pull /\ pulls' = others
       \/ /\ s.n # 0 /\ s.pull = 0 /\ ok /\ session'.pull = FreeTid
          /\ pulls' = others \cup {[tid |-> FreeTid, id |-> s.id, seq |-> s.seq]}

\* What settle does, when an empty port had credit.
LEMMA SettleAfter ==
    ASSUME TypeOK, NEW s, SessionOk(s), NEW p, settle(s, p), Held(p) = 0 => credit
    PROVE  /\ port' = p /\ credit' \in BOOLEAN /\ (credit' <=> Held(p) = 0)
           /\ After(s, pulls, credit)
  <1>1. port' = p /\ credit' = (Held(p) = 0) /\ maybe_pull(s, pulls, credit, Held(p) = 0)  BY DEF settle
  <1>2. PICK b \in BOOLEAN : b = (Held(p) = 0)  OBVIOUS
  <1>3. maybe_pull(s, pulls, credit, b)  BY <1>1, <1>2
  <1>4. pulls \in SUBSET PullType /\ IsFiniteSet(pulls)  BY DEF TypeOK
  <1>5. /\ SessionOk(session')
        /\ session'.n = s.n /\ session'.id = s.id /\ session'.seq = s.seq /\ session'.bytes = s.bytes
        /\ pulls' \in SUBSET PullType /\ IsFiniteSet(pulls')
        /\ \/ session'.pull = s.pull /\ pulls' = pulls
           \/ /\ s.n # 0 /\ s.pull = 0 /\ (credit \/ b) /\ session'.pull = FreeTid
              /\ pulls' = pulls \cup {[tid |-> FreeTid, id |-> s.id, seq |-> s.seq]}
    BY <1>3, <1>4, MaybePull
  <1>6. credit \/ b => credit  BY <1>2
  <1>. QED  BY <1>1, <1>5, <1>6 DEF After

\* The parts of an item, and the items there are.
LEMMA ItemFacts ==
    /\ \A k, n, i : Item(k, n, i).kind = k /\ Item(k, n, i).conn = n /\ Item(k, n, i).num = i
    /\ \A k \in Kinds, n \in 0 .. MaxConns, i \in Nat : Item(k, n, i) \in ItemType
    /\ Query \in ItemType /\ Query.kind = "query"
  BY ConnFacts DEF Item, ItemType, Kinds, Query

\* A port that is empty after something was put was empty, and so had credit.
LEMMA EmptyPut ==
    ASSUME TypeOK, NEW cr, NEW pull, Window(port, log, cr, pull), NEW e \in ItemType
    PROVE  /\ Held(Put(port, e)) = 0 => cr
           /\ Put(port, e) \in PortType
           /\ Held(Put(port, e)) = 0 => e.kind # "query"
  <1>1. port \in PortType  BY DEF TypeOK
  <1>2. /\ Put(port, e) \in PortType /\ Held(port) \in Nat
        /\ IF e.kind \in {"chunk", "query"} THEN Held(Put(port, e)) = Held(port) + 1 ELSE Held(Put(port, e)) = Held(port)
    BY <1>1, PutFacts, PortFacts
  <1>. QED  BY <1>2 DEF Window

\* What opening a session does.
LEMMA OpenStep ==
    ASSUME TypeOK, Port, NEW r, handle_listener_event(r), session = NoSession, r.n \in Conns, r.id = SocketOf[r.n]
    PROVE  /\ TypeOK' /\ After(Session(r.n, r.id), pulls, credit)
           /\ Item("start", r.n, 0) \in ItemType /\ port' = Put(port, Item("start", r.n, 0))
           /\ (credit' <=> Held(port') = 0) /\ jobStart' = TRUE
           /\ UNCHANGED <<client, inbox, replies, handed, taken, log>>
  <1>1. PICK e \in ItemType : e = Item("start", r.n, 0)
    <2>1. Item("start", r.n, 0) \in ItemType  BY ItemFacts, ConnFacts DEF Kinds
    <2>. QED  BY <2>1
  <1>2. PICK p : p = Put(port, e)  OBVIOUS
  <1>3. settle(Session(r.n, r.id), p) /\ UNCHANGED <<client, inbox, replies, handed, taken, log>>
    BY <1>1, <1>2 DEF handle_listener_event
  <1>4. jobStart' = TRUE  BY DEF handle_listener_event, poll_event, Item
  <1>5. Held(p) = 0 => credit  BY <1>2, EmptyPut DEF Port
  <1>6. p \in PortType  BY <1>2, EmptyPut DEF Port
  <1>7. SessionOk(Session(r.n, r.id))  BY NewSession
  <1>8. /\ port' = p /\ credit' \in BOOLEAN /\ (credit' <=> Held(p) = 0)
        /\ After(Session(r.n, r.id), pulls, credit)
    BY <1>3, <1>5, <1>7, SettleAfter
  <1>9. TypeOK'
    <2>1. SessionOk(session') /\ pulls' \in SUBSET PullType /\ IsFiniteSet(pulls')  BY <1>8 DEF After
    <2>. QED  BY <1>3, <1>4, <1>6, <1>8, <2>1 DEF TypeOK
  <1>. QED  BY <1>1, <1>2, <1>3, <1>4, <1>8, <1>9

\* A session ends: the client closed, or was not heard of.
Ends == (\E r \in Requests : CloseConn(r)) \/ Inactive

\* What ending a session does.
LEMMA EndStep ==
    ASSUME TypeOK, Port, Ends
    PROVE  /\ TypeOK' /\ session.n # 0 /\ session'.n = 0 /\ session'.pull = 0 /\ pulls' = pulls
           /\ After(NoSession, pulls, credit)
           /\ Item("end", session.n, 0) \in ItemType
           /\ \E q \in PortType : /\ q = port \/ q = Put(port, Query)
                                  /\ port' = Put(q, Item("end", session.n, 0))
           /\ (credit' <=> Held(port') = 0) /\ jobStart' = TRUE
           /\ UNCHANGED <<client, inbox, replies, handed, taken, log>>
  <1>1. SessionOk(session) /\ (session = NoSession <=> session.n = 0) /\ session.n \in 0 .. MaxConns
    BY SessionFacts DEF TypeOK, SessionOk
  <1>2. session.n # 0  BY <1>1 DEF Ends, CloseConn, Inactive
  <1>3. PICK e \in ItemType : e = Item("end", session.n, 0)
    <2>1. Item("end", session.n, 0) \in ItemType  BY <1>1, ItemFacts DEF Kinds
    <2>. QED  BY <2>1
  <1>4. PICK q : /\ q = port \/ q = Put(port, Query)
                 /\ settle(NoSession, Put(q, e))
    BY <1>3 DEF Ends, CloseConn, Inactive, Query
  <1>5. port \in PortType /\ q \in PortType
    <2>1. port \in PortType  BY DEF TypeOK
    <2>2. Put(port, Query) \in PortType  BY <2>1, ItemFacts, PutFacts
    <2>. QED  BY <1>4, <2>1, <2>2
  <1>6. Put(q, e) \in PortType /\ (Held(Put(q, e)) = 0 => Held(q) = 0)
    <2>1. e.kind = "end"  BY <1>3 DEF Item
    <2>. QED  BY <1>5, <2>1, PutFacts
  <1>7. Held(q) = 0 => credit
    <2>1. CASE q = port  BY <2>1 DEF Port, Window
    <2>2. CASE q = Put(port, Query)
      <3>1. Held(Put(port, Query)) = Held(port) + 1 /\ Held(port) \in Nat  BY <1>5, ItemFacts, PutFacts, PortFacts
      <3>. QED  BY <2>2, <3>1
    <2>. QED  BY <1>4, <2>1, <2>2
  <1>8. PICK p : p = Put(q, e)  OBVIOUS
  <1>9. settle(NoSession, p) /\ (Held(p) = 0 => credit)  BY <1>4, <1>6, <1>7, <1>8
  <1>10. /\ port' = p /\ credit' \in BOOLEAN /\ (credit' <=> Held(p) = 0)
         /\ After(NoSession, pulls, credit)
    BY <1>9, NoSessionOk, SettleAfter
  <1>11. /\ SessionOk(session') /\ session'.n = 0 /\ session'.pull = 0 /\ pulls' = pulls
    BY <1>10, NoSessionOk DEF After
  <1>12. UNCHANGED <<client, inbox, handed, taken, log>> /\ jobStart' = TRUE
    BY DEF Ends, CloseConn, Inactive, poll_event, Item, clientVars
  <1>13. replies' = replies  BY DEF Ends, CloseConn, Inactive
  <1>14. TypeOK'
    BY <1>6, <1>8, <1>10, <1>11, <1>12, <1>13 DEF TypeOK
  <1>. QED  BY <1>2, <1>3, <1>4, <1>5, <1>8, <1>10, <1>11, <1>12, <1>13, <1>14

\* The session takes the reply it waits for.
Taken(m) == PullAnswered(m) /\ session # NoSession /\ session.pull = m.tid

\* What taking a reply does.
LEMMA TakenStep ==
    ASSUME TypeOK, Port, NEW m, Taken(m), NextReply(m.reply)
    PROVE  /\ TypeOK' /\ session.n \in Conns /\ session.pull # 0
           /\ m \in replies /\ replies' = replies \ {m}
           /\ After(Accept(session, m.reply), pulls, credit)
           /\ (credit' <=> Held(port') = 0)
           /\ UNCHANGED <<client, inbox, handed, log>>
           /\ \/ /\ m.reply = EofReply /\ session.bytes = 0
                 /\ port' = port /\ jobStart' = jobStart /\ taken' = taken
              \/ /\ m.reply = EofReply /\ session.bytes > 0
                 /\ Item("eof", session.n, 0) \in ItemType
                 /\ port' = Put(port, Item("eof", session.n, 0)) /\ jobStart' = TRUE /\ taken' = taken
              \/ /\ m.reply = ChunkReply(session.n, taken[session.n] + 1)
                 /\ \E k \in {"chunk", "rename"} :
                       /\ Item(k, session.n, taken[session.n] + 1) \in ItemType
                       /\ port' = Put(port, Item(k, session.n, taken[session.n] + 1))
                       /\ k = "rename" => jobStart
                 /\ jobStart' = FALSE
                 /\ taken' = [taken EXCEPT ![session.n] = taken[session.n] + 1]
  <1>1. SessionOk(session) /\ session.n \in Conns /\ session.n # 0 /\ session.n \in 0 .. MaxConns
    BY SessionFacts, ConnFacts DEF TypeOK, Taken
  <1>2. m \in replies /\ replies' = replies \ {m} /\ m.tid \in Nat \ {0} /\ session.pull # 0
    BY DEF Taken, PullAnswered, TypeOK, AnswerType
  <1>3. UNCHANGED <<client, inbox, handed, log>>  BY DEF Taken, PullAnswered, clientVars
  <1>4. PICK raised \in BOOLEAN : raised = (~m.reply.eof \/ session.bytes > 0)  OBVIOUS
  <1>5. PICK e : e = IF m.reply.eof THEN Item("eof", session.n, 0) ELSE m.reply.item  OBVIOUS
  <1>6. /\ settle(Accept(session, m.reply), IF raised THEN Put(port, RoleItem(e)) ELSE port)
        /\ IF raised THEN poll_event(e) ELSE NoEvent
        /\ taken' = IF m.reply.eof THEN taken ELSE [taken EXCEPT ![session.n] = @ + 1]
    <2>1. ~(session = NoSession \/ session.pull # m.tid)  BY DEF Taken
    <2>. QED  BY <1>4, <1>5, <2>1 DEF Taken, PullAnswered
  <1>7. SessionOk(Accept(session, m.reply))  BY <1>1, AcceptSession
  <1>8. replies' \in SUBSET AnswerType /\ IsFiniteSet(replies')
    <2>1. replies' \in SUBSET replies  BY <1>2
    <2>. QED  BY <2>1, FS_Subset DEF TypeOK
  <1>. DEFINE End(p) == /\ port' = p /\ credit' \in BOOLEAN /\ (credit' <=> Held(p) = 0)
                        /\ After(Accept(session, m.reply), pulls, credit)
  <1>9. ASSUME NEW p, settle(Accept(session, m.reply), p), Held(p) = 0 => credit PROVE End(p)
    BY <1>7, <1>9, SettleAfter
  <1>10. ASSUME NEW p \in PortType, End(p), taken' \in [Conns -> Nat], jobStart' \in BOOLEAN
         PROVE  TypeOK'
    <2>1. SessionOk(session') /\ pulls' \in SUBSET PullType /\ IsFiniteSet(pulls')  BY <1>10 DEF After
    <2>. QED  BY <1>3, <1>8, <1>10, <2>1 DEF TypeOK
  <1>11. port \in PortType /\ taken \in [Conns -> Nat] /\ jobStart \in BOOLEAN  BY DEF TypeOK
  <1>12. Held(port) = 0 => credit  BY DEF Port, Window
  <1>. HIDE DEF End
  <1>13. CASE m.reply = EofReply
    <2>1. m.reply.eof = TRUE  BY <1>13 DEF EofReply
    <2>2. taken' = taken  BY <1>6, <2>1
    <2>3. e = Item("eof", session.n, 0) /\ e \in ItemType /\ e.kind = "eof"
      BY <1>1, <1>5, <2>1, ItemFacts DEF Kinds
    <2>4. CASE session.bytes > 0
      <3>1. raised  BY <1>4, <2>4
      <3>2. RoleItem(e) = e  BY <2>3 DEF RoleItem
      <3>3. settle(Accept(session, m.reply), Put(port, e)) /\ poll_event(e)  BY <1>6, <3>1, <3>2
      <3>4. jobStart' = TRUE  BY <2>3, <3>3 DEF poll_event
      <3>5. PICK p : p = Put(port, e)  OBVIOUS
      <3>6. p \in PortType /\ (Held(p) = 0 => credit)  BY <2>3, <3>5, EmptyPut DEF Port
      <3>7. End(p)  BY <1>9, <3>3, <3>5, <3>6
      <3>8. TypeOK'  BY <1>10, <1>11, <2>2, <3>4, <3>6, <3>7
      <3>. QED  BY <1>1, <1>2, <1>3, <1>13, <2>2, <2>3, <2>4, <3>4, <3>5, <3>7, <3>8 DEF End
    <2>5. CASE ~(session.bytes > 0)
      <3>1. ~raised  BY <1>4, <2>1, <2>5
      <3>2. settle(Accept(session, m.reply), port) /\ NoEvent  BY <1>6, <3>1
      <3>3. End(port)  BY <1>9, <1>12, <3>2
      <3>4. jobStart' = jobStart  BY <3>2 DEF NoEvent
      <3>5. session.bytes = 0  BY <1>1, <2>5 DEF SessionOk
      <3>6. TypeOK'  BY <1>10, <1>11, <2>2, <3>3, <3>4
      <3>. QED  BY <1>1, <1>2, <1>3, <1>13, <2>2, <3>3, <3>4, <3>5, <3>6 DEF End
    <2>. QED  BY <2>4, <2>5
  <1>14. CASE m.reply = ChunkReply(session.n, taken[session.n] + 1)
    <2>1. PICK i \in Nat : i = taken[session.n] + 1  BY <1>1, <1>11
    <2>2. m.reply.eof = FALSE /\ e = Item("chunk", session.n, i) /\ e.kind = "chunk"
      BY <1>5, <1>14, <2>1 DEF ChunkReply, Item
    <2>3. raised  BY <1>4, <2>2
    <2>4. PICK k \in {"chunk", "rename"} : RoleItem(e) = Item(k, session.n, i) /\ (k = "rename" => jobStart)
      BY <2>2 DEF RoleItem, Item
    <2>5. PICK x \in ItemType : x = Item(k, session.n, i)
      <3>1. Item(k, session.n, i) \in ItemType  BY <1>1, ItemFacts DEF Kinds
      <3>. QED  BY <3>1
    <2>6. settle(Accept(session, m.reply), Put(port, x)) /\ poll_event(e)  BY <1>6, <2>3, <2>4, <2>5
    <2>7. jobStart' = FALSE  BY <2>2, <2>6 DEF poll_event
    <2>8. taken' = [taken EXCEPT ![session.n] = taken[session.n] + 1]  BY <1>6, <2>2
    <2>9. taken' \in [Conns -> Nat]  BY <1>1, <1>11, <2>8
    <2>10. PICK p : p = Put(port, x)  OBVIOUS
    <2>11. p \in PortType /\ (Held(p) = 0 => credit)  BY <2>5, <2>10, EmptyPut DEF Port
    <2>12. End(p)  BY <1>9, <2>6, <2>10, <2>11
    <2>13. TypeOK'  BY <1>10, <2>7, <2>9, <2>11, <2>12
    <2>. QED  BY <1>1, <1>2, <1>3, <1>14, <2>1, <2>4, <2>5, <2>7, <2>8, <2>10, <2>12, <2>13 DEF End
  <1>. QED  BY <1>13, <1>14 DEF NextReply

\* What the failure of a pull does.
LEMMA PullFailsStep ==
    ASSUME TypeOK, Port, PullFails
    PROVE  /\ TypeOK' /\ session.n \in Conns /\ session.pull # 0
           /\ \E s : /\ SessionOk(s) /\ s.n = session.n /\ s.id = session.id /\ s.seq = session.seq
                     /\ s.pull = 0 /\ s.bytes = session.bytes
                     /\ After(s, {p \in pulls : p.tid # session.pull}, credit)
           /\ (credit' <=> Held(port) = 0)
           /\ replies' = {m \in replies : m.tid # session.pull}
           /\ UNCHANGED <<client, inbox, port, jobStart, handed, taken, log>>
  <1>1. SessionOk(session) /\ session.n \in Conns /\ session.n # 0
    BY SessionFacts, ConnFacts DEF TypeOK, PullFails
  <1>2. PICK s : s = [session EXCEPT !.pull = 0]  OBVIOUS
  <1>3. /\ SessionOk(s) /\ s.n = session.n /\ s.id = session.id /\ s.seq = session.seq
        /\ s.pull = 0 /\ s.bytes = session.bytes
    BY <1>1, <1>2, NoPull
  <1>4. PICK others : others = {p \in pulls : p.tid # session.pull}  OBVIOUS
  <1>5. others \in SUBSET PullType /\ IsFiniteSet(others)
    <2>1. others \in SUBSET pulls  BY <1>4
    <2>. QED  BY <2>1, FS_Subset DEF TypeOK
  <1>6. PICK b \in BOOLEAN : b = (Held(port) = 0)  OBVIOUS
  <1>7. maybe_pull(s, others, credit, b) /\ credit' = b
    BY <1>2, <1>4, <1>6 DEF PullFails
  <1>8. /\ SessionOk(session')
        /\ session'.n = s.n /\ session'.id = s.id /\ session'.seq = s.seq /\ session'.bytes = s.bytes
        /\ pulls' \in SUBSET PullType /\ IsFiniteSet(pulls')
        /\ \/ session'.pull = s.pull /\ pulls' = others
           \/ /\ s.n # 0 /\ s.pull = 0 /\ (credit \/ b) /\ session'.pull = FreeTid
              /\ pulls' = others \cup {[tid |-> FreeTid, id |-> s.id, seq |-> s.seq]}
    BY <1>3, <1>5, <1>7, MaybePull
  <1>9. credit \/ b => credit  BY <1>6 DEF Port, Window
  <1>10. After(s, others, credit)  BY <1>8, <1>9 DEF After
  <1>11. /\ UNCHANGED <<client, inbox, port, jobStart, handed, taken, log>>
         /\ replies' = {m \in replies : m.tid # session.pull}
         /\ session.pull # 0
    BY DEF PullFails, clientVars
  <1>12. replies' \in SUBSET AnswerType /\ IsFiniteSet(replies')
    <2>1. replies' \in SUBSET replies  BY <1>11
    <2>. QED  BY <2>1, FS_Subset DEF TypeOK
  <1>13. TypeOK'  BY <1>6, <1>7, <1>8, <1>11, <1>12 DEF TypeOK
  <1>. QED  BY <1>1, <1>3, <1>4, <1>6, <1>7, <1>10, <1>11, <1>13

\* What the return of a write does.
LEMMA ReturnStep ==
    ASSUME TypeOK, WriteReturns
    PROVE  /\ TypeOK' /\ port.writing > 0 /\ port' = Written(port)
           /\ (credit' <=> Held(port') = 0)
           /\ After(session, pulls, Held(port') = 0)
           /\ UNCHANGED <<client, inbox, replies, jobStart, handed, taken, log>>
  <1>1. SessionOk(session) /\ port \in PortType /\ pulls \in SUBSET PullType /\ IsFiniteSet(pulls)
    BY DEF TypeOK
  <1>2. PICK p \in PortType : p = Written(port)  BY <1>1, WrittenPort
  <1>3. PICK b \in BOOLEAN : b = (Held(p) = 0)  OBVIOUS
  <1>. PICK none \in BOOLEAN : none = FALSE  OBVIOUS
  <1>4. port' = p /\ credit' = b /\ maybe_pull(session, pulls, none, b)
    BY <1>2, <1>3 DEF WriteReturns
  <1>5. /\ SessionOk(session')
        /\ session'.n = session.n /\ session'.id = session.id /\ session'.seq = session.seq
        /\ session'.bytes = session.bytes
        /\ pulls' \in SUBSET PullType /\ IsFiniteSet(pulls')
        /\ \/ session'.pull = session.pull /\ pulls' = pulls
           \/ /\ session.n # 0 /\ session.pull = 0 /\ (none \/ b) /\ session'.pull = FreeTid
              /\ pulls' = pulls \cup {[tid |-> FreeTid, id |-> session.id, seq |-> session.seq]}
    BY <1>1, <1>4, MaybePull
  <1>6. After(session, pulls, b)  BY <1>5 DEF After
  <1>7. UNCHANGED <<client, inbox, replies, jobStart, handed, taken, log>> /\ port.writing > 0
    BY DEF WriteReturns, clientVars
  <1>8. TypeOK'  BY <1>2, <1>3, <1>4, <1>5, <1>7 DEF TypeOK
  <1>9. b <=> Held(port') = 0  BY <1>3, <1>4
  <1>10. After(session, pulls, Held(port') = 0)  BY <1>6, <1>9 DEF After
  <1>. QED  BY <1>2, <1>4, <1>7, <1>8, <1>9, <1>10

\* What asking for the ribbon does: there is no session.
LEMMA PollStep ==
    ASSUME TypeOK, poll_ident_due
    PROVE  /\ TypeOK' /\ session.n = 0 /\ SameSession
           /\ port' = Put(port, Query) /\ credit' = FALSE
           /\ UNCHANGED <<client, inbox, pulls, replies, jobStart, handed, taken, log>>
  <1>1. /\ port' = Put(port, Query) /\ credit' = FALSE /\ session' = session /\ session.n = 0
        /\ UNCHANGED <<client, inbox, pulls, replies, jobStart, handed, taken, log>>
    BY NoSessionOk DEF poll_ident_due, Query, clientVars
  <1>2. SameSession  BY <1>1, SessionKept
  <1>3. Put(port, Query) \in PortType  BY ItemFacts, PutFacts DEF TypeOK
  <1>4. TypeOK'  BY <1>1, <1>2, <1>3 DEF TypeOK, SameSession
  <1>. QED  BY <1>1, <1>2, <1>4

\* What reporting an event does.
LEMMA ReportStep ==
    ASSUME TypeOK, Report
    PROVE  /\ TypeOK' /\ SameSession
           /\ port.writing = 0 /\ Len(port.events) > 0 /\ port.events[1].ahead = 0
           /\ port'.queue = port.queue /\ port'.writing = port.writing /\ port'.events = Tail(port.events)
           /\ Len(port'.events) = Len(port.events) - 1
           /\ \A j \in 1 .. Len(port'.events) : port'.events[j] = port.events[j + 1]
           /\ Longer(log', log) /\ Len(log') = Len(log) + 1 /\ log'[Len(log) + 1] = port.events[1].item
           /\ UNCHANGED <<client, inbox, pulls, replies, credit, jobStart, handed, taken>>
  <1>1. /\ port \in PortType /\ log \in Seq(ItemType) /\ port.events \in Seq(EventType)
        /\ port = [queue |-> port.queue, writing |-> port.writing, events |-> port.events]
        /\ port.queue \in Seq(ItemType) /\ port.writing \in Nat
    BY DEF TypeOK, PortType
  <1>2. /\ port.events # <<>> /\ Head(port.events).ahead = 0 /\ port.writing = 0
        /\ log' = Append(log, Head(port.events).item)
        /\ port' = [port EXCEPT !.events = Tail(@)]
        /\ session' = session
        /\ UNCHANGED <<client, inbox, pulls, replies, credit, jobStart, handed, taken>>
    BY DEF Report, next_event, clientVars
  <1>3. Len(port.events) > 0 /\ Head(port.events) = port.events[1] /\ port.events[1] \in EventType
    BY <1>1, <1>2
  <1>4. PICK t \in Seq(EventType) : t = Tail(port.events)
    <2>1. Tail(port.events) \in Seq(EventType)  BY <1>1, <1>3
    <2>. QED  BY <2>1
  <1>5. Len(t) = Len(port.events) - 1 /\ \A j \in 1 .. Len(t) : t[j] = port.events[j + 1]
    BY <1>1, <1>3, <1>4
  <1>6. port' = [queue |-> port.queue, writing |-> port.writing, events |-> t]
    <2>1. port' = [port EXCEPT !.events = t]  BY <1>2, <1>4, Zenon
    <2>. QED  BY <1>1, <2>1
  <1>7. PICK e \in ItemType : e = port.events[1].item  BY <1>3 DEF EventType
  <1>8. log' = Append(log, e)  BY <1>2, <1>3, <1>7
  <1>9. log' \in Seq(ItemType) /\ Len(log') = Len(log) + 1 /\ log'[Len(log) + 1] = e
        /\ \A i \in 1 .. Len(log) : log'[i] = log[i]
    BY <1>1, <1>8
  <1>10. Longer(log', log)
    <2>1. Len(log) <= Len(log')  BY <1>1, <1>9
    <2>. QED  BY <1>1, <1>9, <2>1 DEF Longer
  <1>11. SameSession  BY <1>2, SessionKept
  <1>12. port' \in PortType  BY <1>1, <1>6 DEF PortType
  <1>13. TypeOK'  BY <1>2, <1>9, <1>11, <1>12 DEF TypeOK, SameSession
  <1>. QED  BY <1>2, <1>3, <1>4, <1>5, <1>6, <1>7, <1>9, <1>10, <1>11, <1>13

\* What starting a write does.
LEMMA WriteStep ==
    ASSUME TypeOK, WriteStarts
    PROVE  /\ TypeOK' /\ SameSession
           /\ port.writing = 0 /\ (Len(port.events) > 0 => port.events[1].ahead # 0)
           /\ \E w \in 1 .. Len(port.queue) :
                 /\ Longer(log', log) /\ Len(log') = Len(log) + w
                 /\ \A i \in 1 .. w : log'[Len(log) + i] = port.queue[i]
                 /\ port'.writing = w /\ port'.events = port.events
                 /\ Len(port'.queue) = Len(port.queue) - w
                 /\ \A i \in 1 .. Len(port.queue) - w : port'.queue[i] = port.queue[w + i]
           /\ UNCHANGED <<client, inbox, pulls, replies, credit, jobStart, handed, taken>>
  <1>1. /\ port \in PortType /\ log \in Seq(ItemType) /\ port.events \in Seq(EventType)
        /\ port = [queue |-> port.queue, writing |-> port.writing, events |-> port.events]
        /\ port.queue \in Seq(ItemType) /\ port.writing \in Nat /\ Len(port.queue) \in Nat
    BY DEF TypeOK, PortType
  <1>2. PICK w \in 1 .. Len(port.queue) :
           /\ log' = log \o SubSeq(port.queue, 1, w)
           /\ port' = [port EXCEPT !.queue = SubSeq(@, w + 1, Len(@)), !.writing = w]
    BY DEF WriteStarts
  <1>3. /\ session' = session /\ ~next_event(port) /\ port.writing = 0
        /\ UNCHANGED <<client, inbox, pulls, replies, credit, jobStart, handed, taken>>
    BY DEF WriteStarts, clientVars
  <1>4. PICK a : a = SubSeq(port.queue, 1, w)  OBVIOUS
  <1>5. PICK b : b = SubSeq(port.queue, w + 1, Len(port.queue))  OBVIOUS
  <1>6. a \in Seq(ItemType) /\ Len(a) = w /\ \A i \in 1 .. w : a[i] = port.queue[i]
    BY <1>1, <1>4
  <1>7. b \in Seq(ItemType) /\ Len(b) = Len(port.queue) - w
        /\ \A i \in 1 .. Len(port.queue) - w : b[i] = port.queue[w + i]
    BY <1>1, <1>5
  <1>8. port' = [queue |-> b, writing |-> w, events |-> port.events]
    <2>1. port' = [port EXCEPT !.queue = b, !.writing = w]  BY <1>2, <1>5, Zenon
    <2>. QED  BY <1>1, <2>1
  <1>9. log' = log \o a  BY <1>2, <1>4
  <1>10. /\ log' \in Seq(ItemType) /\ Len(log') = Len(log) + w
         /\ \A i \in 1 .. Len(log) : log'[i] = log[i]
         /\ \A i \in 1 .. w : log'[Len(log) + i] = a[i]
    BY <1>1, <1>6, <1>9
  <1>11. Longer(log', log)
    <2>1. Len(log) <= Len(log')  BY <1>1, <1>10
    <2>. QED  BY <1>1, <1>10, <2>1 DEF Longer
  <1>12. SameSession  BY <1>3, SessionKept
  <1>13. port' \in PortType  BY <1>1, <1>7, <1>8 DEF PortType
  <1>14. TypeOK'  BY <1>3, <1>10, <1>12, <1>13 DEF TypeOK, SameSession
  <1>15. Len(port.events) > 0 => port.events[1].ahead # 0  BY <1>1, <1>3 DEF next_event
  <1>16. \A i \in 1 .. w : log'[Len(log) + i] = port.queue[i]  BY <1>6, <1>10
  <1>. QED  BY <1>3, <1>7, <1>8, <1>10, <1>11, <1>12, <1>14, <1>15, <1>16

\* What the type of a reply cache says of its entries.
LEMMA CacheEntry ==
    ASSUME NEW cache \in CacheType, NEW j \in 1 .. Len(cache)
    PROVE  cache[j].seq \in 1 .. MaxSeq /\ cache[j].reply \in ReplyType
  <1>. DEFINE Entry == [seq : 1 .. MaxSeq, reply : ReplyType]
  <1>1. cache \in Seq(Entry)  BY DEF CacheType
  <1>2. cache[j] \in Entry
    <2>. HIDE DEF Entry
    <2>. QED  BY <1>1
  <1>. QED  BY <1>2

\* The cache with one entry more, and perhaps the oldest less.
LEMMA RememberFacts ==
    ASSUME NEW cache \in CacheType, Len(cache) <= CacheLen, NEW q \in 1 .. MaxSeq, NEW reply \in ReplyType,
           NEW R, R = Remember(cache, q, reply)
    PROVE  /\ R \in CacheType /\ Len(R) \in 1 .. CacheLen
           /\ R[Len(R)].seq = q /\ R[Len(R)].reply = reply
           /\ \E d \in {0, 1} : /\ Len(R) = Len(cache) + 1 - d
                                /\ \A j \in 1 .. Len(R) - 1 : R[j] = cache[j + d]
  <1>1. PICK x : x = [seq |-> q, reply |-> reply]  OBVIOUS
  <1>. DEFINE Entry == [seq : 1 .. MaxSeq, reply : ReplyType]
  <1>2. x \in Entry /\ x.seq = q /\ x.reply = reply  BY <1>1
  <1>. HIDE DEF Entry
  <1>3. cache \in Seq(Entry) /\ Len(cache) \in Nat  BY DEF CacheType, Entry
  <1>4. CASE Len(cache) = CacheLen
    <2>1. PICK t \in Seq(Entry) : t = Tail(cache)
      <3>1. cache # <<>>  BY <1>3, <1>4, ConnFacts
      <3>2. Tail(cache) \in Seq(Entry)  BY <1>3, <3>1
      <3>. QED  BY <3>2
    <2>2. Len(t) = Len(cache) - 1 /\ \A j \in 1 .. Len(t) : t[j] = cache[j + 1]
      BY <1>3, <1>4, <2>1, ConnFacts
    <2>3. R = Append(t, x)  BY <1>1, <1>4, <2>1 DEF Remember
    <2>4. R \in Seq(Entry) /\ Len(R) = Len(t) + 1 /\ R[Len(t) + 1] = x /\ \A j \in 1 .. Len(t) : R[j] = t[j]
      BY <1>2, <2>1, <2>3
    <2>5. Len(R) \in 1 .. CacheLen /\ R[Len(R)] = x  BY <1>3, <1>4, <2>2, <2>4, ConnFacts
    <2>6. Len(R) = Len(cache) + 1 - 1 /\ \A j \in 1 .. Len(R) - 1 : R[j] = cache[j + 1]
      BY <1>3, <2>2, <2>4
    <2>. QED  BY <1>2, <2>4, <2>5, <2>6 DEF CacheType, Entry
  <1>5. CASE Len(cache) # CacheLen
    <2>1. R = Append(cache, x)  BY <1>1, <1>5 DEF Remember
    <2>2. R \in Seq(Entry) /\ Len(R) = Len(cache) + 1 /\ R[Len(cache) + 1] = x
          /\ \A j \in 1 .. Len(cache) : R[j] = cache[j]
      BY <1>2, <1>3, <2>1
    <2>3. Len(R) \in 1 .. CacheLen /\ R[Len(R)] = x  BY <1>3, <1>5, <2>2, ConnFacts
    <2>4. Len(R) = Len(cache) + 1 - 0 /\ \A j \in 1 .. Len(R) - 1 : R[j] = cache[j + 0]
      BY <1>3, <2>2
    <2>. QED  BY <1>2, <2>2, <2>3, <2>4 DEF CacheType, Entry
  <1>. QED  BY <1>4, <1>5

\* The client answers pull p with reply: it answered it before, or hands out more.
Repeats(p, reply) ==
    /\ \E j \in 1 .. Len(client.cache) : client.cache[j].seq = p.seq /\ reply = client.cache[j].reply
    /\ UNCHANGED <<client, handed>>

Replies(p, reply) ==
    /\ \A j \in 1 .. Len(client.cache) : client.cache[j].seq # p.seq
    /\ client'.n = client.n /\ client'.id = client.id /\ client'.job = client.job
    /\ client'.cache = Remember(client.cache, p.seq, reply)
    /\ \/ /\ client.pc = "printing" /\ client'.pc = "printing"
          /\ client.pos < JobLen /\ client'.pos = client.pos + 1
          /\ reply = ChunkReply(client.n, handed[client.n] + 1)
          /\ handed' = [handed EXCEPT ![client.n] = handed[client.n] + 1]
       \/ /\ client.pc = "drain" \/ client.pos = JobLen
          /\ client'.pc = (IF client.pc = "drain" THEN "idle" ELSE "drain")
          /\ client'.pos = client.pos
          /\ reply = EofReply
          /\ handed' = handed

\* What the client does with a pull: it repeats a reply, or makes one and remembers it.
LEMMA HandleStep ==
    ASSUME TypeOK, HandlePull, Jobs
    PROVE  \E p \in PullType, reply \in ReplyType :
              /\ Len(inbox) > 0 /\ p = inbox[1] /\ client.pc \in {"printing", "drain"}
              /\ Len(inbox') = Len(inbox) - 1 /\ \A i \in 1 .. Len(inbox') : inbox'[i] = inbox[i + 1]
              /\ \/ session.pull # p.tid /\ replies' = replies
                 \/ session.pull = p.tid /\ replies' = replies \cup {[tid |-> p.tid, reply |-> reply]}
              /\ Repeats(p, reply) \/ Replies(p, reply)
              /\ TypeOK' /\ SameSession
              /\ UNCHANGED <<pulls, credit, port, jobStart, taken, log>>
  <1>1. /\ SessionOk(session) /\ ClientOk(client) /\ inbox \in Seq(PullType)
        /\ replies \in SUBSET AnswerType /\ IsFiniteSet(replies) /\ handed \in [Conns -> Nat]
    BY DEF TypeOK
  <1>2. client.pc \in {"printing", "drain"} /\ inbox # <<>> /\ inbox' = Tail(inbox)
        /\ session' = session /\ UNCHANGED <<pulls, credit, port, jobStart, taken, log>>
    BY DEF HandlePull, serverVars
  <1>3. PICK p \in PullType : p = inbox[1] /\ p = Head(inbox)
    <2>1. inbox[1] \in PullType /\ Head(inbox) = inbox[1]  BY <1>1, <1>2
    <2>. QED  BY <2>1
  <1>4. /\ Len(inbox) > 0 /\ Len(inbox') = Len(inbox) - 1 /\ inbox' \in Seq(PullType)
        /\ \A i \in 1 .. Len(inbox') : inbox'[i] = inbox[i + 1]
    BY <1>1, <1>2
  <1>5. SameSession  BY <1>2, SessionKept
  <1>6. /\ client.n \in Conns /\ client.cache \in CacheType /\ Len(client.cache) <= CacheLen
        /\ client.pos \in Nat /\ Len(client.cache) \in Nat /\ client.pc # "off"
        /\ client = [pc |-> client.pc, n |-> client.n, id |-> client.id, job |-> client.job, pos |-> client.pos,
                     cache |-> client.cache, rseq |-> client.rseq, reads |-> client.reads, got |-> client.got]
    BY <1>1, <1>2 DEF ClientOk, CacheType, Jobs
  <1>7. PICK old : old = Cached(client.cache, p.seq)  OBVIOUS
  <1>8. \A r : r \in old <=> \E j \in 1 .. Len(client.cache) : client.cache[j].seq = p.seq /\ r = client.cache[j].reply
    BY <1>6, <1>7 DEF Cached, CacheType
  <1>9. p.tid \in Nat \ {0} /\ p.seq \in 1 .. MaxSeq  BY DEF PullType
  <1>. DEFINE Sent(reply) ==
                 \/ session.pull # p.tid /\ replies' = replies
                 \/ session.pull = p.tid /\ replies' = replies \cup {[tid |-> p.tid, reply |-> reply]}
  <1>10. ASSUME NEW reply, Reply(p, reply) PROVE Sent(reply)
    <2>1. session.pull = p.tid => session # NoSession  BY <1>1, <1>9, NoSessionOk
    <2>. QED  BY <1>10, <2>1 DEF Reply
  <1>11. \E reply \in ReplyType : Sent(reply) /\ (Repeats(p, reply) \/ Replies(p, reply)) /\ ClientOk(client')
                                  /\ handed' \in [Conns -> Nat]
    <2>1. CASE old # {}
      <3>1. PICK reply \in old : Reply(p, reply) /\ UNCHANGED <<client, handed>>
        BY <1>3, <1>7, <2>1 DEF HandlePull
      <3>2. PICK j \in 1 .. Len(client.cache) : client.cache[j].seq = p.seq /\ reply = client.cache[j].reply
        BY <1>8, <3>1
      <3>3. reply \in ReplyType
        <4>1. client.cache \in CacheType /\ j \in 1 .. Len(client.cache)  BY <1>6, <3>2
        <4>. QED  BY <3>2, <4>1, CacheEntry
      <3>4. Repeats(p, reply)  BY <3>1, <3>2 DEF Repeats
      <3>. QED  BY <1>1, <1>10, <3>1, <3>3, <3>4
    <2>2. CASE old = {} /\ client.pc = "printing" /\ client.pos < JobLen /\ handed' # handed
      <3>1. PICK i \in Nat : i = handed[client.n] + 1  BY <1>1, <1>6
      <3>2. PICK reply : reply = [eof |-> FALSE, item |-> Item("chunk", client.n, i)]  OBVIOUS
      <3>3. PICK c : c = Remember(client.cache, p.seq, reply)  OBVIOUS
      <3>4. PICK y : y = client.pos + 1  OBVIOUS
      <3>5. /\ Reply(p, reply)
            /\ client' = [client EXCEPT !.pos = @ + 1, !.cache = Remember(@, p.seq, reply)]
            /\ handed' = [handed EXCEPT ![client.n] = @ + 1]
        BY <1>3, <1>7, <2>2, <3>1, <3>2 DEF HandlePull
      <3>6. client' = [client EXCEPT !.pos = y, !.cache = c]  BY <3>3, <3>4, <3>5, Zenon
      <3>7. client' = [pc |-> client.pc, n |-> client.n, id |-> client.id, job |-> client.job, pos |-> y,
                       cache |-> c, rseq |-> client.rseq, reads |-> client.reads, got |-> client.got]
        BY <1>6, <3>6
      <3>8. reply \in ReplyType
        <4>1. client.n \in 0 .. MaxConns  BY <1>6, ConnFacts
        <4>2. Item("chunk", client.n, i) \in ItemType  BY <4>1, ItemFacts DEF Kinds
        <4>. QED  BY <3>2, <4>2 DEF ReplyType
      <3>9. c \in CacheType  BY <1>6, <1>9, <3>3, <3>8, RememberFacts
      <3>10. y \in Nat  BY <1>6, <3>4
      <3>11. ClientOk(client')  BY <1>1, <1>6, <3>7, <3>9, <3>10 DEF ClientOk
      <3>12. /\ client'.n = client.n /\ client'.id = client.id /\ client'.job = client.job
             /\ client'.cache = c /\ client'.pos = y /\ client'.pc = client.pc
        BY <3>7
      <3>13. handed' = [handed EXCEPT ![client.n] = handed[client.n] + 1] /\ handed' \in [Conns -> Nat]
        BY <1>1, <1>6, <3>1, <3>5
      <3>14. \A j \in 1 .. Len(client.cache) : client.cache[j].seq # p.seq  BY <1>8, <2>2
      <3>15. reply = ChunkReply(client.n, handed[client.n] + 1)  BY <3>1, <3>2 DEF ChunkReply
      <3>16. Replies(p, reply)  BY <2>2, <3>3, <3>4, <3>12, <3>13, <3>14, <3>15 DEF Replies
      <3>. QED  BY <1>10, <3>5, <3>8, <3>11, <3>13, <3>16
    <2>3. CASE old = {} /\ handed' = handed
      <3>1. PICK reply : reply = [eof |-> TRUE, item |-> None]  OBVIOUS
      <3>2. PICK c : c = Remember(client.cache, p.seq, reply)  OBVIOUS
      <3>3. PICK y : y = IF client.pc = "drain" THEN "idle" ELSE "drain"  OBVIOUS
      <3>4. /\ client.pc = "drain" \/ client.pos = JobLen
            /\ Reply(p, reply)
            /\ client' = [client EXCEPT !.pc = IF @ = "drain" THEN "idle" ELSE "drain",
                                        !.cache = Remember(@, p.seq, reply)]
        <4>1. handed' # [handed EXCEPT ![client.n] = @ + 1]
          <5>1. handed[client.n] \in Nat /\ handed[client.n] + 1 # handed[client.n]  BY <1>1, <1>6
          <5>. QED  BY <1>1, <1>6, <2>3, <5>1
        <4>. QED  BY <1>3, <1>7, <2>3, <3>1, <4>1 DEF HandlePull
      <3>5. client' = [client EXCEPT !.pc = y, !.cache = c]  BY <3>2, <3>3, <3>4, Zenon
      <3>6. client' = [pc |-> y, n |-> client.n, id |-> client.id, job |-> client.job, pos |-> client.pos,
                       cache |-> c, rseq |-> client.rseq, reads |-> client.reads, got |-> client.got]
        BY <1>6, <3>5
      <3>7. reply \in ReplyType /\ reply = EofReply  BY <3>1 DEF ReplyType, EofReply
      <3>8. c \in CacheType  BY <1>6, <1>9, <3>2, <3>7, RememberFacts
      <3>9. y # "off"  BY <3>3
      <3>10. ClientOk(client')  BY <1>1, <1>6, <3>6, <3>8, <3>9 DEF ClientOk
      <3>11. /\ client'.n = client.n /\ client'.id = client.id /\ client'.job = client.job
             /\ client'.cache = c /\ client'.pos = client.pos /\ client'.pc = y
        BY <3>6
      <3>12. \A j \in 1 .. Len(client.cache) : client.cache[j].seq # p.seq  BY <1>8, <2>3
      <3>13. Replies(p, reply)  BY <2>3, <3>2, <3>3, <3>4, <3>7, <3>11, <3>12 DEF Replies
      <3>. QED  BY <1>1, <1>10, <2>3, <3>4, <3>7, <3>10, <3>13
    <2>4. old = {} /\ handed' # handed => client.pc = "printing" /\ client.pos < JobLen
      BY <1>3, <1>7 DEF HandlePull
    <2>. QED  BY <2>1, <2>2, <2>3, <2>4
  <1>. HIDE DEF Sent
  <1>12. PICK reply \in ReplyType : Sent(reply) /\ (Repeats(p, reply) \/ Replies(p, reply)) /\ ClientOk(client')
                                    /\ handed' \in [Conns -> Nat]
    BY <1>11
  <1>13. replies' \in SUBSET AnswerType /\ IsFiniteSet(replies')
    <2>1. [tid |-> p.tid, reply |-> reply] \in AnswerType  BY <1>9 DEF AnswerType
    <2>2. IsFiniteSet(replies \cup {[tid |-> p.tid, reply |-> reply]})  BY <1>1, FS_AddElement
    <2>. QED  BY <1>1, <1>12, <2>1, <2>2 DEF Sent
  <1>14. TypeOK'  BY <1>2, <1>4, <1>5, <1>12, <1>13 DEF TypeOK, SameSession
  <1>. QED  BY <1>2, <1>3, <1>4, <1>5, <1>12, <1>14 DEF Sent

-----------------------------------------------------------------------------
(* The connections that were opened *)

\* Putting an item opens the connection that it starts, and no other.
LEMMA BegunPut ==
    ASSUME NEW p \in PortType, NEW l, NEW e \in ItemType, NEW n
    PROVE  BegunIn(Put(p, e), l, n) <=> BegunIn(p, l, n) \/ (e.kind = "start" /\ e.conn = n)
  <1>. DEFINE q == Put(p, e)
              N == Len(p.events)
  <1>1. N \in Nat  BY PortFacts
  <1>2. CASE e.kind \in {"chunk", "query"}
    <2>1. q.events = p.events /\ e.kind # "start"  BY <1>2, PutFacts
    <2>. QED  BY <2>1 DEF BegunIn
  <1>3. CASE e.kind \notin {"chunk", "query"}
    <2>1. /\ Len(q.events) = N + 1 /\ q.events[N + 1].item = e
          /\ \A j \in 1 .. N : q.events[j] = p.events[j]
      BY <1>3, PutFacts
    <2>. HIDE DEF q
    <2>2. \A j : j \in 1 .. N + 1 <=> j \in 1 .. N \/ j = N + 1  BY <1>1
    <2>3. (\E j \in 1 .. N + 1 : q.events[j].item.kind = "start" /\ q.events[j].item.conn = n)
            <=> \/ \E j \in 1 .. N : p.events[j].item.kind = "start" /\ p.events[j].item.conn = n
                \/ e.kind = "start" /\ e.conn = n
      BY <2>1, <2>2
    <2>. QED  BY <2>1, <2>3 DEF BegunIn, q
  <1>. QED  BY <1>2, <1>3

\* A connection that was opened is so when its start is reported.
LEMMA BegunReport ==
    ASSUME NEW p \in PortType, NEW l, NEW n, Len(p.events) > 0, NEW q,
           Len(q.events) = Len(p.events) - 1,
           \A j \in 1 .. Len(q.events) : q.events[j] = p.events[j + 1],
           NEW k, Longer(k, l), Len(k) = Len(l) + 1, k[Len(l) + 1] = p.events[1].item
    PROVE  BegunIn(q, k, n) <=> BegunIn(p, l, n)
  <1>. DEFINE N == Len(p.events)
              M == Len(q.events)
  <1>1. N \in Nat /\ M \in Nat /\ N = M + 1  BY PortFacts
  <1>2. Len(l) \in Nat  BY DEF Longer
  <1>3. Seen(k, "start", n) <=>
           Seen(l, "start", n) \/ (p.events[1].item.kind = "start" /\ p.events[1].item.conn = n)
    <2>1. \A i : i \in Len(l) + 1 .. Len(k) <=> i = Len(l) + 1  BY <1>2
    <2>. QED  BY <2>1, SeenLonger
  <1>4. \A j \in 1 .. N : j = 1 \/ (j - 1 \in 1 .. M /\ p.events[j] = q.events[j - 1])
    <2>. SUFFICES ASSUME NEW j \in 1 .. N, j # 1 PROVE j - 1 \in 1 .. M /\ p.events[j] = q.events[j - 1]
      OBVIOUS
    <2>1. j - 1 \in 1 .. M  BY <1>1
    <2>2. q.events[j - 1] = p.events[(j - 1) + 1] /\ (j - 1) + 1 = j  BY <2>1
    <2>. QED  BY <2>1, <2>2
  <1>5. \A j \in 1 .. M : j + 1 \in 1 .. N /\ q.events[j] = p.events[j + 1]  BY <1>1
  <1>6. 1 \in 1 .. N  BY <1>1
  <1>. HIDE DEF N, M
  <1>7. (\E j \in 1 .. N : p.events[j].item.kind = "start" /\ p.events[j].item.conn = n)
          <=> \/ p.events[1].item.kind = "start" /\ p.events[1].item.conn = n
              \/ \E j \in 1 .. M : q.events[j].item.kind = "start" /\ q.events[j].item.conn = n
    BY <1>4, <1>5, <1>6
  <1>. QED  BY <1>3, <1>7 DEF BegunIn, N, M

\* A write opens no connection.
LEMMA BegunWrite ==
    ASSUME NEW p \in PortType, NEW l, NEW n, NEW q, q.events = p.events,
           \A i \in 1 .. Len(p.queue) : p.queue[i].kind \in {"chunk", "query"},
           NEW w \in 1 .. Len(p.queue), NEW k, Longer(k, l), Len(k) = Len(l) + w,
           \A i \in 1 .. w : k[Len(l) + i] = p.queue[i]
    PROVE  BegunIn(q, k, n) <=> BegunIn(p, l, n)
  <1>1. Len(l) \in Nat /\ Len(p.queue) \in Nat /\ w \in Nat  BY PortFacts DEF Longer
  <1>2. ASSUME NEW i \in Len(l) + 1 .. Len(k) PROVE k[i].kind # "start"
    <2>1. PICK j \in 1 .. w : i = Len(l) + j
      <3>1. i - Len(l) \in 1 .. w /\ i = Len(l) + (i - Len(l))  BY <1>1
      <3>. QED  BY <3>1
    <2>2. j \in 1 .. Len(p.queue)  BY <1>1
    <2>3. k[i] = p.queue[j] /\ p.queue[j].kind \in {"chunk", "query"}  BY <2>1, <2>2
    <2>. QED  BY <2>3
  <1>3. Seen(k, "start", n) <=> Seen(l, "start", n)  BY <1>2, SeenLonger
  <1>. QED  BY <1>3 DEF BegunIn

\* Nor does its return.
LEMMA BegunReturn ==
    ASSUME NEW p \in PortType, NEW l, NEW n
    PROVE  BegunIn(Written(p), l, n) <=> BegunIn(p, l, n)
  BY WrittenPort DEF BegunIn

\* No connection is opened by the step.
SameBegun == \A n : Begun(n)' <=> Begun(n)

\* Or only ones that were not.
MoreBegun == \A n : Begun(n) => Begun(n)'

\* The connections opened are told by the port and the log.
LEMMA KeptBegun ==
    ASSUME UNCHANGED <<port, log>>
    PROVE  SameBegun
  BY DEF SameBegun, Begun, BegunIn

\* If the same connections are open, those that were are.
LEMMA SameMore ==
    ASSUME SameBegun
    PROVE  MoreBegun
  BY DEF SameBegun, MoreBegun

-----------------------------------------------------------------------------
(* Opening is preserved *)

\* Opened survives a step that opens no connection.
LEMMA OpenedKept ==
    ASSUME Opened, SameBegun, client'.n = client.n, session'.n # 0 => session'.n = session.n
    PROVE  Opened'
  <1>1. \A n \in Conns : Begun(n)' => n <= client'.n  BY DEF Opened, SameBegun
  <1>2. session'.n # 0 => Begun(session.n)'
    <2>1. session'.n # 0 => Begun(session.n)  BY DEF Opened
    <2>. QED  BY <2>1 DEF SameBegun
  <1>3. session'.n # 0 => Begun(session.n)' /\ session'.n = session.n  BY <1>2
  <1>. QED  BY <1>1, <1>3 DEF Opened, Begun

\* So do the abandoned requests, when there are no more of them.
LEMMA AbandoningKept ==
    ASSUME Abandoning, SameBegun, client'.n = client.n, Here' => Here, stale' \in SUBSET stale
    PROVE  Abandoning'
  <1>1. ASSUME NEW r \in stale'
        PROVE  /\ ~r.live
               /\ r.kind = "open" =>
                     /\ r.n \in 1 .. client'.n /\ r.id = SocketOf[r.n] /\ ~Begun(r.n)'
                     /\ Here' => r.n < client'.n
    BY <1>1 DEF Abandoning, SameBegun
  <1>2. \A r, q \in stale' : r.kind = "open" /\ q.kind = "open" /\ r.n = q.n => r = q
    BY DEF Abandoning
  <1>. QED  BY <1>1, <1>2 DEF Abandoning

\* A request is the client's, or of one that gave up.
LEMMA RequestFacts ==
    ASSUME Opening, NEW r \in Requests
    PROVE  (r \in stale /\ ~r.live) \/ (r = call /\ r.live = TRUE /\ Calling)
  <1>1. r \in stale \/ (r = call /\ Calling)  BY DEF Requests, Calling
  <1>2. Calling => call.live = TRUE
    BY DEF Opening, Asking
  <1>. QED  BY <1>1, <1>2 DEF Opening, Abandoning

\* The call and the request are as before.
LEMMA AskingKept ==
    ASSUME Asking, SameBegun, call' = call, client'.n = client.n,
           call.kind \in {"open", "read", "close"} => client'.pc = client.pc /\ client'.id = client.id,
           client'.pc = "opening" => client.pc = "opening"
    PROVE  Asking'
  <1>1. Begun(client.n)' <=> Begun(client.n)
    <2>1. PICK n : n = client.n  OBVIOUS
    <2>2. Begun(n)' <=> Begun(n)  BY DEF SameBegun
    <2>3. n = client'.n  BY <2>1
    <2>. QED  BY <2>1, <2>2, <2>3
  <1>3. /\ call.kind = "open" => client'.pc = "opening" /\ call.n = client'.n /\ call.id = client'.id
        /\ call.kind = "read" => client'.pc = "reading"
        /\ call.kind = "close" => client'.pc = "closing"
        /\ call.kind = "open" \/ (client'.pc = "opening" /\ call.kind = "reply" /\ call.reply.kind = "busy")
              => ~Begun(client.n)'
        /\ Calling =>
              call = [kind |-> call.kind, n |-> call.n, id |-> call.id, seq |-> call.seq, live |-> TRUE]
    BY <1>1 DEF Asking
  <1>. QED  BY <1>3 DEF Asking, Calling, Begun

\* The call is over, and says busy only if the connection was not opened.
LEMMA AskingOver ==
    ASSUME call'.kind \notin {"open", "read", "close"},
           client'.pc = "opening" /\ call'.kind = "reply" /\ call'.reply.kind = "busy" => ~Begun(client.n)'
    PROVE  Asking'
  BY DEF Asking, Calling, Begun

\* The client asks.
LEMMA AskingNew ==
    ASSUME NEW c, NEW kind \in {"open", "read", "close"}, call' = Request(c, kind), c.n = client'.n, c.id = client'.id,
           client'.pc = IF kind = "open" THEN "opening" ELSE IF kind = "read" THEN "reading" ELSE "closing",
           kind = "open" => ~Begun(client.n)'
    PROVE  Asking'
  <1>1. call' = [kind |-> kind, n |-> c.n, id |-> c.id, seq |-> c.rseq, live |-> TRUE]  BY DEF Request
  <1>. QED  BY <1>1 DEF Asking, Calling, Begun

\* Bookkeeping keeps what is known of the requests.
LEMMA BookkeepingOpening ==
    ASSUME TypeOK, Opening, Bookkeeping
    PROVE  Opening'
  <1>1. Still /\ UNCHANGED <<client, inbox, pulls>>  BY BookkeepingStep
  <1>2. SameBegun  BY <1>1, KeptBegun DEF Still
  <1>3. Opened'  BY <1>1, <1>2, OpenedKept DEF Opening, Still, SameSession
  <1>4. stale' \in SUBSET stale
    BY DEF Bookkeeping, SendData, Unanswered, handle_listener_event, IdleAnswer, PrinterInput, settle_ident,
           clientVars, Received
  <1>5. Abandoning'  BY <1>1, <1>2, <1>4, AbandoningKept DEF Opening, Here
  <1>6. Asking'
    <2>1. CASE call' = call  BY <1>1, <1>2, <2>1, AskingKept DEF Opening
    <2>2. CASE call'.kind \notin {"open", "read", "close"} /\ (call'.kind = "reply" => call'.reply.kind # "busy")
      BY <2>2, AskingOver
    <2>3. ASSUME NEW r \in Requests, SendData(r) PROVE Asking'
      <3>1. r.kind = "read"  BY <2>3 DEF SendData
      <3>2. call' # call => r.live /\ call'.kind \notin {"open", "read", "close"}
        BY <2>3 DEF SendData, Respond, Ignore
      <3>3. call' # call => client.pc = "reading"  BY <3>1, <3>2, RequestFacts DEF Opening, Asking
      <3>4. CASE call' # call  BY <1>1, <3>2, <3>3, <3>4, AskingOver
      <3>. QED  BY <2>1, <3>4
    <2>4. ASSUME NEW r \in Requests, Unanswered(r) PROVE Asking'
      <3>1. call' = call \/ call'.kind = "ignored"  BY <2>4 DEF Unanswered, Ignore
      <3>. QED  BY <2>1, <2>2, <3>1
    <2>5. ASSUME NEW r \in Requests, handle_listener_event(r), session # NoSession PROVE Asking'
      <3>1. r.kind = "open" /\ Respond(r.live, [kind |-> "busy"])  BY <2>5 DEF handle_listener_event
      <3>2. CASE r.live
        <4>1. r = call  BY <3>2, RequestFacts
        <4>2. ~Begun(client.n)  BY <3>1, <4>1 DEF Opening, Asking
        <4>3. ~Begun(client.n)'
          <5>1. PICK n : n = client.n  OBVIOUS
          <5>2. ~Begun(n)'  BY <1>2, <4>2, <5>1 DEF SameBegun
          <5>3. n = client'.n  BY <1>1, <5>1
          <5>. QED  BY <5>2, <5>3
        <4>4. call'.kind = "reply"  BY <3>1, <3>2 DEF Respond
        <4>. QED  BY <4>3, <4>4, AskingOver
      <3>3. CASE ~r.live  BY <2>1, <3>1, <3>3 DEF Respond
      <3>. QED  BY <3>2, <3>3
    <2>6. CASE IdleAnswer
      <3>1. call' = call \/ (call'.kind = "reply" /\ call'.reply.kind = "data")
        BY <2>6 DEF IdleAnswer, Respond, ReadReply
      <3>. QED  BY <2>1, <2>2, <3>1
    <2>7. CASE PrinterInput
      <3>1. call' = call \/ (call'.kind = "reply" /\ call'.reply.kind = "data")
        BY <2>7 DEF PrinterInput, Respond, ReadReply
      <3>. QED  BY <2>1, <2>2, <3>1
    <2>8. CASE settle_ident
      <3>1. call' = call  BY <2>8 DEF settle_ident, clientVars
      <3>. QED  BY <2>1, <3>1
    <2>. QED  BY <2>3, <2>4, <2>5, <2>6, <2>7, <2>8 DEF Bookkeeping
  <1>. QED  BY <1>3, <1>5, <1>6 DEF Opening

\* So do the client's own steps.
LEMMA ProceedsOpening ==
    ASSUME TypeOK, Opening, Proceeds
    PROVE  Opening'
  <1>1. Still /\ Here /\ Here' /\ client'.n = client.n /\ client'.id = client.id
    BY ProceedsStep
  <1>2. SameBegun  BY <1>1, KeptBegun DEF Still
  <1>3. Opened'  BY <1>1, <1>2, OpenedKept DEF Opening, Still, SameSession
  <1>4. Begun(client.n)' <=> Begun(client.n)
    <2>1. PICK n : n = client.n  OBVIOUS
    <2>2. Begun(n)' <=> Begun(n)  BY <1>2 DEF SameBegun
    <2>3. n = client'.n  BY <1>1, <2>1
    <2>. QED  BY <2>1, <2>2, <2>3
  <1>5. CASE ReadTimeout
    <2>1. client.pc = "reading" /\ client'.pc = "idle" /\ Abandoned
      <3>1. client.pc = "reading" /\ client' = [client EXCEPT !.pc = "idle"] /\ Abandoned  BY <1>5 DEF ReadTimeout
      <3>. QED  BY <3>1 DEF TypeOK, ClientOk
    <2>2. call' = None /\ call.kind # "open"  BY <2>1 DEF Abandoned, Opening, Asking
    <2>3. Asking'
      <3>1. call'.kind = "none"  BY <2>2 DEF None
      <3>. QED  BY <3>1, AskingOver
    <2>4. Abandoning'
      <3>1. \A r \in stale' : r \in stale \/ (~r.live /\ r.kind # "open")
        <4>1. CASE stale' = stale  BY <4>1
        <4>2. CASE Calling /\ stale' = stale \cup {[call EXCEPT !.live = FALSE]}
          <5>1. call = [kind |-> call.kind, n |-> call.n, id |-> call.id, seq |-> call.seq, live |-> TRUE]
            BY <4>2 DEF Opening, Asking
          <5>2. PICK x : x = [call EXCEPT !.live = FALSE]  OBVIOUS
          <5>3. ~x.live /\ x.kind = call.kind  BY <5>1, <5>2
          <5>. QED  BY <2>2, <4>2, <5>2, <5>3
        <4>. QED  BY <2>1, <4>1, <4>2 DEF Abandoned, Calling
      <3>2. ASSUME NEW r \in stale'
            PROVE  /\ ~r.live
                   /\ r.kind = "open" =>
                         /\ r.n \in 1 .. client'.n /\ r.id = SocketOf[r.n] /\ ~Begun(r.n)'
                         /\ Here' => r.n < client'.n
        BY <1>1, <1>2, <3>1, <3>2 DEF Opening, Abandoning, SameBegun
      <3>3. \A r, q \in stale' : r.kind = "open" /\ q.kind = "open" /\ r.n = q.n => r = q
        BY <3>1 DEF Opening, Abandoning
      <3>. QED  BY <3>2, <3>3 DEF Abandoning
    <2>. QED  BY <1>3, <2>3, <2>4 DEF Opening
  <1>6. CASE ~ReadTimeout
    <2>1. stale' = stale
      BY <1>6 DEF Proceeds, OpenConnReply, print_stream, DrainOver, read_response, DataReply, close
    <2>2. Abandoning'  BY <1>1, <1>2, <2>1, AbandoningKept DEF Opening
    <2>3. Asking'
      <3>1. CASE OpenConnReply
        <4>1. CASE call' = None
          <5>1. call'.kind = "none"  BY <4>1 DEF None
          <5>. QED  BY <5>1, AskingOver
        <4>2. CASE call' # None
          <5>1. /\ client.pc = "opening" /\ call.kind = "reply" /\ call.reply.kind = "busy"
                /\ call' = Request(client, "open") /\ client' = client
            BY <3>1, <4>2 DEF OpenConnReply
          <5>2. ~Begun(client.n)'  BY <1>4, <5>1 DEF Opening, Asking
          <5>. QED  BY <5>1, <5>2, AskingNew
        <4>. QED  BY <4>1, <4>2
      <3>2. CASE print_stream \/ DrainOver
        <4>1. client.pc \in {"idle", "drain"} /\ call' = call  BY <3>2 DEF print_stream, DrainOver
        <4>2. ~(call.kind \in {"open", "read", "close"})  BY <4>1 DEF Opening, Asking
        <4>3. client'.pc # "opening"
          <5>1. ClientOk(client)  BY DEF TypeOK
          <5>2. CASE DrainOver
            <6>1. client' = [client EXCEPT !.pc = "idle"]  BY <5>2 DEF DrainOver
            <6>. QED  BY <5>1, <6>1 DEF ClientOk
          <5>3. CASE print_stream
            <6>1. PICK j : j = client.job + 1  OBVIOUS
            <6>2. client' = [client EXCEPT !.pc = "printing", !.job = j, !.pos = 0, !.cache = <<>>]
              BY <5>3, <6>1 DEF print_stream
            <6>. QED  BY <5>1, <6>2 DEF ClientOk
          <5>. QED  BY <3>2, <5>2, <5>3
        <4>. QED  BY <1>1, <1>2, <4>1, <4>2, <4>3, AskingKept DEF Opening
      <3>3. CASE read_response
        <4>1. call' = Request(client, "read") /\ client' = [client EXCEPT !.pc = "reading", !.reads = @ + 1]
          BY <3>3 DEF read_response
        <4>2. client'.pc = "reading"  BY <4>1 DEF TypeOK, ClientOk
        <4>. QED  BY <1>1, <4>1, <4>2, AskingNew
      <3>4. CASE close
        <4>1. call' = Request(client, "close") /\ client' = [client EXCEPT !.pc = "closing"]
          BY <3>4 DEF close
        <4>2. client'.pc = "closing"  BY <4>1 DEF TypeOK, ClientOk
        <4>. QED  BY <1>1, <4>1, <4>2, AskingNew
      <3>5. CASE DataReply
        <4>1. CASE call' = None
          <5>1. call'.kind = "none"  BY <4>1 DEF None
          <5>. QED  BY <5>1, AskingOver
        <4>2. CASE call' # None
          <5>1. PICK y : y = next_pap_seq(client.rseq)  OBVIOUS
          <5>2. PICK z : z = client.got \o call.reply.data  OBVIOUS
          <5>3. PICK c : c = [client EXCEPT !.rseq = y, !.got = z]  OBVIOUS
          <5>4. c = [client EXCEPT !.rseq = next_pap_seq(@), !.got = @ \o call.reply.data]
            BY <5>1, <5>2, <5>3, Zenon
          <5>5. client.pc = "reading" /\ client' = [c EXCEPT !.reads = @ + 1] /\ call' = Request(c, "read")
            BY <3>5, <4>2, <5>4 DEF DataReply
          <5>6. c = [pc |-> client.pc, n |-> client.n, id |-> client.id, job |-> client.job, pos |-> client.pos,
                     cache |-> client.cache, rseq |-> y, reads |-> client.reads, got |-> z]
            BY <5>3 DEF TypeOK, ClientOk
          <5>7. client'.pc = "reading" /\ c.n = client.n /\ c.id = client.id  BY <5>5, <5>6
          <5>. QED  BY <1>1, <5>5, <5>7, AskingNew
        <4>. QED  BY <4>1, <4>2
      <3>. QED  BY <1>6, <3>1, <3>2, <3>3, <3>4, <3>5 DEF Proceeds
    <2>. QED  BY <1>3, <2>2, <2>3 DEF Opening
  <1>. QED  BY <1>5, <1>6

\* The port and the pulls move on.
LEMMA QuietOpening ==
    ASSUME Opening, SameBegun, UNCHANGED <<client, call, stale>>,
           session'.n # 0 => session'.n = session.n
    PROVE  Opening'
  <1>1. Opened'  BY OpenedKept DEF Opening
  <1>2. Abandoning'  BY AbandoningKept DEF Opening, Here
  <1>3. Asking'  BY AskingKept DEF Opening
  <1>. QED  BY <1>1, <1>2, <1>3 DEF Opening

\* So does answering a pull.
LEMMA HandleOpening ==
    ASSUME TypeOK, Opening, Jobs, HandlePull
    PROVE  Opening'
  <1>1. client.pc \in {"printing", "drain"} /\ UNCHANGED <<call, stale>>  BY DEF HandlePull
  <1>2. /\ SameSession /\ UNCHANGED <<port, log>>
        /\ client'.n = client.n
        /\ client'.pc # "opening"
    <2>1. PICK p \in PullType, reply \in ReplyType :
             /\ Repeats(p, reply) \/ Replies(p, reply)
             /\ SameSession
             /\ UNCHANGED <<pulls, credit, port, jobStart, taken, log>>
      BY HandleStep
    <2>2. client'.n = client.n /\ client'.pc # "opening"  BY <1>1, <2>1 DEF Repeats, Replies
    <2>. QED  BY <2>1, <2>2
  <1>3. SameBegun  BY <1>2, KeptBegun
  <1>4. Opened'  BY <1>2, <1>3, OpenedKept DEF Opening, SameSession
  <1>5. Abandoning'  BY <1>1, <1>2, <1>3, AbandoningKept DEF Opening, Here
  <1>6. ~(call.kind \in {"open", "read", "close"})  BY <1>1 DEF Opening, Asking
  <1>7. Asking'  BY <1>1, <1>2, <1>3, <1>6, AskingKept DEF Opening
  <1>. QED  BY <1>4, <1>5, <1>7 DEF Opening

\* So does leaving: the request that is abandoned was of a client that is gone.
LEMMA LeavesOpening ==
    ASSUME TypeOK, Opening, Leaves
    PROVE  Opening'
  <1>1. Still /\ Here /\ client'.pc = "off" /\ client'.n = client.n  BY LeavesStep
  <1>2. SameBegun  BY <1>1, KeptBegun DEF Still
  <1>3. Opened'  BY <1>1, <1>2, OpenedKept DEF Opening, Still, SameSession
  <1>4. CASE PrintTimeout
    <2>1. client.pc = "printing" /\ UNCHANGED <<call, stale>>  BY <1>4 DEF PrintTimeout, serverVars
    <2>2. Abandoning'  BY <1>1, <1>2, <2>1, AbandoningKept DEF Opening, Here
    <2>3. ~(call.kind \in {"open", "read", "close"})  BY <2>1 DEF Opening, Asking
    <2>4. Asking'  BY <1>1, <1>2, <2>1, <2>3, AskingKept DEF Opening
    <2>. QED  BY <1>3, <2>2, <2>4 DEF Opening
  <1>5. CASE CloseConnReply
    <2>1. call' = None /\ stale' = stale  BY <1>5 DEF CloseConnReply
    <2>2. Abandoning'  BY <1>1, <1>2, <2>1, AbandoningKept DEF Opening, Here
    <2>3. Asking'
      <3>1. call'.kind = "none"  BY <2>1 DEF None
      <3>. QED  BY <3>1, AskingOver
    <2>. QED  BY <1>3, <2>2, <2>3 DEF Opening
  <1>6. CASE GiveUp
    <2>1. Abandoned  BY <1>6 DEF GiveUp
    <2>2. Asking'
      <3>1. call'.kind = "none"  BY <2>1 DEF Abandoned, None
      <3>. QED  BY <3>1, AskingOver
    <2>3. Abandoning'
      <3>1. CASE stale' = stale  BY <1>1, <1>2, <3>1, AbandoningKept DEF Opening, Here
      <3>2. CASE Calling /\ stale' = stale \cup {[call EXCEPT !.live = FALSE]}
        <4>1. call = [kind |-> call.kind, n |-> call.n, id |-> call.id, seq |-> call.seq, live |-> TRUE]
          BY <3>2 DEF Opening, Asking
        <4>2. PICK x : x = [call EXCEPT !.live = FALSE]  OBVIOUS
        <4>3. ~x.live /\ x.kind = call.kind /\ x.n = call.n /\ x.id = call.id  BY <4>1, <4>2
        <4>4. x.kind = "open" => x.n = client.n /\ x.id = client.id /\ ~Begun(x.n)
          BY <4>3 DEF Opening, Asking
        <4>5. client.n \in Conns /\ client.id = SocketOf[client.n] /\ client.n \in 1 .. client.n
          BY <1>1, ConnFacts DEF TypeOK, ClientOk, Here
        <4>6. \A r \in stale' : r \in stale \/ r = x  BY <3>2, <4>2
        <4>7. ASSUME NEW r \in stale'
              PROVE  /\ ~r.live
                     /\ r.kind = "open" =>
                           /\ r.n \in 1 .. client'.n /\ r.id = SocketOf[r.n] /\ ~Begun(r.n)'
                           /\ Here' => r.n < client'.n
          <5>1. CASE r \in stale  BY <1>1, <1>2, <5>1 DEF Opening, Abandoning, SameBegun, Here
          <5>2. CASE r = x
            <6>1. ~r.live /\ ~Here'  BY <1>1, <4>3, <5>2 DEF Here
            <6>2. ASSUME r.kind = "open"
                  PROVE  r.n \in 1 .. client'.n /\ r.id = SocketOf[r.n] /\ ~Begun(r.n)'
              <7>1. r.n = client.n /\ r.id = client.id /\ ~Begun(r.n)  BY <4>4, <5>2, <6>2
              <7>2. ~Begun(r.n)'  BY <1>2, <7>1 DEF SameBegun
              <7>. QED  BY <1>1, <4>5, <7>1, <7>2
            <6>. QED  BY <6>1, <6>2
          <5>. QED  BY <4>6, <5>1, <5>2
        <4>8. \A r \in stale : r.kind = "open" => r.n < client.n
          BY <1>1 DEF Opening, Abandoning
        <4>9. \A r, q \in stale' : r.kind = "open" /\ q.kind = "open" /\ r.n = q.n => r = q
          <5>1. ASSUME NEW r \in stale, r.kind = "open", x.kind = "open" PROVE r.n # x.n
            BY <4>4, <4>5, <4>8, <5>1, ConnFacts
          <5>2. \A r, q \in stale : r.kind = "open" /\ q.kind = "open" /\ r.n = q.n => r = q
            BY DEF Opening, Abandoning
          <5>. QED  BY <4>6, <5>1, <5>2
        <4>. QED  BY <4>7, <4>9 DEF Abandoning
      <3>. QED  BY <2>1, <3>1, <3>2 DEF Abandoned, Calling
    <2>. QED  BY <1>3, <2>2, <2>3 DEF Opening
  <1>. QED  BY <1>4, <1>5, <1>6 DEF Leaves

\* So does a new client, whose connection was not opened yet.
LEMMA ConnectOpening ==
    ASSUME TypeOK, Opening, Connect
    PROVE  Opening'
  <1>1. /\ Still /\ ~Here /\ client'.pc = "opening" /\ client'.n = client.n + 1
        /\ client.n \in Nat /\ client.n + 1 \in Conns
        /\ call' = [kind |-> "open", n |-> client'.n, id |-> client'.id, seq |-> client'.rseq, live |-> TRUE]
    BY ConnectStep
  <1>2. stale' = stale  BY DEF Connect
  <1>3. SameBegun  BY <1>1, KeptBegun DEF Still
  <1>4. \A n \in Conns : Begun(n)' => n <= client.n  BY <1>3 DEF Opening, Opened, SameBegun
  <1>5. Opened'
    <2>1. \A n \in Conns : Begun(n)' => n <= client'.n  BY <1>1, <1>4, ConnFacts
    <2>2. session'.n = session.n  BY <1>1 DEF Still, SameSession
    <2>3. session.n # 0 => Begun(session.n)  BY DEF Opening, Opened
    <2>4. session'.n # 0 => Begun(session.n)'
      <3>1. PICK n : n = session.n  OBVIOUS
      <3>2. Begun(n)' <=> Begun(n)  BY <1>3 DEF SameBegun
      <3>3. n = session'.n  BY <2>2, <3>1
      <3>. QED  BY <2>3, <3>1, <3>2, <3>3
    <2>. QED  BY <2>1, <2>4 DEF Opened, Begun
  <1>6. Abandoning'
    <2>1. ASSUME NEW r \in stale'
          PROVE  /\ ~r.live
                 /\ r.kind = "open" =>
                       /\ r.n \in 1 .. client'.n /\ r.id = SocketOf[r.n] /\ ~Begun(r.n)'
                       /\ Here' => r.n < client'.n
      <3>1. /\ ~r.live
            /\ r.kind = "open" => r.n \in 1 .. client.n /\ r.id = SocketOf[r.n] /\ ~Begun(r.n)
        BY <1>2, <2>1 DEF Opening, Abandoning
      <3>2. r.kind = "open" => ~Begun(r.n)'  BY <1>3, <3>1 DEF SameBegun
      <3>. QED  BY <1>1, <3>1, <3>2
    <2>2. \A r, q \in stale' : r.kind = "open" /\ q.kind = "open" /\ r.n = q.n => r = q
      BY <1>2 DEF Opening, Abandoning
    <2>. QED  BY <2>1, <2>2 DEF Abandoning
  <1>7. Asking'
    <2>1. ~Begun(client.n)'
      <3>1. PICK n : n = client.n + 1  OBVIOUS
      <3>2. ~Begun(n)'  BY <1>1, <1>4, <3>1
      <3>3. n = client'.n  BY <1>1, <3>1
      <3>. QED  BY <3>2, <3>3
    <2>. QED  BY <1>1, <2>1 DEF Asking, Calling, Begun
  <1>. QED  BY <1>5, <1>6, <1>7 DEF Opening

\* So does the end of a session.
LEMMA EndOpening ==
    ASSUME TypeOK, Opening, Port, Ends, SameBegun
    PROVE  Opening'
  <1>1. session'.n = 0 /\ UNCHANGED client  BY EndStep
  <1>2. CASE UNCHANGED <<call, stale>>  BY <1>1, <1>2, QuietOpening
  <1>3. ASSUME NEW r \in Requests, CloseConn(r) PROVE Opening'
    <2>1. stale' \in SUBSET stale  BY <1>3 DEF CloseConn, Received
    <2>2. Opened'  BY <1>1, OpenedKept DEF Opening
    <2>3. Abandoning'  BY <1>1, <2>1, AbandoningKept DEF Opening, Here
    <2>4. Asking'
      <3>1. CASE call' = call  BY <1>1, <3>1, AskingKept DEF Opening
      <3>2. CASE call' # call
        <4>1. call' = [kind |-> "reply", reply |-> [kind |-> "closed"]]  BY <1>3, <3>2 DEF CloseConn, Respond
        <4>. QED  BY <4>1, AskingOver
      <3>. QED  BY <3>1, <3>2
    <2>. QED  BY <2>2, <2>3, <2>4 DEF Opening
  <1>4. Inactive => UNCHANGED <<call, stale>>  BY DEF Inactive, clientVars
  <1>. QED  BY <1>2, <1>3, <1>4 DEF Ends

\* A connection is opened that was not before.
LEMMA OpenOpening ==
    ASSUME TypeOK, Opening, Port, NEW r \in Requests, handle_listener_event(r), session = NoSession
    PROVE  /\ r.n \in Conns /\ r.id = SocketOf[r.n] /\ ~Begun(r.n)
           /\ Here /\ r.n = client.n => client.pc = "opening"
           /\ (\A n : Begun(n)' <=> Begun(n) \/ n = r.n) => Opening'
  <1>1. r.kind = "open" /\ Received(r)  BY DEF handle_listener_event
  <1>2. ClientOk(client) /\ client.n \in 0 .. MaxConns  BY DEF TypeOK, ClientOk
  <1>3. CASE r \in stale /\ ~r.live
    <2>1. r.n \in 1 .. client.n /\ r.id = SocketOf[r.n] /\ ~Begun(r.n) /\ (Here => r.n < client.n)
      BY <1>1, <1>3 DEF Opening, Abandoning
    <2>2. r.n \in Conns  BY <1>2, <2>1, ConnFacts
    <2>3. r.n # client.n \/ ~Here  BY <1>2, <2>1
    <2>4. ASSUME \A n : Begun(n)' <=> Begun(n) \/ n = r.n PROVE Opening'
      <3>1. call' = call  BY <1>3 DEF handle_listener_event, Respond
      <3>2. UNCHANGED client /\ session'.n = r.n
        <4>1. Session(r.n, r.id).n = r.n  BY DEF Session
        <4>. QED  BY <2>1, <2>2, <4>1, OpenStep DEF After
      <3>3. Opened'
        <4>1. \A n \in Conns : Begun(n)' => n <= client'.n
          BY <1>2, <2>1, <2>4, <3>2, ConnFacts DEF Opening, Opened
        <4>2. Begun(session.n)'
          <5>1. PICK n : n = r.n  OBVIOUS
          <5>2. Begun(n)' /\ n = session'.n  BY <2>4, <3>2, <5>1
          <5>. QED  BY <5>2
        <4>. QED  BY <4>1, <4>2 DEF Opened, Begun
      <3>4. stale' = stale \ {r}  BY <1>1 DEF Received
      <3>5. ASSUME NEW q \in stale'
            PROVE  /\ ~q.live
                   /\ q.kind = "open" =>
                         /\ q.n \in 1 .. client'.n /\ q.id = SocketOf[q.n] /\ ~Begun(q.n)'
                         /\ Here' => q.n < client'.n
        <4>1. q \in stale /\ q # r  BY <3>4
        <4>2. /\ ~q.live
              /\ q.kind = "open" =>
                    /\ q.n \in 1 .. client.n /\ q.id = SocketOf[q.n] /\ ~Begun(q.n)
                    /\ Here => q.n < client.n
          BY <4>1 DEF Opening, Abandoning
        <4>3. q.kind = "open" => q.n # r.n  BY <1>1, <1>3, <4>1 DEF Opening, Abandoning
        <4>4. q.kind = "open" => ~Begun(q.n)'  BY <2>4, <4>2, <4>3
        <4>. QED  BY <3>2, <4>2, <4>4 DEF Here
      <3>6. \A q, p \in stale' : q.kind = "open" /\ p.kind = "open" /\ q.n = p.n => q = p
        BY <3>4 DEF Opening, Abandoning
      <3>7. Abandoning'  BY <3>5, <3>6 DEF Abandoning
      <3>8. Asking'
        <4>1. client.pc = "opening" => Here  BY DEF Here
        <4>2. client.pc = "opening" => (Begun(client.n)' <=> Begun(client.n))
          <5>1. PICK n : n = client.n  OBVIOUS
          <5>2. client.pc = "opening" => n # r.n  BY <2>3, <4>1, <5>1
          <5>3. client.pc = "opening" => (Begun(n)' <=> Begun(n))  BY <2>4, <5>2
          <5>4. n = client'.n  BY <3>2, <5>1
          <5>. QED  BY <5>1, <5>3, <5>4
        <4>3. /\ Calling =>
                    call = [kind |-> call.kind, n |-> call.n, id |-> call.id, seq |-> call.seq, live |-> TRUE]
              /\ call.kind = "open" =>
                    client.pc = "opening" /\ call.n = client.n /\ call.id = client.id /\ ~Begun(client.n)'
              /\ call.kind = "read" => client.pc = "reading"
              /\ call.kind = "close" => client.pc = "closing"
              /\ client.pc = "opening" /\ call.kind = "reply" /\ call.reply.kind = "busy" => ~Begun(client.n)'
          BY <4>2 DEF Opening, Asking
        <4>. QED  BY <3>1, <3>2, <4>3 DEF Asking, Calling, Begun
      <3>. QED  BY <3>3, <3>7, <3>8 DEF Opening
    <2>. QED  BY <2>1, <2>2, <2>3, <2>4
  <1>4. CASE r = call /\ r.live /\ Calling
    <2>1. client.pc = "opening" /\ r.n = client.n /\ r.id = client.id /\ ~Begun(client.n)
      BY <1>1, <1>4 DEF Opening, Asking
    <2>2. r.n \in Conns /\ r.id = SocketOf[r.n]  BY <1>2, <2>1 DEF ClientOk
    <2>3. Here  BY <2>1 DEF Here
    <2>4. ASSUME \A n : Begun(n)' <=> Begun(n) \/ n = r.n PROVE Opening'
      <3>1. call' = [kind |-> "reply", reply |-> [kind |-> "opened"]]
        BY <1>4 DEF handle_listener_event, Respond
      <3>2. UNCHANGED client /\ session'.n = r.n
        <4>1. Session(r.n, r.id).n = r.n  BY DEF Session
        <4>. QED  BY <2>1, <2>2, <4>1, OpenStep DEF After
      <3>3. Opened'
        <4>1. \A n \in Conns : Begun(n)' => n <= client'.n
          BY <1>2, <2>1, <2>4, <3>2, ConnFacts DEF Opening, Opened
        <4>2. Begun(session.n)'
          <5>1. PICK n : n = r.n  OBVIOUS
          <5>2. Begun(n)' /\ n = session'.n  BY <2>4, <3>2, <5>1
          <5>. QED  BY <5>2
        <4>. QED  BY <4>1, <4>2 DEF Opened, Begun
      <3>4. stale' \in SUBSET stale  BY <1>1 DEF Received
      <3>5. ASSUME NEW q \in stale'
            PROVE  /\ ~q.live
                   /\ q.kind = "open" =>
                         /\ q.n \in 1 .. client'.n /\ q.id = SocketOf[q.n] /\ ~Begun(q.n)'
                         /\ Here' => q.n < client'.n
        <4>1. q \in stale  BY <3>4
        <4>2. /\ ~q.live
              /\ q.kind = "open" =>
                    /\ q.n \in 1 .. client.n /\ q.id = SocketOf[q.n] /\ ~Begun(q.n)
                    /\ q.n < client.n
          BY <2>3, <4>1 DEF Opening, Abandoning
        <4>3. q.kind = "open" => q.n # r.n  BY <1>2, <2>1, <4>2
        <4>4. q.kind = "open" => ~Begun(q.n)'  BY <2>4, <4>2, <4>3
        <4>. QED  BY <3>2, <4>2, <4>4 DEF Here
      <3>6. \A q, p \in stale' : q.kind = "open" /\ p.kind = "open" /\ q.n = p.n => q = p
        BY <3>4 DEF Opening, Abandoning
      <3>7. Abandoning'  BY <3>5, <3>6 DEF Abandoning
      <3>8. Asking'
        <4>1. call'.kind = "reply" /\ call'.reply.kind = "opened"  BY <3>1
        <4>. QED  BY <4>1, AskingOver
      <3>. QED  BY <3>3, <3>7, <3>8 DEF Opening
    <2>. QED  BY <2>1, <2>2, <2>4
  <1>. QED  BY <1>3, <1>4, RequestFacts

-----------------------------------------------------------------------------
(* Pulling is preserved *)

\* No two clients of a run have the same socket.
DistinctSockets == \A n, m \in Conns : SocketOf[n] = SocketOf[m] => n = m

\* The session is told by its socket.
LEMMA OneSession ==
    ASSUME DistinctSockets, TypeOK, session.n # 0, NEW k \in Conns, session.id = SocketOf[k]
    PROVE  session.n = k
  BY SessionFacts DEF TypeOK, DistinctSockets

\* The parts of Pulling after a step.
PullingTo(box, ps, ms, pull, n, here, id, good) ==
    /\ n = 0 => pull = 0
    /\ \A p \in ps : Asks(p)' /\ (Ours(p)' => p.tid = pull)
    /\ \A i \in 1 .. Len(box) : here /\ box[i].id = id
    /\ \A i \in 1 .. Len(box) : box[i] \in good
    /\ \A p \in good : Asks(p)'
    /\ \A i \in 1 .. Len(box) : box[i].tid = pull => i = Len(box) /\ \A p \in ps : p.tid # pull
    /\ \A m \in ms : m.tid = pull =>
          /\ \A p \in ps : ~Ours(p)'
          /\ \E no : (\A i \in 1 .. Len(box) : box[i] \in no) /\ \A p \in no : ~Ours(p)'
    /\ \A m, l \in ms : m.tid = pull /\ l.tid = pull => m = l

\* Pulling, stated of the values after a step.
LEMMA PullingNext ==
    ASSUME NEW box, NEW ps, NEW ms, NEW pull, NEW n, NEW here, NEW id, NEW good,
           PullingTo(box, ps, ms, pull, n, here, id, good),
           box = inbox', ps = pulls', ms = replies', pull = session'.pull, n = session'.n, here = Here', id = client'.id
    PROVE  Pulling'
  <1>0. /\ n = 0 => pull = 0
        /\ \A p \in ps : Asks(p)' /\ (Ours(p)' => p.tid = pull)
        /\ \A i \in 1 .. Len(box) : here /\ box[i].id = id
        /\ \A i \in 1 .. Len(box) : box[i] \in good
        /\ \A p \in good : Asks(p)'
        /\ \A i \in 1 .. Len(box) : box[i].tid = pull => i = Len(box) /\ \A p \in ps : p.tid # pull
        /\ \A m \in ms : m.tid = pull =>
              /\ \A p \in ps : ~Ours(p)'
              /\ \E no : (\A i \in 1 .. Len(box) : box[i] \in no) /\ \A p \in no : ~Ours(p)'
        /\ \A m, l \in ms : m.tid = pull /\ l.tid = pull => m = l
    BY DEF PullingTo
  <1>1. \A i \in 1 .. Len(inbox') : Here' /\ inbox'[i].id = client'.id  BY <1>0
  <1>2. \A i \in 1 .. Len(inbox') : Asks(inbox[i])'
    <2>. SUFFICES ASSUME NEW i \in 1 .. Len(inbox') PROVE Asks(inbox[i])'
      OBVIOUS
    <2>1. PICK p : p = box[i]  OBVIOUS
    <2>2. Asks(p)' /\ p = inbox'[i]  BY <1>0, <2>1
    <2>. QED  BY <2>2 DEF Asks, Ours
  <1>3. \A m \in replies' : m.tid = session'.pull => \A i \in 1 .. Len(inbox') : ~Ours(inbox[i])'
    <2>. SUFFICES ASSUME NEW m \in ms, m.tid = pull, NEW i \in 1 .. Len(box) PROVE ~Ours(inbox[i])'
      OBVIOUS
    <2>1. PICK no : (\A j \in 1 .. Len(box) : box[j] \in no) /\ \A p \in no : ~Ours(p)'  BY <1>0
    <2>2. PICK p : p = box[i]  OBVIOUS
    <2>3. ~Ours(p)' /\ p = inbox'[i]  BY <2>1, <2>2
    <2>. QED  BY <2>3 DEF Ours
  <1>4. \A p \in pulls' : Asks(p)' /\ (Ours(p)' => p.tid = session'.pull)  BY <1>0
  <1>5. \A i \in 1 .. Len(inbox') : inbox'[i].tid = session'.pull =>
           i = Len(inbox') /\ \A p \in pulls' : p.tid # session'.pull
    BY <1>0
  <1>6. \A m \in replies' : m.tid = session'.pull => \A p \in pulls' : ~Ours(p)'  BY <1>0
  <1>7. \A m, l \in replies' : m.tid = session'.pull /\ l.tid = session'.pull => m = l  BY <1>0
  <1>8. session'.n = 0 => session'.pull = 0  BY <1>0
  <1>. QED  BY <1>1, <1>2, <1>3, <1>4, <1>5, <1>6, <1>7, <1>8 DEF Pulling

\* A pull asks what it asked, as long as the session is the same.
LEMMA AsksKept ==
    ASSUME SameSession, MoreBegun
    PROVE  \A p : (Ours(p)' <=> Ours(p)) /\ (Asks(p) => Asks(p)')
  BY DEF SameSession, MoreBegun, Asks, Ours

\* The session is as it was, and nothing new is on its way.
LEMMA KeptPulling ==
    ASSUME TypeOK, TypeOK', Pulling, SameSession, MoreBegun, replies' \in SUBSET replies, pulls' \in SUBSET pulls,
           inbox' = <<>> \/ (inbox' = inbox /\ (Here => Here') /\ client'.id = client.id)
    PROVE  Pulling'
  <1>. DEFINE good == {inbox[i] : i \in 1 .. Len(inbox)}
              no   == {p \in good : ~Ours(p)}
  <1>1. PICK box, ps, ms, pull, n, here, id :
           /\ box = inbox' /\ ps = pulls' /\ ms = replies' /\ pull = session'.pull /\ n = session'.n
           /\ here = Here' /\ id = client'.id
    OBVIOUS
  <1>2. pull = session.pull /\ n = session.n  BY <1>1 DEF SameSession
  <1>3. n = 0 => pull = 0  BY <1>2 DEF Pulling
  <1>4. \A p \in ps : Asks(p)' /\ (Ours(p)' => p.tid = pull)
    BY <1>1, <1>2, AsksKept DEF Pulling
  <1>5. CASE inbox' = <<>>
    <2>1. Len(box) = 0  BY <1>1, <1>5
    <2>2. \A i \in 1 .. Len(box) : FALSE  BY <2>1
    <2>3. \A m \in ms : m.tid = pull => \A p \in ps : ~Ours(p)'
      BY <1>1, <1>2, AsksKept DEF Pulling
    <2>4. \A m, l \in ms : m.tid = pull /\ l.tid = pull => m = l
      BY <1>1, <1>2 DEF Pulling
    <2>5. \A m \in ms : m.tid = pull =>
             \E no2 : (\A i \in 1 .. Len(box) : box[i] \in no2) /\ \A p \in no2 : ~Ours(p)'
      <3>1. (\A i \in 1 .. Len(box) : box[i] \in {}) /\ \A p \in {} : ~Ours(p)'  BY <2>2
      <3>. QED  BY <3>1
    <2>6. PICK none : none = {}  OBVIOUS
    <2>7. (\A i \in 1 .. Len(box) : box[i] \in none) /\ \A p \in none : Asks(p)'  BY <2>2, <2>6
    <2>8. \A i \in 1 .. Len(box) : here /\ box[i].id = id  BY <2>2
    <2>9. \A i \in 1 .. Len(box) : box[i].tid = pull => i = Len(box) /\ \A p \in ps : p.tid # pull  BY <2>2
    <2>10. \A m \in ms : m.tid = pull =>
              /\ \A p \in ps : ~Ours(p)'
              /\ \E no2 : (\A i \in 1 .. Len(box) : box[i] \in no2) /\ \A p \in no2 : ~Ours(p)'
      BY <2>3, <2>5
    <2>. HIDE DEF good, no
    <2>11. PullingTo(box, ps, ms, pull, n, here, id, none)
      BY <1>1, <1>3, <1>4, <2>4, <2>7, <2>8, <2>9, <2>10 DEF PullingTo
    <2>. QED  BY <1>1, <2>11, PullingNext
  <1>6. CASE inbox' = inbox /\ (Here => Here') /\ client'.id = client.id
    <2>1. box = inbox  BY <1>1, <1>6
    <2>2. \A i \in 1 .. Len(box) : here /\ box[i].id = id  BY <1>1, <1>6, <2>1 DEF Pulling
    <2>3. \A i \in 1 .. Len(box) : box[i] \in good  BY <2>1
    <2>4. \A p \in good : Asks(p)
      BY DEF Pulling
    <2>. HIDE DEF good
    <2>5. \A p \in good : Asks(p)'  BY <2>4, AsksKept
    <2>6. \A i \in 1 .. Len(box) : box[i].tid = pull => i = Len(box) /\ \A p \in ps : p.tid # pull
      BY <1>1, <1>2, <2>1 DEF Pulling
    <2>7. \A m, l \in ms : m.tid = pull /\ l.tid = pull => m = l
      BY <1>1, <1>2 DEF Pulling
    <2>8. ASSUME NEW m \in ms, m.tid = pull
          PROVE  /\ \A p \in ps : ~Ours(p)'
                 /\ \E no2 : (\A i \in 1 .. Len(box) : box[i] \in no2) /\ \A p \in no2 : ~Ours(p)'
      <3>1. m \in replies /\ m.tid = session.pull  BY <1>1, <1>2, <2>8
      <3>2. (\A p \in pulls : ~Ours(p)) /\ \A i \in 1 .. Len(inbox) : ~Ours(inbox[i])
        BY <3>1 DEF Pulling
      <3>3. \A p \in ps : ~Ours(p)'  BY <1>1, <3>2, AsksKept
      <3>4. (\A i \in 1 .. Len(box) : box[i] \in no)  BY <2>1, <2>3, <3>2
      <3>5. \A p \in no : ~Ours(p)  OBVIOUS
      <3>. HIDE DEF no
      <3>6. \A p \in no : ~Ours(p)'  BY <3>5, AsksKept
      <3>. QED  BY <3>3, <3>4, <3>6
    <2>9. \A m \in ms : m.tid = pull =>
             /\ \A p \in ps : ~Ours(p)'
             /\ \E no2 : (\A i \in 1 .. Len(box) : box[i] \in no2) /\ \A p \in no2 : ~Ours(p)'
      BY <2>8
    <2>. HIDE DEF no
    <2>10. PullingTo(box, ps, ms, pull, n, here, id, good)
      BY <1>1, <1>3, <1>4, <2>2, <2>3, <2>5, <2>6, <2>7, <2>9 DEF PullingTo
    <2>. QED  BY <1>1, <2>10, PullingNext
  <1>. QED  BY <1>5, <1>6

\* A pull of the session is one: it bears the number that its session asks with.
LEMMA OneOurs ==
    ASSUME TypeOK, Pulling, NEW p \in pulls, NEW q \in pulls, Ours(p), Ours(q)
    PROVE  p = q
  <1>1. p \in PullType /\ q \in PullType  BY DEF TypeOK
  <1>2. p = [tid |-> p.tid, id |-> p.id, seq |-> p.seq] /\ q = [tid |-> q.tid, id |-> q.id, seq |-> q.seq]
    BY <1>1 DEF PullType
  <1>3. p.tid = session.pull /\ q.tid = session.pull /\ p.seq = session.seq /\ q.seq = session.seq
    BY DEF Pulling, Asks
  <1>4. p.id = q.id  BY DEF Ours
  <1>. QED  BY <1>2, <1>3, <1>4

\* Pulling survives the arrival of a pull.
LEMMA ArrivesPulling ==
    ASSUME TypeOK, Pulling, NEW p, PullArrives(p)
    PROVE  Pulling'
  <1>. DEFINE good == {inbox[i] : i \in 1 .. Len(inbox)} \cup {p}
              no   == {q \in good : ~Ours(q)}
  <1>1. /\ Still /\ UNCHANGED client
        /\ p \in pulls /\ Here /\ client.id = p.id /\ p \in PullType /\ pulls' = pulls \ {p}
        /\ Len(inbox) \in Nat /\ Len(inbox') = Len(inbox) + 1 /\ inbox'[Len(inbox) + 1] = p
        /\ \A i \in 1 .. Len(inbox) : inbox'[i] = inbox[i]
    BY PullArrivesStep
  <1>2. MoreBegun /\ SameSession  BY <1>1, KeptBegun, SameMore DEF Still
  <1>3. PICK box, ps, ms, pull, n, here, id :
           /\ box = inbox' /\ ps = pulls' /\ ms = replies' /\ pull = session'.pull /\ n = session'.n
           /\ here = Here' /\ id = client'.id
    OBVIOUS
  <1>4. /\ pull = session.pull /\ n = session.n /\ ms = replies /\ here /\ id = client.id
        /\ ps = pulls \ {p}
    BY <1>1, <1>2, <1>3 DEF SameSession, Still, Here
  <1>5. PICK L \in Nat : L = Len(inbox)  BY <1>1
  <1>6. Len(box) = L + 1 /\ box[L + 1] = p /\ \A i \in 1 .. L : box[i] = inbox[i]
    BY <1>1, <1>3, <1>5
  <1>7. \A i \in 1 .. Len(box) : i \in 1 .. L \/ i = L + 1  BY <1>6
  <1>8. n = 0 => pull = 0  BY <1>4 DEF Pulling
  <1>9. \A q \in ps : Asks(q)' /\ (Ours(q)' => q.tid = pull)
    BY <1>2, <1>4, AsksKept DEF Pulling
  <1>10. \A i \in 1 .. Len(box) : here /\ box[i].id = id
    BY <1>1, <1>4, <1>5, <1>6, <1>7 DEF Pulling
  <1>11. \A i \in 1 .. Len(box) : box[i] \in good  BY <1>5, <1>6, <1>7
  <1>12. \A q \in good : Asks(q)  BY <1>1 DEF Pulling
  <1>13. \A m, l \in ms : m.tid = pull /\ l.tid = pull => m = l  BY <1>4 DEF Pulling
  <1>14. Ours(p) => \A q \in ps : ~Ours(q)  BY <1>1, <1>4, OneOurs
  <1>15. \A q \in pulls : q.tid = pull => Ours(q)  BY <1>4 DEF Pulling, Asks
  <1>16. Ours(p) => p.tid = pull  BY <1>1, <1>4 DEF Pulling
  <1>17. ASSUME NEW i \in 1 .. Len(box), box[i].tid = pull
         PROVE  i = Len(box) /\ \A q \in ps : q.tid # pull
    <2>1. CASE i = L + 1
      <3>1. Ours(p)  BY <1>1, <1>6, <1>15, <1>17, <2>1
      <3>. QED  BY <1>4, <1>6, <1>14, <1>15, <2>1, <3>1
    <2>2. CASE i \in 1 .. L
      <3>1. inbox[i].tid = session.pull  BY <1>4, <1>6, <1>17, <2>2
      <3>2. (\A q \in pulls : q.tid # session.pull) /\ Asks(inbox[i]) /\ inbox[i].id = client.id
        BY <1>5, <2>2, <3>1 DEF Pulling
      <3>3. Ours(inbox[i])  BY <3>1, <3>2 DEF Asks
      <3>4. Ours(p)  BY <1>1, <3>2, <3>3 DEF Ours
      <3>. QED  BY <1>1, <1>4, <1>16, <3>2, <3>4
    <2>. QED  BY <1>7, <2>1, <2>2
  <1>18. ASSUME NEW m \in ms, m.tid = pull
         PROVE  /\ \A q \in ps : ~Ours(q)'
                /\ \E no2 : (\A i \in 1 .. Len(box) : box[i] \in no2) /\ \A q \in no2 : ~Ours(q)'
    <2>1. m \in replies /\ m.tid = session.pull  BY <1>4, <1>18
    <2>2. (\A q \in pulls : ~Ours(q)) /\ \A i \in 1 .. Len(inbox) : ~Ours(inbox[i])
      BY <2>1 DEF Pulling
    <2>3. \A q \in ps : ~Ours(q)'  BY <1>2, <1>4, <2>2, AsksKept
    <2>4. \A i \in 1 .. Len(box) : box[i] \in no
      BY <1>1, <1>5, <1>6, <1>7, <1>11, <2>2
    <2>5. \A q \in no : ~Ours(q)  OBVIOUS
    <2>. HIDE DEF no
    <2>6. \A q \in no : ~Ours(q)'  BY <1>2, <2>5, AsksKept
    <2>. QED  BY <2>3, <2>4, <2>6
  <1>. HIDE DEF good, no
  <1>19. \A q \in good : Asks(q)'  BY <1>2, <1>12, AsksKept
  <1>20. \A i \in 1 .. Len(box) : box[i].tid = pull => i = Len(box) /\ \A q \in ps : q.tid # pull
    BY <1>17
  <1>21. \A m \in ms : m.tid = pull =>
            /\ \A q \in ps : ~Ours(q)'
            /\ \E no2 : (\A i \in 1 .. Len(box) : box[i] \in no2) /\ \A q \in no2 : ~Ours(q)'
    BY <1>18
  <1>22. PullingTo(box, ps, ms, pull, n, here, id, good)
    BY <1>3, <1>8, <1>9, <1>10, <1>11, <1>13, <1>19, <1>20, <1>21 DEF PullingTo
  <1>. QED  BY <1>3, <1>22, PullingNext

\* And its answer.
LEMMA HandlePulling ==
    ASSUME TypeOK, Pulling, Jobs, HandlePull
    PROVE  Pulling'
  <1>. DEFINE good == {inbox[i] : i \in 1 .. Len(inbox)}
              no   == {q \in good : ~Ours(q)}
  <1>1. PICK p \in PullType, reply \in ReplyType :
           /\ Len(inbox) > 0 /\ p = inbox[1] /\ client.pc \in {"printing", "drain"}
           /\ Len(inbox') = Len(inbox) - 1 /\ \A i \in 1 .. Len(inbox') : inbox'[i] = inbox[i + 1]
           /\ \/ session.pull # p.tid /\ replies' = replies
              \/ session.pull = p.tid /\ replies' = replies \cup {[tid |-> p.tid, reply |-> reply]}
           /\ Repeats(p, reply) \/ Replies(p, reply)
           /\ TypeOK' /\ SameSession
           /\ UNCHANGED <<pulls, credit, port, jobStart, taken, log>>
    BY HandleStep
  <1>2. MoreBegun /\ SameSession  BY <1>1, KeptBegun, SameMore
  <1>3. client'.id = client.id /\ Here'
    <2>1. CASE Repeats(p, reply)  BY <1>1, <2>1 DEF Repeats, Here
    <2>2. CASE Replies(p, reply)  BY <1>1, <2>2 DEF Replies, Here
    <2>. QED  BY <1>1, <2>1, <2>2
  <1>4. PICK box, ps, ms, pull, n, here, id :
           /\ box = inbox' /\ ps = pulls' /\ ms = replies' /\ pull = session'.pull /\ n = session'.n
           /\ here = Here' /\ id = client'.id
    OBVIOUS
  <1>5. pull = session.pull /\ n = session.n /\ here /\ id = client.id /\ ps = pulls
    BY <1>1, <1>3, <1>4 DEF SameSession
  <1>6. PICK L \in Nat : L = Len(inbox)
    <2>1. Len(inbox) \in Nat  BY DEF TypeOK
    <2>. QED  BY <2>1
  <1>7. L > 0 /\ Len(box) = L - 1 /\ \A i \in 1 .. Len(box) : box[i] = inbox[i + 1]
    BY <1>1, <1>4, <1>6
  <1>8. \A i \in 1 .. Len(box) : i + 1 \in 1 .. L /\ (i + 1 = L => i = Len(box)) /\ i + 1 # 1  BY <1>7
  <1>9. 1 \in 1 .. L  BY <1>7
  <1>10. n = 0 => pull = 0  BY <1>5 DEF Pulling
  <1>11. \A q \in ps : Asks(q)' /\ (Ours(q)' => q.tid = pull)
    BY <1>2, <1>5, AsksKept DEF Pulling
  <1>12. \A i \in 1 .. Len(box) : here /\ box[i].id = id
    BY <1>5, <1>6, <1>7, <1>8 DEF Pulling
  <1>13. \A i \in 1 .. Len(box) : box[i] \in good  BY <1>6, <1>7, <1>8
  <1>14. \A q \in good : Asks(q)  BY DEF Pulling
  <1>15. \A i \in 1 .. Len(box) : box[i].tid = pull => i = Len(box) /\ \A q \in ps : q.tid # pull
    <2>. SUFFICES ASSUME NEW i \in 1 .. Len(box), box[i].tid = pull
                  PROVE  i = Len(box) /\ \A q \in ps : q.tid # pull
      OBVIOUS
    <2>1. PICK j \in 1 .. L : j = i + 1  BY <1>8
    <2>2. inbox[j].tid = session.pull  BY <1>5, <1>7, <2>1
    <2>3. j = Len(inbox) /\ \A q \in pulls : q.tid # session.pull  BY <1>6, <2>2 DEF Pulling
    <2>. QED  BY <1>5, <1>6, <1>8, <2>1, <2>3
  <1>. HIDE DEF good
  <1>16. \A q \in good : Asks(q)'  BY <1>2, <1>14, AsksKept
  <1>17. CASE session.pull # p.tid /\ replies' = replies
    <2>1. ms = replies  BY <1>4, <1>17
    <2>2. \A m, l \in ms : m.tid = pull /\ l.tid = pull => m = l  BY <1>5, <2>1 DEF Pulling
    <2>3. ASSUME NEW m \in ms, m.tid = pull
          PROVE  /\ \A q \in ps : ~Ours(q)'
                 /\ \E no2 : (\A i \in 1 .. Len(box) : box[i] \in no2) /\ \A q \in no2 : ~Ours(q)'
      <3>1. m \in replies /\ m.tid = session.pull  BY <1>5, <2>1, <2>3
      <3>2. (\A q \in pulls : ~Ours(q)) /\ \A i \in 1 .. Len(inbox) : ~Ours(inbox[i])
        BY <3>1 DEF Pulling
      <3>3. \A q \in ps : ~Ours(q)'  BY <1>2, <1>5, <3>2, AsksKept
      <3>4. \A i \in 1 .. Len(box) : box[i] \in no
        BY <1>6, <1>7, <1>8, <1>13, <3>2
      <3>5. \A q \in no : ~Ours(q)  OBVIOUS
      <3>. HIDE DEF no
      <3>6. \A q \in no : ~Ours(q)'  BY <1>2, <3>5, AsksKept
      <3>. QED  BY <3>3, <3>4, <3>6
    <2>4. \A m \in ms : m.tid = pull =>
             /\ \A q \in ps : ~Ours(q)'
             /\ \E no2 : (\A i \in 1 .. Len(box) : box[i] \in no2) /\ \A q \in no2 : ~Ours(q)'
      BY <2>3
    <2>. HIDE DEF no
    <2>5. PullingTo(box, ps, ms, pull, n, here, id, good)
      BY <1>4, <1>10, <1>11, <1>12, <1>13, <1>15, <1>16, <2>2, <2>4 DEF PullingTo
    <2>. QED  BY <1>4, <2>5, PullingNext
  <1>18. CASE session.pull = p.tid /\ replies' = replies \cup {[tid |-> p.tid, reply |-> reply]}
    <2>1. PICK x : x = [tid |-> p.tid, reply |-> reply]  OBVIOUS
    <2>2. ms = replies \cup {x}  BY <1>4, <1>18, <2>1
    <2>3. 1 = L /\ (\A q \in pulls : q.tid # session.pull) /\ Asks(inbox[1])
      BY <1>1, <1>6, <1>9, <1>18 DEF Pulling
    <2>4. Ours(inbox[1])  BY <1>1, <1>18, <2>3 DEF Asks
    <2>5. \A m \in replies : m.tid # pull  BY <1>5, <1>6, <1>9, <2>4 DEF Pulling
    <2>6. \A m, l \in ms : m.tid = pull /\ l.tid = pull => m = l  BY <2>2, <2>5
    <2>7. \A q \in pulls : ~Ours(q)  BY <2>3 DEF Pulling
    <2>8. \A q \in ps : ~Ours(q)'  BY <1>2, <1>5, <2>7, AsksKept
    <2>9. \A i \in 1 .. Len(box) : FALSE  BY <1>7, <2>3
    <2>10. PICK none : none = {}  OBVIOUS
    <2>11. (\A i \in 1 .. Len(box) : box[i] \in none) /\ \A q \in none : ~Ours(q)'  BY <2>9, <2>10
    <2>12. \A m \in ms : m.tid = pull =>
             /\ \A q \in ps : ~Ours(q)'
             /\ \E no2 : (\A i \in 1 .. Len(box) : box[i] \in no2) /\ \A q \in no2 : ~Ours(q)'
      BY <2>8, <2>11
    <2>. HIDE DEF no
    <2>13. PullingTo(box, ps, ms, pull, n, here, id, good)
      BY <1>4, <1>10, <1>11, <1>12, <1>13, <1>15, <1>16, <2>6, <2>12 DEF PullingTo
    <2>. QED  BY <1>4, <2>13, PullingNext
  <1>. QED  BY <1>1, <1>17, <1>18

\* The session s has no pull out, or a new one.
LEMMA AfterPulling ==
    ASSUME TypeOK, Pulling, MoreBegun, NEW s, s.pull = 0,
           s.n # 0 => s.n \in Conns /\ s.id = SocketOf[s.n] /\ Begun(s.n)',
           NEW others \in SUBSET pulls, NEW ok, After(s, others, ok),
           \A p \in others : s.n # 0 => p.id # s.id,
           \A i \in 1 .. Len(inbox) : s.n # 0 /\ inbox[i].id = s.id => inbox[i].seq = s.seq,
           UNCHANGED <<client, inbox>>, replies' \in SUBSET replies
    PROVE  Pulling'
  <1>. DEFINE good == {inbox[i] : i \in 1 .. Len(inbox)}
  <1>1. PICK box, ps, ms, pull, n, here, id :
           /\ box = inbox' /\ ps = pulls' /\ ms = replies' /\ pull = session'.pull /\ n = session'.n
           /\ here = Here' /\ id = client'.id
    OBVIOUS
  <1>2. PICK new : new = [tid |-> FreeTid, id |-> s.id, seq |-> s.seq]  OBVIOUS
  <1>3. /\ session'.n = s.n /\ session'.id = s.id /\ session'.seq = s.seq
        /\ \/ pull = 0 /\ ps = others
           \/ s.n # 0 /\ pull = FreeTid /\ ps = others \cup {new}
    BY <1>1, <1>2 DEF After
  <1>4. /\ FreeTid # 0 /\ new.tid = FreeTid /\ new.id = s.id /\ new.seq = s.seq
        /\ \A p \in pulls \cup replies : p.tid # FreeTid /\ p.tid # 0
        /\ \A i \in 1 .. Len(inbox) : inbox[i].tid # FreeTid /\ inbox[i].tid # 0
    <2>1. \A p \in pulls \cup replies : p.tid # 0  BY DEF TypeOK, PullType, AnswerType
    <2>2. \A i \in 1 .. Len(inbox) : inbox[i].tid # 0
      <3>. SUFFICES ASSUME NEW i \in 1 .. Len(inbox) PROVE inbox[i].tid # 0
        OBVIOUS
      <3>1. inbox[i] \in PullType
        <4>1. inbox \in Seq(PullType)  BY DEF TypeOK
        <4>. HIDE DEF PullType
        <4>. QED  BY <4>1
      <3>. QED  BY <3>1 DEF PullType
    <2>. QED  BY <1>2, <2>1, <2>2, FreeTidFresh
  <1>5. /\ \A p \in others : p.tid # pull
        /\ \A m \in ms : m.tid # pull
        /\ \A i \in 1 .. Len(inbox) : inbox[i].tid # pull
    BY <1>1, <1>3, <1>4
  <1>6. box = inbox /\ here = Here /\ id = client.id  BY <1>1 DEF Here
  <1>7. n = 0 => pull = 0  BY <1>1, <1>3
  <1>8. \A p : Ours(p)' <=> s.n # 0 /\ p.id = s.id  BY <1>3 DEF Ours
  <1>9. ASSUME NEW p, Asks(p), p.tid # pull, Ours(p)' => p.seq = s.seq PROVE Asks(p)'
    <2>1. PICK k \in Conns : Begun(k) /\ p.id = SocketOf[k]  BY <1>9 DEF Asks
    <2>2. Begun(k)'  BY <2>1 DEF MoreBegun
    <2>3. p.seq = session'.seq \/ ~Ours(p)'  BY <1>3, <1>9
    <2>. QED  BY <1>1, <1>9, <2>1, <2>2, <2>3 DEF Asks
  <1>10. ASSUME NEW p \in ps PROVE Asks(p)' /\ (Ours(p)' => p.tid = pull)
    <2>1. CASE p \in others
      <3>1. Asks(p)  BY <2>1 DEF Pulling
      <3>2. ~Ours(p)'  BY <1>8, <2>1
      <3>. QED  BY <1>5, <1>9, <2>1, <3>1, <3>2
    <2>2. CASE p \notin others
      <3>1. p = new /\ s.n # 0 /\ pull = FreeTid  BY <1>3, <2>2
      <3>2. p.id = SocketOf[s.n] /\ s.n \in Conns /\ Begun(s.n)'  BY <1>4, <3>1
      <3>3. p.seq = session'.seq /\ Ours(p)' /\ p.tid = pull  BY <1>3, <1>4, <1>8, <3>1
      <3>. QED  BY <3>2, <3>3 DEF Asks
    <2>. QED  BY <2>1, <2>2
  <1>11. \A i \in 1 .. Len(box) : here /\ box[i].id = id  BY <1>6 DEF Pulling
  <1>12. \A i \in 1 .. Len(box) : box[i] \in good  BY <1>6
  <1>13. ASSUME NEW p \in good PROVE Asks(p)'
    <2>1. PICK i \in 1 .. Len(inbox) : p = inbox[i]  OBVIOUS
    <2>2. Asks(p)  BY <2>1 DEF Pulling
    <2>3. Ours(p)' => p.seq = s.seq  BY <1>8, <2>1
    <2>. QED  BY <1>5, <1>9, <2>1, <2>2, <2>3
  <1>14. \A i \in 1 .. Len(box) : box[i].tid # pull  BY <1>5, <1>6
  <1>. HIDE DEF good
  <1>15. /\ \A p \in ps : Asks(p)' /\ (Ours(p)' => p.tid = pull)
         /\ \A p \in good : Asks(p)'
    BY <1>10, <1>13
  <1>16. \A i \in 1 .. Len(box) : box[i].tid = pull => i = Len(box) /\ \A p \in ps : p.tid # pull
    BY <1>14
  <1>17. \A m \in ms : m.tid = pull =>
            /\ \A p \in ps : ~Ours(p)'
            /\ \E no : (\A i \in 1 .. Len(box) : box[i] \in no) /\ \A p \in no : ~Ours(p)'
    BY <1>5
  <1>18. \A m, l \in ms : m.tid = pull /\ l.tid = pull => m = l  BY <1>5
  <1>19. PullingTo(box, ps, ms, pull, n, here, id, good)
    BY <1>1, <1>7, <1>11, <1>12, <1>15, <1>16, <1>17, <1>18 DEF PullingTo
  <1>. QED  BY <1>1, <1>19, PullingNext

\* And a new session, to whose socket no pull was sent.
LEMMA OpenPulling ==
    ASSUME DistinctSockets, TypeOK, Opening, Pulling, Port, MoreBegun,
           NEW r \in Requests, handle_listener_event(r), session = NoSession, Begun(r.n)'
    PROVE  Pulling'
  <1>1. r.n \in Conns /\ r.id = SocketOf[r.n] /\ ~Begun(r.n)  BY OpenOpening
  <1>2. After(Session(r.n, r.id), pulls, credit) /\ UNCHANGED <<client, inbox, replies>>  BY <1>1, OpenStep
  <1>3. PICK s : s = Session(r.n, r.id)  OBVIOUS
  <1>4. s.n = r.n /\ s.id = SocketOf[r.n] /\ s.pull = 0  BY <1>1, <1>3, NewSession
  <1>5. ASSUME NEW p, Asks(p) PROVE p.id # s.id
    <2>1. PICK k \in Conns : Begun(k) /\ p.id = SocketOf[k]  BY <1>5 DEF Asks
    <2>. QED  BY <1>1, <1>4, <2>1 DEF DistinctSockets
  <1>6. \A p \in pulls : p.id # s.id  BY <1>5 DEF Pulling
  <1>7. \A i \in 1 .. Len(inbox) : inbox[i].id # s.id  BY <1>5 DEF Pulling
  <1>8. s.n \in Conns /\ s.id = SocketOf[s.n] /\ Begun(s.n)'
    <2>1. PICK n : n = r.n  OBVIOUS
    <2>2. s.n = n  BY <1>4, <2>1
    <2>. QED  BY <1>1, <1>4, <2>1, <2>2
  <1>9. After(s, pulls, credit)  BY <1>2, <1>3
  <1>10. replies' \in SUBSET replies  BY <1>2
  <1>. QED  BY <1>2, <1>4, <1>6, <1>7, <1>8, <1>9, <1>10, AfterPulling

\* And the end of a session.
LEMMA EndPulling ==
    ASSUME TypeOK, Opening, Pulling, Port, MoreBegun, Ends
    PROVE  Pulling'
  <1>1. After(NoSession, pulls, credit) /\ UNCHANGED <<client, inbox, replies>>  BY EndStep
  <1>2. PICK s : s = NoSession  OBVIOUS
  <1>3. s.n = 0 /\ s.pull = 0  BY <1>2, NoSessionOk
  <1>4. After(s, pulls, credit) /\ replies' \in SUBSET replies  BY <1>1, <1>2
  <1>. QED  BY <1>1, <1>3, <1>4, AfterPulling

\* The connection of the session was opened.
LEMMA BegunSession ==
    ASSUME TypeOK, Opening, MoreBegun, session.n # 0
    PROVE  session.n \in Conns /\ session.id = SocketOf[session.n] /\ \A n : n = session.n => Begun(n)'
  <1>1. session.n \in Conns /\ session.id = SocketOf[session.n]  BY SessionFacts DEF TypeOK
  <1>2. Begun(session.n)  BY DEF Opening, Opened
  <1>. QED  BY <1>1, <1>2 DEF MoreBegun

\* And the taking of a reply.
LEMMA TakenPulling ==
    ASSUME TypeOK, Opening, Pulling, Port, MoreBegun, NEW m, Taken(m), NextReply(m.reply)
    PROVE  Pulling'
  <1>1. /\ session.n \in Conns /\ m \in replies /\ replies' = replies \ {m}
        /\ After(Accept(session, m.reply), pulls, credit) /\ UNCHANGED <<client, inbox>>
    BY TakenStep
  <1>2. PICK s : s = Accept(session, m.reply)  OBVIOUS
  <1>3. session.n # 0 /\ SessionOk(session)  BY <1>1, ConnFacts DEF TypeOK
  <1>4. s.n = session.n /\ s.id = session.id /\ s.pull = 0  BY <1>2, <1>3, AcceptSession
  <1>5. m.tid = session.pull  BY DEF Taken
  <1>6. (\A p \in pulls : ~Ours(p)) /\ \A i \in 1 .. Len(inbox) : ~Ours(inbox[i])
    BY <1>1, <1>5 DEF Pulling
  <1>7. (\A p \in pulls : p.id # s.id) /\ \A i \in 1 .. Len(inbox) : inbox[i].id # s.id
    BY <1>3, <1>4, <1>6 DEF Ours
  <1>8. After(s, pulls, credit) /\ replies' \in SUBSET replies  BY <1>1, <1>2
  <1>9. s.n \in Conns /\ s.id = SocketOf[s.n] /\ Begun(s.n)'  BY <1>3, <1>4, BegunSession
  <1>. QED  BY <1>1, <1>4, <1>7, <1>8, <1>9, AfterPulling

\* And the failure of a pull, which is sent again.
LEMMA FailPulling ==
    ASSUME TypeOK, Opening, Pulling, Port, MoreBegun, PullFails
    PROVE  Pulling'
  <1>1. /\ session.n \in Conns /\ session.pull # 0
        /\ replies' = {m \in replies : m.tid # session.pull}
        /\ UNCHANGED <<client, inbox>>
    BY PullFailsStep
  <1>2. PICK s : /\ s.n = session.n /\ s.id = session.id /\ s.seq = session.seq
                 /\ s.pull = 0
                 /\ After(s, {p \in pulls : p.tid # session.pull}, credit)
    BY PullFailsStep
  <1>3. PICK others : others = {p \in pulls : p.tid # session.pull}  OBVIOUS
  <1>4. others \in SUBSET pulls /\ After(s, others, credit) /\ replies' \in SUBSET replies
    BY <1>1, <1>2, <1>3
  <1>5. session.n # 0  BY <1>1, ConnFacts
  <1>6. \A p \in others : p.id # s.id  BY <1>2, <1>3, <1>5 DEF Pulling, Ours
  <1>7. \A i \in 1 .. Len(inbox) : inbox[i].id = s.id => inbox[i].seq = s.seq
    BY <1>2, <1>5 DEF Pulling, Asks, Ours
  <1>8. s.n \in Conns /\ s.id = SocketOf[s.n] /\ Begun(s.n)'  BY <1>2, <1>5, BegunSession
  <1>. QED  BY <1>1, <1>2, <1>4, <1>6, <1>7, <1>8, AfterPulling

\* And the return of a write, which lets a pull out.
LEMMA ReturnPulling ==
    ASSUME TypeOK, Opening, Pulling, MoreBegun, WriteReturns
    PROVE  Pulling'
  <1>1. TypeOK' /\ After(session, pulls, Held(port') = 0) /\ UNCHANGED <<client, inbox, replies>>
    BY ReturnStep
  <1>2. CASE session'.pull = session.pull /\ pulls' = pulls
    <2>1. SameSession  BY <1>1, <1>2 DEF After, SameSession
    <2>2. replies' \in SUBSET replies /\ pulls' \in SUBSET pulls /\ (Here => Here')
      BY <1>1, <1>2 DEF Here
    <2>. QED  BY <1>1, <2>1, <2>2, KeptPulling
  <1>3. CASE session.pull = 0
    <2>1. \A p \in pulls : session.n # 0 => p.id # session.id
      <3>1. \A p \in pulls : p.tid # 0  BY DEF TypeOK, PullType
      <3>. QED  BY <1>3, <3>1 DEF Pulling, Ours
    <2>2. \A i \in 1 .. Len(inbox) : session.n # 0 /\ inbox[i].id = session.id => inbox[i].seq = session.seq
      BY DEF Pulling, Asks, Ours
    <2>3. PICK s : s = session  OBVIOUS
    <2>4. PICK b : b = (Held(port') = 0)  OBVIOUS
    <2>5. After(s, pulls, b)  BY <1>1, <2>3, <2>4
    <2>6. s.n # 0 => s.n \in Conns /\ s.id = SocketOf[s.n] /\ Begun(s.n)'
      BY <2>3, BegunSession
    <2>7. pulls \in SUBSET pulls /\ replies' \in SUBSET replies  BY <1>1
    <2>. QED  BY <1>1, <1>3, <2>1, <2>2, <2>3, <2>5, <2>6, <2>7, AfterPulling
  <1>. QED  BY <1>1, <1>2, <1>3 DEF After

-----------------------------------------------------------------------------
(* Counting is preserved *)

\* Counting sequence numbers back: the last CacheLen of them differ from the next.
LEMMA BackFacts ==
    ASSUME NEW q \in 1 .. MaxSeq
    PROVE  /\ Back(q, 0) = q
           /\ \A k \in 1 .. CacheLen : Back(q, k) # q
           /\ \A k \in 0 .. CacheLen : Back(next_pap_seq(q), k + 1) = Back(q, k)
  BY ConnFacts DEF Back, next_pap_seq

\* A cache that ends with the answer to one pull ends with the pull before the next.
LEMMA AnswersNext ==
    ASSUME NEW q \in 1 .. MaxSeq, NEW cache \in CacheType, Len(cache) <= CacheLen, Answers(cache, q, 0)
    PROVE  Answers(cache, next_pap_seq(q), 1)
  <1>1. Len(cache) \in Nat  BY DEF CacheType
  <1>. SUFFICES ASSUME NEW j \in 1 .. Len(cache)
                PROVE  cache[j].seq = Back(next_pap_seq(q), Len(cache) + 1 - j)
    BY DEF Answers
  <1>2. PICK k \in 0 .. CacheLen : k = Len(cache) - j
    <2>1. Len(cache) - j \in 0 .. CacheLen  BY <1>1, ConnFacts
    <2>. QED  BY <2>1
  <1>3. cache[j].seq = Back(q, Len(cache) + 0 - j)  BY DEF Answers
  <1>4. Len(cache) + 0 - j = k /\ Len(cache) + 1 - j = k + 1  BY <1>1, <1>2
  <1>5. Back(next_pap_seq(q), k + 1) = Back(q, k)  BY BackFacts
  <1>. QED  BY <1>3, <1>4, <1>5

\* A reply that is remembered is the cache's last.
LEMMA AnswersNew ==
    ASSUME NEW q \in 1 .. MaxSeq, NEW cache \in CacheType, Len(cache) <= CacheLen, Answers(cache, q, 1),
           NEW reply \in ReplyType, NEW R, R = Remember(cache, q, reply)
    PROVE  Answers(R, q, 0)
  <1>1. Len(R) \in 1 .. CacheLen /\ R[Len(R)].seq = q  BY RememberFacts
  <1>2. PICK d \in {0, 1} : /\ Len(R) = Len(cache) + 1 - d
                            /\ \A j \in 1 .. Len(R) - 1 : R[j] = cache[j + d]
    BY RememberFacts
  <1>3. Len(cache) \in Nat  BY DEF CacheType
  <1>. SUFFICES ASSUME NEW j \in 1 .. Len(R) PROVE R[j].seq = Back(q, Len(R) + 0 - j)
    BY DEF Answers
  <1>4. CASE j = Len(R)
    <2>1. Len(R) + 0 - j = 0  BY <1>1, <1>4
    <2>. QED  BY <1>1, <1>4, <2>1, BackFacts
  <1>5. CASE j # Len(R)
    <2>1. PICK i \in 1 .. Len(cache) : i = j + d
      <3>1. j + d \in 1 .. Len(cache)  BY <1>1, <1>2, <1>3, <1>5
      <3>. QED  BY <3>1
    <2>2. R[j] = cache[i]
      <3>1. j \in 1 .. Len(R) - 1  BY <1>1, <1>5
      <3>2. R[j] = cache[j + d]  BY <1>2, <3>1
      <3>. QED  BY <2>1, <3>2
    <2>3. cache[i].seq = Back(q, Len(cache) + 1 - i)  BY DEF Answers
    <2>4. Len(cache) + 1 - i = Len(R) + 0 - j  BY <1>1, <1>2, <1>3, <2>1
    <2>. QED  BY <2>2, <2>3, <2>4
  <1>. QED  BY <1>4, <1>5

\* A cache that ends with the pull before has no answer to this one.
LEMMA AnswersNone ==
    ASSUME NEW q \in 1 .. MaxSeq, NEW cache \in CacheType, Len(cache) <= CacheLen, Answers(cache, q, 1),
           NEW j \in 1 .. Len(cache)
    PROVE  cache[j].seq # q
  <1>1. Len(cache) \in Nat  BY DEF CacheType
  <1>2. PICK k \in 1 .. CacheLen : k = Len(cache) + 1 - j
    <2>1. Len(cache) + 1 - j \in 1 .. CacheLen  BY <1>1, ConnFacts
    <2>. QED  BY <2>1
  <1>3. cache[j].seq = Back(q, k)  BY <1>2 DEF Answers
  <1>. QED  BY <1>3, BackFacts

\* A cache that ends with the answer to this pull has no other to it.
LEMMA AnswersLast ==
    ASSUME NEW q \in 1 .. MaxSeq, NEW cache \in CacheType, Len(cache) <= CacheLen, Answers(cache, q, 0),
           NEW j \in 1 .. Len(cache)
    PROVE  cache[j].seq = q <=> j = Len(cache)
  <1>1. Len(cache) \in Nat  BY DEF CacheType
  <1>2. PICK k \in 0 .. CacheLen : k = Len(cache) + 0 - j
    <2>1. Len(cache) + 0 - j \in 0 .. CacheLen  BY <1>1, ConnFacts
    <2>. QED  BY <2>1
  <1>3. cache[j].seq = Back(q, k)  BY <1>2 DEF Answers
  <1>4. k = 0 <=> j = Len(cache)  BY <1>1, <1>2
  <1>5. k \in 1 .. CacheLen \/ k = 0  BY ConnFacts
  <1>. QED  BY <1>3, <1>4, <1>5, BackFacts

\* Whole jobs.
LEMMA WholeJobs ==
    ASSUME NEW j \in Nat, NEW d \in Nat \ {0}
    PROVE  /\ (j * d) % d = 0
           /\ 0 % d = 0
           /\ j > 0 => (j - 1) * d + d = j * d
           /\ \A a, b : a = j + 1 /\ b = 0 => (a - 1) * d + b = j * d
  <1>1. (j * d) % d = 0  OBVIOUS
  <1>2. 0 % d = 0  OBVIOUS
  <1>3. j > 0 => (j - 1) * d + d = j * d  OBVIOUS
  <1>4. ASSUME NEW a, NEW b, a = j + 1, b = 0 PROVE (a - 1) * d + b = j * d
    <2>1. a - 1 = j  BY <1>4
    <2>2. j * d \in Nat  OBVIOUS
    <2>. QED  BY <1>4, <2>1, <2>2
  <1>. QED  BY <1>1, <1>2, <1>3, <1>4

\* What the session and the client agree on survives a step that leaves their counts alone.
LEMMA StepKept ==
    ASSUME session'.n = session.n, session'.seq = session.seq, UNCHANGED <<handed, taken>>,
           client'.n = client.n, client'.cache = client.cache
    PROVE  /\ NotAnswered' <=> NotAnswered
           /\ \A reply : (AnsweredWith(reply)' <=> AnsweredWith(reply)) /\ (NextReply(reply)' <=> NextReply(reply))
           /\ (client.pc = "printing" => client'.pc = "printing") /\ InStep => InStep'
  <1>1. NotAnswered' <=> NotAnswered  BY DEF NotAnswered, Answers
  <1>2. \A reply : (AnsweredWith(reply)' <=> AnsweredWith(reply)) /\ (NextReply(reply)' <=> NextReply(reply))
    BY DEF AnsweredWith, NextReply, Answers
  <1>3. ASSUME client.pc = "printing" => client'.pc = "printing", InStep PROVE InStep'
    <2>1. CASE NotAnswered  BY <1>1, <2>1 DEF InStep
    <2>2. ASSUME NEW reply \in ReplyType, AnsweredWith(reply), NextReply(reply),
                 IF reply.eof THEN handed[client.n] = taken[client.n] ELSE client.pc = "printing"
          PROVE  InStep'
      <3>1. AnsweredWith(reply)' /\ NextReply(reply)'  BY <1>2, <2>2
      <3>2. IF reply.eof THEN handed'[client'.n] = taken'[client'.n] ELSE client'.pc = "printing"
        BY <1>3, <2>2
      <3>. QED  BY <3>1, <3>2 DEF InStep, ReplyType
    <2>. QED  BY <1>3, <2>1, <2>2 DEF InStep
  <1>. QED  BY <1>1, <1>2, <1>3

\* What counts is as it was.
LEMMA CountKept ==
    ASSUME Counting, MoreBegun, UNCHANGED <<handed, taken, jobStart>>,
           session'.n = session.n, session'.seq = session.seq, session'.bytes = session.bytes,
           client'.n = client.n,
           Here' => /\ Here /\ Jobs' /\ client'.cache = client.cache
                    /\ client.pc = "printing" => client'.pc = "printing",
           \A m \in replies' : m.tid = session'.pull => m \in replies /\ m.tid = session.pull
    PROVE  Counting'
  <1>1. Totals'  BY DEF Counting, Totals, MoreBegun
  <1>2. SoFar'  BY DEF Counting, SoFar
  <1>3. Here' /\ session'.n = client'.n => InStep'
    <2>1. Here' /\ session'.n = client'.n => InStep  BY DEF Counting
    <2>. QED  BY <2>1, StepKept
  <1>4. Answered'
    <2>. SUFFICES ASSUME NEW m \in replies', m.tid = session'.pull
                  PROVE  /\ NextReply(m.reply)'
                         /\ Here' /\ session'.n = client'.n =>
                               AnsweredWith(m.reply)' \/ (client'.cache = <<>> /\ m.reply.eof)
      BY DEF Answered
    <2>1. /\ NextReply(m.reply)
          /\ Here /\ session.n = client.n => AnsweredWith(m.reply) \/ (client.cache = <<>> /\ m.reply.eof)
      BY DEF Counting, Answered
    <2>2. NextReply(m.reply)'  BY <2>1 DEF NextReply
    <2>3. ASSUME Here', session'.n = client'.n PROVE AnsweredWith(m.reply)' \/ (client'.cache = <<>> /\ m.reply.eof)
      <3>1. AnsweredWith(m.reply) \/ (client.cache = <<>> /\ m.reply.eof)  BY <2>1, <2>3
      <3>. QED  BY <2>3, <3>1, StepKept
    <2>. QED  BY <2>2, <2>3
  <1>. QED  BY <1>1, <1>2, <1>3, <1>4 DEF Counting

\* The client did not go on.
LEMMA QuietCounting ==
    ASSUME Counting, MoreBegun, UNCHANGED <<client, handed, taken, jobStart>>,
           session'.n = session.n, session'.seq = session.seq, session'.bytes = session.bytes,
           \A m \in replies' : m.tid = session'.pull => m \in replies /\ m.tid = session.pull
    PROVE  Counting'
  <1>1. Here' => Here /\ Jobs'  BY DEF Counting, Here, Jobs
  <1>. QED  BY <1>1, CountKept

\* Counting survives that a client leaves.
LEMMA LeavesCounting ==
    ASSUME TypeOK, Counting, Leaves
    PROVE  Counting'
  <1>1. Still /\ ~Here' /\ client'.n = client.n  BY LeavesStep DEF Here
  <1>2. MoreBegun  BY <1>1, KeptBegun, SameMore DEF Still
  <1>. QED  BY <1>1, <1>2, CountKept DEF Still, SameSession

\* And that one comes.
LEMMA ConnectCounting ==
    ASSUME TypeOK, Opening, Counting, Connect
    PROVE  Counting'
  <1>1. /\ Still /\ ~Here /\ client'.pc = "opening" /\ client'.n = client.n + 1
        /\ client'.job = 0 /\ client'.pos = 0 /\ client'.cache = <<>>
        /\ client.n \in Nat /\ client.n + 1 \in Conns
    BY ConnectStep
  <1>2. MoreBegun  BY <1>1, KeptBegun, SameMore DEF Still
  <1>3. Totals'
    <2>1. \A n \in Conns : n > client.n + 1 => n > client.n  BY <1>1, ConnFacts
    <2>. QED  BY <1>1, <1>2, <2>1 DEF Counting, Totals, MoreBegun, Still
  <1>4. SoFar'  BY <1>1 DEF Counting, SoFar, Still, SameSession
  <1>5. handed'[client'.n] = 0
    <2>1. PICK n \in Conns : n = client.n + 1  BY <1>1
    <2>2. n > client.n  BY <1>1, <2>1
    <2>3. handed[n] = 0  BY <2>2 DEF Counting, Totals
    <2>. QED  BY <1>1, <2>1, <2>3 DEF Still
  <1>6. Jobs'
    <2>1. Len(client'.cache) = 0  BY <1>1
    <2>. QED  BY <1>1, <1>5, <2>1, ConnFacts DEF Jobs
  <1>7. session'.n # client'.n
    <2>1. PICK n \in Conns : n = client.n + 1  BY <1>1
    <2>2. ~Begun(n) /\ n # 0  BY <1>1, <2>1, ConnFacts DEF Opening, Opened
    <2>3. session.n # n  BY <2>2 DEF Opening, Opened
    <2>. QED  BY <1>1, <2>1, <2>3 DEF Still, SameSession
  <1>8. Answered'
    <2>. SUFFICES ASSUME NEW m \in replies', m.tid = session'.pull PROVE NextReply(m.reply)'
      BY <1>7 DEF Answered
    <2>1. m \in replies /\ m.tid = session.pull  BY <1>1 DEF Still, SameSession
    <2>2. NextReply(m.reply)  BY <2>1 DEF Counting, Answered
    <2>. QED  BY <1>1, <2>2 DEF NextReply, Still, SameSession
  <1>. QED  BY <1>3, <1>4, <1>6, <1>7, <1>8 DEF Counting

\* Nothing is left of an answered job when the client prints the next.
LEMMA BetweenJobs ==
    ASSUME TypeOK, Counting, Here, client.pc # "printing", session.n = client.n
    PROVE  /\ handed[client.n] = taken[client.n]
           /\ \A m \in replies : m.tid = session.pull => m.reply.eof
  <1>1. /\ client.n \in Conns /\ handed[client.n] \in Nat /\ taken[client.n] \in Nat
    BY DEF TypeOK, ClientOk, Here
  <1>2. handed[client.n] = taken[client.n]
    <2>1. ASSUME NEW reply, IF reply.eof THEN handed[client.n] = taken[client.n] ELSE client.pc = "printing"
          PROVE  handed[client.n] = taken[client.n]
      BY <2>1
    <2>. QED  BY <2>1 DEF Counting, InStep, NotAnswered
  <1>3. ASSUME NEW m \in replies, m.tid = session.pull PROVE m.reply.eof
    <2>1. NextReply(m.reply)  BY <1>3 DEF Counting, Answered
    <2>2. m.reply = EofReply  BY <1>1, <1>2, <2>1 DEF NextReply
    <2>. QED  BY <2>2 DEF EofReply
  <1>. QED  BY <1>2, <1>3

\* And the client's own steps: a new job starts between jobs, and with an empty cache.
LEMMA ProceedsCounting ==
    ASSUME TypeOK, Counting, Proceeds
    PROVE  Counting'
  <1>1. /\ TypeOK' /\ Still /\ UNCHANGED <<inbox, pulls>>
        /\ Here /\ Here' /\ client'.n = client.n /\ client'.id = client.id
        /\ \/ /\ client'.job = client.job /\ client'.pos = client.pos /\ client'.cache = client.cache
              /\ client.pc # "printing" /\ client'.pc # "printing"
              /\ client'.pc = "opening" => client.pc = "opening"
              /\ client'.pc \in {"opening", "idle"} \/ client.job > 0 \/ client.pc \notin {"opening", "idle"}
           \/ /\ client.pc = "idle" /\ client.job < MaxJobs /\ client'.pc = "printing"
              /\ client'.job = client.job + 1 /\ client'.pos = 0 /\ client'.cache = <<>>
    BY ProceedsStep
  <1>2. MoreBegun  BY <1>1, KeptBegun, SameMore DEF Still
  <1>3. /\ client.n \in Conns /\ client.job \in Nat /\ client.pos \in Nat
        /\ handed[client.n] \in Nat
    BY <1>1 DEF TypeOK, ClientOk, Here
  <1>4. Jobs  BY <1>1 DEF Counting
  <1>5. CASE /\ client'.job = client.job /\ client'.pos = client.pos /\ client'.cache = client.cache
             /\ client.pc # "printing" /\ client'.pc # "printing"
             /\ client'.pc = "opening" => client.pc = "opening"
             /\ client'.pc \in {"opening", "idle"} \/ client.job > 0 \/ client.pc \notin {"opening", "idle"}
    <2>1. Jobs'
      <3>1. handed' = handed  BY <1>1 DEF Still
      <3>2. CASE client.job = 0  BY <1>1, <1>3, <1>4, <1>5, <3>1, <3>2 DEF Jobs
      <3>3. CASE client.job # 0
        <4>1. (client'.job - 1) * JobLen + client'.pos = (client.job - 1) * JobLen + client.pos  BY <1>5
        <4>. QED  BY <1>1, <1>3, <1>4, <1>5, <3>1, <3>3, <4>1 DEF Jobs
      <3>. QED  BY <3>2, <3>3
    <2>. QED  BY <1>1, <1>2, <1>5, <2>1, CountKept DEF Still, SameSession
  <1>6. CASE /\ client.pc = "idle" /\ client.job < MaxJobs /\ client'.pc = "printing"
             /\ client'.job = client.job + 1 /\ client'.pos = 0 /\ client'.cache = <<>>
    <2>1. Totals'  BY <1>1, <1>2 DEF Counting, Totals, MoreBegun, Still
    <2>2. SoFar'  BY <1>1 DEF Counting, SoFar, Still, SameSession
    <2>3. Len(client'.cache) = 0 /\ \A j : j \notin 1 .. Len(client'.cache)
      <3>1. Len(client'.cache) = 0  BY <1>6
      <3>. QED  BY <3>1
    <2>4. Jobs'
      <3>1. handed'[client'.n] = (client'.job - 1) * JobLen + client'.pos
        <4>1. handed[client.n] = client.job * JobLen
          <5>1. CASE client.job = 0  BY <1>4, <5>1, ConnFacts DEF Jobs
          <5>2. CASE client.job # 0
            <6>1. handed[client.n] = (client.job - 1) * JobLen + JobLen  BY <1>4, <1>6, <5>2 DEF Jobs
            <6>. QED  BY <1>3, <5>2, <6>1, ConnFacts, WholeJobs
          <5>. QED  BY <5>1, <5>2
        <4>2. client'.job = client.job + 1 /\ client'.pos = 0  BY <1>6
        <4>3. (client'.job - 1) * JobLen + client'.pos = client.job * JobLen
          BY <1>3, <4>2, ConnFacts, WholeJobs
        <4>4. handed'[client'.n] = handed[client.n]  BY <1>1 DEF Still
        <4>. QED  BY <4>1, <4>3, <4>4, Zenon
      <3>2. client'.job <= MaxJobs /\ client'.job # 0 /\ client'.pos <= JobLen /\ 0 <= CacheLen
        BY <1>3, <1>6, ConnFacts
      <3>. QED  BY <1>6, <2>3, <3>1, <3>2 DEF Jobs
    <2>5. Here' /\ session'.n = client'.n => InStep'
      <3>1. ASSUME session.n = client.n PROVE NotAnswered'
        <4>1. handed[client.n] = taken[client.n]  BY <1>1, <1>6, <3>1, BetweenJobs
        <4>. QED  BY <1>1, <2>3, <4>1 DEF NotAnswered, Answers, Still
      <3>. QED  BY <1>1, <3>1 DEF InStep, Still, SameSession
    <2>6. Answered'
      <3>. SUFFICES ASSUME NEW m \in replies', m.tid = session'.pull
                    PROVE  /\ NextReply(m.reply)'
                           /\ session'.n = client'.n => m.reply.eof
        BY <1>6 DEF Answered
      <3>1. m \in replies /\ m.tid = session.pull /\ session'.n = session.n  BY <1>1 DEF Still, SameSession
      <3>2. NextReply(m.reply)  BY <3>1 DEF Counting, Answered
      <3>3. NextReply(m.reply)'  BY <1>1, <3>2 DEF NextReply, Still, SameSession
      <3>4. session'.n = client'.n => m.reply.eof  BY <1>1, <1>6, <3>1, BetweenJobs
      <3>. QED  BY <3>3, <3>4
    <2>. QED  BY <2>1, <2>2, <2>4, <2>5, <2>6 DEF Counting
  <1>. QED  BY <1>1, <1>5, <1>6

\* No reply answers a pull that has just gone out.
LEMMA FreshReplies ==
    ASSUME TypeOK, NEW s, s.pull = 0, NEW others, NEW ok, After(s, others, ok)
    PROVE  \A m \in replies : m.tid # session'.pull
  <1>1. \A m \in replies : m.tid # 0 /\ m.tid # FreeTid
    <2>1. \A m \in replies : m.tid # 0  BY DEF TypeOK, AnswerType
    <2>. QED  BY <2>1, FreeTidFresh
  <1>. QED  BY <1>1 DEF After

\* And the failure of a pull.
LEMMA FailCounting ==
    ASSUME TypeOK, Port, Counting, MoreBegun, PullFails
    PROVE  Counting'
  <1>1. /\ replies' = {m \in replies : m.tid # session.pull}
        /\ UNCHANGED <<client, handed, taken, jobStart>>
    BY PullFailsStep
  <1>2. PICK s : /\ s.n = session.n /\ s.id = session.id /\ s.seq = session.seq
                 /\ s.pull = 0 /\ s.bytes = session.bytes
                 /\ After(s, {p \in pulls : p.tid # session.pull}, credit)
    BY PullFailsStep
  <1>3. session'.n = session.n /\ session'.seq = session.seq /\ session'.bytes = session.bytes
    BY <1>2 DEF After
  <1>4. PICK others : others = {p \in pulls : p.tid # session.pull}  OBVIOUS
  <1>5. After(s, others, credit)  BY <1>2, <1>4
  <1>6. \A m \in replies : m.tid # session'.pull  BY <1>2, <1>5, FreshReplies
  <1>7. \A m \in replies' : m.tid = session'.pull => m \in replies /\ m.tid = session.pull  BY <1>1, <1>6
  <1>. QED  BY <1>1, <1>3, <1>7, QuietCounting

\* And the return of a write.
LEMMA ReturnCounting ==
    ASSUME TypeOK, Counting, MoreBegun, WriteReturns
    PROVE  Counting'
  <1>1. After(session, pulls, Held(port') = 0) /\ UNCHANGED <<client, replies, handed, taken, jobStart>>
    BY ReturnStep
  <1>2. session'.n = session.n /\ session'.seq = session.seq /\ session'.bytes = session.bytes
    BY <1>1 DEF After
  <1>3. session'.pull = session.pull \/ session'.pull = FreeTid  BY <1>1 DEF After
  <1>4. \A m \in replies : m.tid # FreeTid  BY FreeTidFresh
  <1>5. \A m \in replies' : m.tid = session'.pull => m \in replies /\ m.tid = session.pull
    BY <1>1, <1>3, <1>4
  <1>. QED  BY <1>1, <1>2, <1>5, QuietCounting

\* And the end of a session.
LEMMA EndCounting ==
    ASSUME TypeOK, Port, Counting, MoreBegun, Ends
    PROVE  Counting'
  <1>1. session'.n = 0 /\ session'.pull = 0 /\ UNCHANGED <<client, replies, handed, taken>>
    BY EndStep
  <1>2. \A m \in replies : m.tid # 0  BY DEF TypeOK, AnswerType
  <1>3. Totals'  BY <1>1 DEF Counting, Totals, MoreBegun
  <1>4. Here' => Jobs'  BY <1>1 DEF Counting, Here, Jobs
  <1>5. Here' => session'.n # client'.n  BY <1>1, ConnFacts DEF Here, TypeOK, ClientOk
  <1>6. SoFar'  BY <1>1 DEF SoFar
  <1>7. Answered'  BY <1>1, <1>2 DEF Answered
  <1>. QED  BY <1>3, <1>4, <1>5, <1>6, <1>7 DEF Counting

\* And a new session, of which nothing was taken.
LEMMA OpenCounting ==
    ASSUME TypeOK, Opening, Port, Counting, MoreBegun,
           NEW r \in Requests, handle_listener_event(r), session = NoSession
    PROVE  Counting'
  <1>1. /\ r.n \in Conns /\ r.id = SocketOf[r.n] /\ ~Begun(r.n)
        /\ Here /\ r.n = client.n => client.pc = "opening"
    BY OpenOpening
  <1>2. After(Session(r.n, r.id), pulls, credit) /\ UNCHANGED <<client, inbox, replies, handed, taken>>
    BY <1>1, OpenStep
  <1>3. PICK s : s = Session(r.n, r.id)  OBVIOUS
  <1>4. s.n = r.n /\ s.pull = 0 /\ s.bytes = 0  BY <1>1, <1>3, NewSession
  <1>5. After(s, pulls, credit)  BY <1>2, <1>3
  <1>6. session'.n = r.n /\ session'.bytes = 0  BY <1>4, <1>5 DEF After
  <1>7. taken[r.n] = 0  BY <1>1 DEF Counting, Totals
  <1>8. Totals'  BY <1>2 DEF Counting, Totals, MoreBegun
  <1>9. Here' => Jobs'  BY <1>2 DEF Counting, Here, Jobs
  <1>10. SoFar'
    <2>1. 0 % JobLen = 0  BY ConnFacts, WholeJobs
    <2>. QED  BY <1>2, <1>6, <1>7, <2>1 DEF SoFar
  <1>11. Here' /\ session'.n = client'.n => InStep'
    <2>. SUFFICES ASSUME Here, r.n = client.n PROVE NotAnswered'
      BY <1>2, <1>6 DEF Here, InStep
    <2>1. Jobs /\ client.pc = "opening"  BY <1>1 DEF Counting
    <2>2. handed[client.n] = 0 /\ client.cache = <<>>  BY <2>1 DEF Jobs
    <2>3. handed'[client'.n] = taken'[client'.n]  BY <1>2, <1>7, <2>2
    <2>4. \A j : j \notin 1 .. Len(client'.cache)
      <3>1. Len(client'.cache) = 0  BY <1>2, <2>2
      <3>. QED  BY <3>1
    <2>. QED  BY <2>3, <2>4 DEF NotAnswered, Answers
  <1>12. Answered'
    <2>1. \A m \in replies : m.tid # session'.pull  BY <1>4, <1>5, FreshReplies
    <2>. QED  BY <1>2, <2>1 DEF Answered
  <1>. QED  BY <1>8, <1>9, <1>10, <1>11, <1>12 DEF Counting

\* And the taking of a reply, which is the next.
LEMMA TakenCounting ==
    ASSUME TypeOK, Opening, Port, Counting, MoreBegun, NEW m, Taken(m)
    PROVE  NextReply(m.reply) /\ Counting'
  <1>1. m \in replies /\ m.tid = session.pull  BY DEF Taken, PullAnswered
  <1>2. /\ NextReply(m.reply)
        /\ Here /\ session.n = client.n => AnsweredWith(m.reply) \/ (client.cache = <<>> /\ m.reply.eof)
    BY <1>1 DEF Counting, Answered
  <1>3. /\ session.n \in Conns /\ replies' = replies \ {m}
        /\ After(Accept(session, m.reply), pulls, credit)
        /\ UNCHANGED <<client, inbox, handed, log>>
        /\ \/ /\ m.reply = EofReply /\ session.bytes = 0
              /\ jobStart' = jobStart /\ taken' = taken
           \/ /\ m.reply = EofReply /\ session.bytes > 0
              /\ jobStart' = TRUE /\ taken' = taken
           \/ /\ m.reply = ChunkReply(session.n, taken[session.n] + 1)
              /\ jobStart' = FALSE
              /\ taken' = [taken EXCEPT ![session.n] = taken[session.n] + 1]
    BY <1>2, TakenStep
  <1>4. SessionOk(session) /\ session.n # 0 /\ session.seq \in 1 .. MaxSeq /\ taken \in [Conns -> Nat]
        /\ handed \in [Conns -> Nat]
    BY <1>3, SessionFacts, ConnFacts DEF TypeOK
  <1>5. PICK s : s = Accept(session, m.reply)  OBVIOUS
  <1>6. /\ s.n = session.n /\ s.pull = 0 /\ s.seq = next_pap_seq(session.seq)
        /\ s.bytes = IF m.reply.eof THEN 0 ELSE 1
    BY <1>4, <1>5, AcceptSession
  <1>7. After(s, pulls, credit)  BY <1>3, <1>5
  <1>8. /\ session'.n = session.n /\ session'.seq = next_pap_seq(session.seq)
        /\ session'.bytes = IF m.reply.eof THEN 0 ELSE 1
    BY <1>6, <1>7 DEF After
  <1>9. Answered'
    <2>1. \A l \in replies : l.tid # session'.pull  BY <1>6, <1>7, FreshReplies
    <2>. QED  BY <1>3, <2>1 DEF Answered
  <1>10. Here' => Jobs'  BY <1>3 DEF Counting, Here, Jobs
  <1>11. Here' /\ session'.n = client'.n => Answers(client.cache, session'.seq, 1)
    <2>. SUFFICES ASSUME Here, session.n = client.n PROVE Answers(client.cache, session'.seq, 1)
      BY <1>3, <1>8 DEF Here
    <2>1. CASE client.cache = <<>>
      <3>1. Len(client.cache) = 0  BY <2>1
      <3>2. \A j : j \notin 1 .. Len(client.cache)  BY <3>1
      <3>. QED  BY <3>2 DEF Answers
    <2>2. CASE client.cache # <<>>
      <3>1. Answers(client.cache, session.seq, 0)  BY <1>2, <2>2 DEF AnsweredWith
      <3>2. client.cache \in CacheType /\ Len(client.cache) <= CacheLen
        BY DEF TypeOK, ClientOk, Counting, Jobs
      <3>3. PICK q \in 1 .. MaxSeq : q = session.seq  BY <1>4
      <3>4. Answers(client.cache, next_pap_seq(q), 1)  BY <3>1, <3>2, <3>3, AnswersNext
      <3>. QED  BY <1>8, <3>3, <3>4
    <2>. QED  BY <2>1, <2>2
  <1>12. CASE m.reply = EofReply /\ taken' = taken /\ (jobStart' => taken[session.n] % JobLen = 0)
    <2>1. Totals'  BY <1>3, <1>12 DEF Counting, Totals, MoreBegun
    <2>2. SoFar'
      <3>1. session'.bytes = 0  BY <1>8, <1>12 DEF EofReply
      <3>. QED  BY <1>8, <1>12, <3>1 DEF SoFar
    <2>3. ASSUME Here', session'.n = client'.n PROVE NotAnswered'
      <3>1. Here /\ session.n = client.n  BY <1>3, <1>8, <2>3 DEF Here
      <3>2. handed[client.n] = taken[client.n]
        <4>1. CASE NotAnswered  BY <4>1 DEF NotAnswered
        <4>2. ASSUME ~NotAnswered PROVE handed[client.n] = taken[client.n]
          <5>1. PICK reply \in ReplyType :
                   /\ AnsweredWith(reply) /\ NextReply(reply)
                   /\ IF reply.eof THEN handed[client.n] = taken[client.n] ELSE client.pc = "printing"
            BY <3>1, <4>2 DEF Counting, InStep
          <5>2. AnsweredWith(m.reply)  BY <1>2, <3>1, <5>1 DEF AnsweredWith
          <5>3. reply = m.reply  BY <5>1, <5>2 DEF AnsweredWith
          <5>. QED  BY <1>12, <5>1, <5>3 DEF EofReply
        <4>. QED  BY <4>1, <4>2
      <3>3. handed'[client'.n] = taken'[client'.n]  BY <1>3, <1>12, <3>2
      <3>4. Answers(client'.cache, session'.seq, 1)  BY <1>3, <1>11, <2>3
      <3>. QED  BY <3>3, <3>4 DEF NotAnswered, Answers
    <2>. QED  BY <1>2, <1>9, <1>10, <2>1, <2>2, <2>3 DEF Counting, InStep
  <1>13. CASE /\ m.reply = ChunkReply(session.n, taken[session.n] + 1)
              /\ jobStart' = FALSE
              /\ taken' = [taken EXCEPT ![session.n] = taken[session.n] + 1]
    <2>1. PICK t \in Nat : t = taken[session.n] + 1  BY <1>3, <1>4
    <2>2. handed[session.n] = t /\ ~m.reply.eof
      <3>1. m.reply # EofReply  BY <1>13 DEF EofReply, ChunkReply
      <3>. QED  BY <1>2, <1>13, <2>1, <3>1 DEF NextReply, ChunkReply
    <2>3. taken'[session.n] = t /\ \A n \in Conns : n # session.n => taken'[n] = taken[n]
      BY <1>3, <1>4, <1>13, <2>1
    <2>4. ~Begun(session.n) => FALSE
      BY <1>4 DEF Opening, Opened
    <2>5. Totals'
      <3>. SUFFICES ASSUME NEW n \in Conns
                    PROVE  taken'[n] <= handed'[n] /\ (~Begun(n)' => taken'[n] = 0) /\ (n > client'.n => handed'[n] = 0)
        BY DEF Totals
      <3>1. CASE n = session.n
        <4>1. Begun(n)'  BY <2>4, <3>1 DEF MoreBegun
        <4>2. n > client'.n => handed'[n] = 0  BY <1>3 DEF Counting, Totals
        <4>3. taken'[n] <= handed'[n]  BY <1>3, <1>4, <2>2, <2>3, <3>1
        <4>. QED  BY <4>1, <4>2, <4>3
      <3>2. CASE n # session.n
        <4>1. taken'[n] = taken[n] /\ handed'[n] = handed[n]  BY <1>3, <2>3, <3>2
        <4>. QED  BY <1>3, <4>1 DEF Counting, Totals, MoreBegun
      <3>. QED  BY <3>1, <3>2
    <2>6. SoFar'
      <3>0. taken[session.n] \in Nat  BY <1>3, <1>4
      <3>1. taken'[session'.n] > 0  BY <1>8, <2>1, <2>3, <3>0
      <3>. QED  BY <1>13, <3>1 DEF SoFar
    <2>7. ASSUME Here', session'.n = client'.n PROVE NotAnswered'
      <3>1. session.n = client'.n  BY <1>8, <2>7
      <3>2. handed'[client'.n] = taken'[client'.n]  BY <1>3, <2>2, <2>3, <3>1
      <3>3. Answers(client'.cache, session'.seq, 1)  BY <1>3, <1>11, <2>7
      <3>. QED  BY <3>2, <3>3 DEF NotAnswered, Answers
    <2>. QED  BY <1>2, <1>9, <1>10, <2>5, <2>6, <2>7 DEF Counting, InStep
  <1>14. m.reply = EofReply => taken[session.n] % JobLen = 0
    <2>1. m.reply = EofReply => m.reply # ChunkReply(session.n, taken[session.n] + 1)
      BY DEF EofReply, ChunkReply
    <2>. QED  BY <1>2, <2>1 DEF NextReply
  <1>. QED  BY <1>3, <1>12, <1>13, <1>14

\* And the answer to a pull: repeated if the client has answered it, else made.
LEMMA HandleCounting ==
    ASSUME DistinctSockets, TypeOK, Pulling, Counting, HandlePull
    PROVE  Counting'
  <1>1. client.pc \in {"printing", "drain"} /\ Here /\ Jobs  BY DEF HandlePull, Here, Counting
  <1>2. PICK p \in PullType, reply \in ReplyType :
           /\ Len(inbox) > 0 /\ p = inbox[1]
           /\ \/ session.pull # p.tid /\ replies' = replies
              \/ session.pull = p.tid /\ replies' = replies \cup {[tid |-> p.tid, reply |-> reply]}
           /\ Repeats(p, reply) \/ Replies(p, reply)
           /\ TypeOK' /\ SameSession
           /\ UNCHANGED <<pulls, credit, port, jobStart, taken, log>>
    BY <1>1, HandleStep
  <1>3. /\ client.n \in Conns /\ client.id = SocketOf[client.n] /\ client.pos \in Nat /\ client.job \in Nat
        /\ client.cache \in CacheType /\ Len(client.cache) \in Nat /\ Len(client.cache) <= CacheLen
        /\ handed \in [Conns -> Nat] /\ taken \in [Conns -> Nat]
        /\ handed[client.n] \in Nat /\ taken[client.n] \in Nat
        /\ session.n \in 0 .. MaxConns /\ session.seq \in 1 .. MaxSeq /\ session.pull \in Nat
    BY <1>1 DEF TypeOK, ClientOk, CacheType, Here, Jobs, SessionOk
  <1>4. /\ session'.n = session.n /\ session'.seq = session.seq /\ session'.pull = session.pull
        /\ session'.bytes = session.bytes /\ client'.n = client.n /\ Here'
    BY <1>1, <1>2 DEF SameSession, Repeats, Replies, Here
  <1>5. MoreBegun  BY <1>2, KeptBegun, SameMore
  <1>6. Asks(p) /\ p.id = client.id
    <2>1. 1 \in 1 .. Len(inbox)
      <3>1. Len(inbox) \in Nat  BY DEF TypeOK
      <3>. QED  BY <1>2, <3>1
    <2>. QED  BY <1>2, <2>1 DEF Pulling
  <1>7. session.n = client.n => Ours(p) /\ p.seq = session.seq
    <2>1. session.n = client.n => session.n # 0 /\ session.id = SocketOf[session.n]
      BY <1>3, SessionFacts, ConnFacts DEF TypeOK
    <2>2. session.n = client.n => Ours(p)  BY <1>3, <1>6, <2>1 DEF Ours
    <2>. QED  BY <1>6, <2>2 DEF Asks
  <1>8. p.tid = session.pull => session.n = client.n
    <2>. SUFFICES ASSUME p.tid = session.pull PROVE session.n = client.n
      OBVIOUS
    <2>1. Ours(p)  BY <1>6 DEF Asks
    <2>2. session.n # 0 /\ session.id = SocketOf[client.n]  BY <1>3, <1>6, <2>1 DEF Ours
    <2>. QED  BY <1>3, <2>2, OneSession
  <1>9. session.n = client.n => \A m \in replies : m.tid # session.pull
    <2>1. 1 \in 1 .. Len(inbox)
      <3>1. Len(inbox) \in Nat  BY DEF TypeOK
      <3>. QED  BY <1>2, <3>1
    <2>. QED  BY <1>2, <1>7, <2>1 DEF Pulling
  <1>10. PICK q \in 1 .. MaxSeq : q = session.seq  BY <1>3
  <1>11. CASE Repeats(p, reply)
    <2>1. UNCHANGED <<client, handed, taken>>  BY <1>2, <1>11 DEF Repeats
    <2>2. ASSUME session.n = client.n PROVE NextReply(reply)' /\ AnsweredWith(reply)' /\ InStep'
      <3>1. PICK j \in 1 .. Len(client.cache) : client.cache[j].seq = q /\ reply = client.cache[j].reply
        BY <1>7, <1>10, <1>11, <2>2 DEF Repeats
      <3>2. ~NotAnswered
        <4>1. ASSUME NotAnswered PROVE FALSE
          <5>1. Answers(client.cache, q, 1)  BY <1>10, <4>1 DEF NotAnswered
          <5>2. client.cache[j].seq # q  BY <1>3, <5>1, AnswersNone
          <5>. QED  BY <3>1, <5>2
        <4>. QED  BY <4>1
      <3>3. InStep  BY <1>1, <2>2 DEF Counting
      <3>4. PICK r \in ReplyType : AnsweredWith(r) /\ NextReply(r)  BY <3>2, <3>3 DEF InStep
      <3>5. Answers(client.cache, q, 0)  BY <1>10, <3>4 DEF AnsweredWith
      <3>6. j = Len(client.cache)
        <4>1. PICK c \in CacheType : c = client.cache  BY <1>3
        <4>2. Len(c) <= CacheLen /\ Answers(c, q, 0) /\ j \in 1 .. Len(c) /\ c[j].seq = q
          BY <1>3, <3>1, <3>5, <4>1
        <4>3. c[j].seq = q <=> j = Len(c)  BY <4>2, AnswersLast
        <4>. QED  BY <4>1, <4>2, <4>3
      <3>7. r = reply  BY <3>1, <3>4, <3>6 DEF AnsweredWith
      <3>. QED  BY <1>4, <2>1, <3>3, <3>4, <3>7, StepKept
    <2>3. Jobs'  BY <1>1, <2>1 DEF Jobs
    <2>4. Totals'  BY <1>5, <2>1 DEF Counting, Totals, MoreBegun
    <2>5. SoFar'  BY <1>2, <1>4, <2>1 DEF Counting, SoFar
    <2>6. Answered'
      <3>. SUFFICES ASSUME NEW m \in replies', m.tid = session.pull
                    PROVE  /\ NextReply(m.reply)'
                           /\ session.n = client.n => AnsweredWith(m.reply)'
        BY <1>4 DEF Answered
      <3>1. CASE m \in replies
        <4>1. NextReply(m.reply)  BY <3>1 DEF Counting, Answered
        <4>. QED  BY <1>4, <1>9, <2>1, <3>1, <4>1, StepKept
      <3>2. CASE m \notin replies
        <4>1. p.tid = session.pull /\ m.reply = reply  BY <1>2, <3>2
        <4>2. PICK r : r = m.reply  OBVIOUS
        <4>3. NextReply(r)' /\ AnsweredWith(r)'  BY <1>8, <2>2, <4>1, <4>2
        <4>. QED  BY <4>2, <4>3
      <3>. QED  BY <3>1, <3>2
    <2>7. Here' /\ session'.n = client'.n => InStep'  BY <1>4, <2>2
    <2>. QED  BY <2>3, <2>4, <2>5, <2>6, <2>7 DEF Counting
  <1>12. CASE Replies(p, reply)
    <2>1. /\ \A j \in 1 .. Len(client.cache) : client.cache[j].seq # p.seq
          /\ client'.job = client.job /\ client'.cache = Remember(client.cache, p.seq, reply)
          /\ \/ /\ client.pc = "printing" /\ client'.pc = "printing"
                /\ client.pos < JobLen /\ client'.pos = client.pos + 1
                /\ reply = ChunkReply(client.n, handed[client.n] + 1)
                /\ handed' = [handed EXCEPT ![client.n] = handed[client.n] + 1]
             \/ /\ client.pc = "drain" \/ client.pos = JobLen
                /\ client'.pc = (IF client.pc = "drain" THEN "idle" ELSE "drain")
                /\ client'.pos = client.pos
                /\ reply = EofReply
                /\ handed' = handed
      BY <1>12 DEF Replies
    <2>2. PICK R : R = Remember(client.cache, p.seq, reply)  OBVIOUS
    <2>3. p.seq \in 1 .. MaxSeq  BY DEF PullType
    <2>4. Len(R) \in 1 .. CacheLen /\ R[Len(R)].reply = reply
      <3>1. PICK c \in CacheType : c = client.cache  BY <1>3
      <3>2. PICK s \in 1 .. MaxSeq : s = p.seq  BY <2>3
      <3>3. Len(c) <= CacheLen /\ R = Remember(c, s, reply)  BY <1>3, <2>2, <3>1, <3>2
      <3>. QED  BY <3>3, RememberFacts
    <2>5. client'.cache = R  BY <2>1, <2>2
    <2>6. client.job # 0 /\ handed[client.n] = (client.job - 1) * JobLen + client.pos
          /\ (client.pc # "printing" => client.pos = JobLen) /\ client.pos <= JobLen /\ client.job <= MaxJobs
      BY <1>1 DEF Jobs
    <2>7. client.pos = JobLen => handed[client.n] % JobLen = 0
      <3>1. client.pos = JobLen => handed[client.n] = (client.job - 1) * JobLen + JobLen  BY <2>6
      <3>2. client.pos = JobLen => handed[client.n] = client.job * JobLen
        BY <1>3, <2>6, <3>1, ConnFacts, WholeJobs
      <3>. QED  BY <1>3, <3>2, ConnFacts, WholeJobs
    <2>8. \/ /\ reply = ChunkReply(client.n, handed[client.n] + 1) /\ ~reply.eof
             /\ client'.pc = "printing" /\ handed'[client.n] = handed[client.n] + 1
          \/ /\ reply = EofReply /\ reply.eof
             /\ handed'[client.n] = handed[client.n] /\ handed[client.n] % JobLen = 0
      <3>1. CASE /\ client'.pc = "printing" /\ reply = ChunkReply(client.n, handed[client.n] + 1)
                 /\ handed' = [handed EXCEPT ![client.n] = handed[client.n] + 1]
        BY <1>3, <3>1 DEF ChunkReply
      <3>2. CASE /\ client.pc = "drain" \/ client.pos = JobLen
                 /\ reply = EofReply /\ handed' = handed
        BY <2>6, <2>7, <3>2 DEF EofReply
      <3>. QED  BY <2>1, <3>1, <3>2
    <2>9. \A n \in Conns : n # client.n => handed'[n] = handed[n]  BY <1>3, <2>1
    <2>10. handed'[client.n] >= handed[client.n]  BY <1>3, <2>8
    <2>11. ASSUME session.n = client.n PROVE NextReply(reply)' /\ AnsweredWith(reply)' /\ InStep'
      <3>1. \A j \in 1 .. Len(client.cache) : client.cache[j].seq # q  BY <1>7, <1>10, <2>1, <2>11
      <3>2. NotAnswered
        <4>1. ASSUME NEW r, AnsweredWith(r) PROVE FALSE
          <5>1. Answers(client.cache, q, 0) /\ client.cache # <<>>  BY <1>10, <4>1 DEF AnsweredWith
          <5>2. PICK j \in 1 .. Len(client.cache) : j = Len(client.cache)
            <6>1. Len(client.cache) # 0  BY <1>3, <5>1 DEF CacheType
            <6>2. Len(client.cache) \in 1 .. Len(client.cache)  BY <1>3, <6>1
            <6>. QED  BY <6>2
          <5>3. client.cache[j].seq = q  BY <1>3, <5>1, <5>2, AnswersLast
          <5>. QED  BY <3>1, <5>3
        <4>. QED  BY <1>1, <2>11, <4>1 DEF Counting, InStep
      <3>3. Answers(client.cache, q, 1) /\ handed[client.n] = taken[client.n]
        BY <1>10, <3>2 DEF NotAnswered
      <3>4. p.seq = q  BY <1>7, <1>10, <2>11
      <3>5. Answers(R, q, 0)  BY <1>3, <2>2, <3>3, <3>4, AnswersNew
      <3>6. R # <<>>
        <4>1. Len(R) # 0  BY <2>4
        <4>. QED  BY <4>1
      <3>7. AnsweredWith(reply)'
        <4>1. /\ client'.cache # <<>> /\ client'.cache[Len(client'.cache)].reply = reply
              /\ Answers(client'.cache, session'.seq, 0)
          BY <1>4, <1>10, <2>4, <2>5, <3>5, <3>6
        <4>. QED  BY <4>1 DEF AnsweredWith, Answers
      <3>8. NextReply(reply)'
        <4>1. \/ reply = EofReply /\ taken'[session'.n] % JobLen = 0
              \/ /\ reply = ChunkReply(session'.n, taken'[session'.n] + 1)
                 /\ handed'[session'.n] = taken'[session'.n] + 1
          BY <1>2, <1>4, <2>8, <2>11, <3>3
        <4>. QED  BY <4>1 DEF NextReply
      <3>9. IF reply.eof THEN handed'[client'.n] = taken'[client'.n] ELSE client'.pc = "printing"
        BY <1>2, <1>4, <2>8, <3>3
      <3>10. InStep'  BY <3>7, <3>8, <3>9 DEF InStep, ReplyType
      <3>. QED  BY <3>7, <3>8, <3>10
    <2>12. Jobs'
      <3>1. client'.pos <= JobLen /\ (client'.pc # "printing" => client'.pos = JobLen)
            /\ client'.pc # "opening"
            /\ handed'[client.n] = (client.job - 1) * JobLen + client'.pos
        <4>1. PICK w : w = (client.job - 1) * JobLen  OBVIOUS
        <4>2. w \in Nat
          <5>1. client.job \in Nat /\ client.job # 0 /\ JobLen \in Nat  BY <1>3, <2>6, ConnFacts
          <5>2. client.job - 1 \in Nat  BY <5>1
          <5>. QED  BY <4>1, <5>1, <5>2
        <4>3. handed[client.n] = w + client.pos  BY <2>6, <4>1
        <4>4. handed'[client.n] = w + client'.pos
          <5>1. CASE client'.pos = client.pos + 1 /\ handed' = [handed EXCEPT ![client.n] = handed[client.n] + 1]
            BY <1>3, <4>2, <4>3, <5>1
          <5>2. CASE client'.pos = client.pos /\ handed' = handed
            BY <4>3, <5>2
          <5>. QED  BY <2>1, <5>1, <5>2
        <4>5. client'.pos <= JobLen /\ (client'.pc # "printing" => client'.pos = JobLen) /\ client'.pc # "opening"
          <5>1. CASE client.pc = "printing" /\ client'.pc = "printing" /\ client.pos < JobLen /\ client'.pos = client.pos + 1
            BY <1>3, <5>1, ConnFacts
          <5>2. CASE /\ client.pc = "drain" \/ client.pos = JobLen
                     /\ client'.pc = (IF client.pc = "drain" THEN "idle" ELSE "drain")
                     /\ client'.pos = client.pos
            <6>1. client.pos = JobLen  BY <2>6, <5>2
            <6>2. client'.pc # "opening"  BY <5>2
            <6>. QED  BY <1>3, <5>2, <6>1, <6>2, ConnFacts
          <5>. QED  BY <2>1, <5>1, <5>2
        <4>. QED  BY <4>1, <4>4, <4>5
      <3>2. Len(client'.cache) <= CacheLen  BY <2>4, <2>5
      <3>3. client'.job = client.job /\ client'.job <= MaxJobs /\ client'.job # 0  BY <2>1, <2>6
      <3>. QED  BY <1>4, <3>1, <3>2, <3>3 DEF Jobs
    <2>13. Totals'
      <3>. SUFFICES ASSUME NEW n \in Conns
                    PROVE  taken'[n] <= handed'[n] /\ (~Begun(n)' => taken'[n] = 0) /\ (n > client'.n => handed'[n] = 0)
        BY DEF Totals
      <3>1. taken'[n] = taken[n] /\ taken[n] <= handed[n] /\ (~Begun(n) => taken[n] = 0)
            /\ (n > client.n => handed[n] = 0)
        BY <1>2 DEF Counting, Totals
      <3>2. ~Begun(n)' => taken'[n] = 0  BY <1>5, <3>1 DEF MoreBegun
      <3>3. CASE n = client.n
        <4>1. taken'[n] <= handed'[n]
          <5>1. handed'[n] \in Nat /\ taken[n] \in Nat /\ handed[n] \in Nat /\ handed'[n] >= handed[n]
            BY <1>3, <2>8, <2>10, <3>3
          <5>. QED  BY <3>1, <5>1
        <4>2. ~(n > client'.n)  BY <1>3, <1>4, <3>3, ConnFacts
        <4>. QED  BY <3>2, <4>1, <4>2
      <3>4. CASE n # client.n  BY <1>4, <2>9, <3>1, <3>2, <3>4
      <3>. QED  BY <3>3, <3>4
    <2>14. SoFar'  BY <1>2, <1>4 DEF Counting, SoFar
    <2>15. Answered'
      <3>. SUFFICES ASSUME NEW m \in replies', m.tid = session.pull
                    PROVE  /\ NextReply(m.reply)'
                           /\ session.n = client.n => AnsweredWith(m.reply)'
        BY <1>4 DEF Answered
      <3>1. CASE m \in replies
        <4>1. NextReply(m.reply) /\ session.n # client.n  BY <1>9, <3>1 DEF Counting, Answered
        <4>2. session.n \in Conns
          <5>1. m.tid # 0  BY <3>1 DEF TypeOK, AnswerType
          <5>2. session.n # 0  BY <5>1, SessionFacts DEF TypeOK
          <5>. QED  BY <1>3, <5>2, ConnFacts
        <4>3. handed'[session.n] = handed[session.n]  BY <2>9, <4>1, <4>2
        <4>4. NextReply(m.reply)'
          <5>1. \/ m.reply = EofReply /\ taken'[session'.n] % JobLen = 0
                \/ /\ m.reply = ChunkReply(session'.n, taken'[session'.n] + 1)
                   /\ handed'[session'.n] = taken'[session'.n] + 1
            BY <1>2, <1>4, <4>1, <4>3 DEF NextReply
          <5>. QED  BY <5>1 DEF NextReply
        <4>. QED  BY <4>1, <4>4
      <3>2. CASE m \notin replies
        <4>1. p.tid = session.pull /\ m.reply = reply  BY <1>2, <3>2
        <4>2. PICK r : r = m.reply  OBVIOUS
        <4>3. NextReply(r)' /\ AnsweredWith(r)'  BY <1>8, <2>11, <4>1, <4>2
        <4>. QED  BY <4>2, <4>3
      <3>. QED  BY <3>1, <3>2
    <2>16. Here' /\ session'.n = client'.n => InStep'  BY <1>4, <2>11
    <2>. QED  BY <2>12, <2>13, <2>14, <2>15, <2>16 DEF Counting
  <1>. QED  BY <1>2, <1>11, <1>12

-----------------------------------------------------------------------------
(* What the port holds comes as the log of PrintSpool may go on *)

\* Streaming and Port, stated of the values after a step.
LEMMA SpoolNext ==
    ASSUME NEW p, NEW l, NEW h, NEW s, NEW cr, NEW pull, NEW n, NEW start,
           p = port', l = log', h = handed', cr = credit', pull = session'.pull, n = session'.n, start = jobStart',
           s = Now(session'.n, taken'), Streams(p, l, h, s),
           Window(p, l, cr, pull), Quiet(p, l, n), Renames(p, l, pull, start), StartsOnce(p, l)
    PROVE  Streaming' /\ Port'
  BY DEF Streaming, Port

\* The state the session leaves.
LEMMA NowFacts ==
    ASSUME TypeOK
    PROVE  /\ Now(session.n, taken) = [live |-> session.n, out |-> IF session.n = 0 THEN 0 ELSE taken[session.n]]
           /\ Now(session.n, taken) \in States
  <1>1. session.n \in 0 .. MaxConns /\ taken \in [Conns -> Nat]  BY DEF TypeOK, SessionOk
  <1>2. session.n # 0 => session.n \in Conns  BY <1>1, ConnFacts
  <1>3. (IF session.n = 0 THEN 0 ELSE taken[session.n]) \in Nat  BY <1>1, <1>2
  <1>. QED  BY <1>1, <1>3 DEF Now, States

\* What the port holds stays as it should be when the port is left alone.
LEMMA QuietSpool ==
    ASSUME Streaming, Port, UNCHANGED <<port, log, credit, jobStart, handed, taken>>,
           session'.n = session.n, session'.pull = session.pull
    PROVE  Streaming' /\ Port'
  BY DEF Streaming, Port, Now

\* A pull of the session that is out again, or for the first time, was let out by credit.
LEMMA LetOut ==
    ASSUME NEW s, s.pull = 0, NEW others, NEW ok, After(s, others, ok)
    PROVE  session'.pull # 0 => ok
  BY DEF After

\* And when the client hands out one more chunk.
LEMMA HandleSpool ==
    ASSUME TypeOK, Jobs, Streaming, Port, HandlePull
    PROVE  Streaming' /\ Port'
  <1>1. PICK p \in PullType, reply \in ReplyType :
           /\ Repeats(p, reply) \/ Replies(p, reply)
           /\ TypeOK' /\ SameSession
           /\ UNCHANGED <<pulls, credit, port, jobStart, taken, log>>
    BY HandleStep
  <1>2. handed \in [Conns -> Nat] /\ handed' \in [Conns -> Nat]  BY <1>1 DEF TypeOK
  <1>3. ASSUME NEW n \in Conns PROVE handed[n] <= handed'[n]
    <2>1. handed[n] \in Nat  BY <1>2
    <2>2. CASE handed' = handed  BY <2>1, <2>2
    <2>3. CASE handed' = [handed EXCEPT ![client.n] = handed[client.n] + 1]  BY <1>2, <2>1, <2>3
    <2>. QED  BY <1>1, <2>2, <2>3 DEF Repeats, Replies
  <1>4. PICK g \in [Conns -> Nat] : g = handed'  BY <1>2
  <1>5. PICK s : s = Now(session.n, taken)  OBVIOUS
  <1>6. Streams(port, log, handed, s)  BY <1>5 DEF Streaming
  <1>7. port \in PortType  BY DEF TypeOK
  <1>8. \A n \in Conns : handed[n] <= g[n]  BY <1>3, <1>4
  <1>9. Streams(port, log, g, s)  BY <1>2, <1>6, <1>7, <1>8, HandedMore
  <1>10. session'.n = session.n /\ session'.pull = session.pull  BY <1>1 DEF SameSession
  <1>11. s = Now(session'.n, taken')  BY <1>1, <1>5, <1>10
  <1>. QED  BY <1>1, <1>4, <1>9, <1>10, <1>11, SpoolNext DEF Port

\* The kinds of events.
LEMMA EventKinds ==
    ASSUME NEW p \in PortType, NEW l, NEW h, NEW s, Streams(p, l, h, s), Len(p.events) > 0
    PROVE  p.events[1].item.kind \notin {"chunk", "query"}
  <1>1. PICK st \in [0 .. Len(p.events) -> States], z, c \in Nat : Stream(p, l, h, s, st, z, c)  BY DEF Streams
  <1>2. PICK N \in Nat : N = Len(p.events)  BY PortFacts
  <1>3. 1 \in 1 .. N /\ 1 \in 1 .. N + 1  BY <1>2
  <1>4. PICK b \in States : b = Before(st, z, c, 1)  BY <1>1, <1>2, <1>3, BeforeType
  <1>5. PICK e \in ItemType : e = p.events[1].item  BY <1>2, <1>3, PortFacts
  <1>6. MayCome(h, b, e)  BY <1>1, <1>2, <1>3, <1>4, <1>5 DEF Stream, Events
  <1>. QED  BY <1>5, <1>6, ThenType

\* A connection that was not opened: the port and the log know nothing of it.
LEMMA Unopened ==
    ASSUME NEW n, ~Begun(n)
    PROVE  /\ ~Seen(log, "start", n) /\ ~Queried(log, n)
           /\ \A j \in 1 .. Len(port.events) :
                 ~(port.events[j].item.kind = "start" /\ port.events[j].item.conn = n)
  <1>1. ~Seen(log, "start", n)  BY DEF Begun, BegunIn
  <1>2. ~Queried(log, n)
    BY <1>1 DEF Seen, Queried, Spool!Seen, Spool!Queried, Spool!Item
  <1>. QED  BY <1>1, <1>2 DEF Begun, BegunIn

\* A connection that is opened is one more.
LEMMA OpenBegun ==
    ASSUME TypeOK, Port, NEW r, handle_listener_event(r), session = NoSession, r.n \in Conns, r.id = SocketOf[r.n]
    PROVE  \A n : Begun(n)' <=> Begun(n) \/ n = r.n
  <1>1. PICK e \in ItemType : e = Item("start", r.n, 0) /\ port' = Put(port, e) /\ log' = log
    BY OpenStep
  <1>2. e.kind = "start" /\ e.conn = r.n  BY <1>1, ItemFacts
  <1>3. PICK p \in PortType : p = port  BY DEF TypeOK
  <1>4. ASSUME NEW n PROVE BegunIn(Put(p, e), log, n) <=> BegunIn(p, log, n) \/ n = r.n
    BY <1>2, BegunPut
  <1>. QED  BY <1>1, <1>3, <1>4 DEF Begun

\* The start of a connection may come.
LEMMA OpenSpool ==
    ASSUME TypeOK, Counting, Streaming, Port, NEW r, handle_listener_event(r), session = NoSession,
           r.n \in Conns, r.id = SocketOf[r.n], ~Begun(r.n)
    PROVE  Streaming' /\ Port'
  <1>1. PICK e \in ItemType : e = Item("start", r.n, 0) /\ port' = Put(port, e)
    BY OpenStep
  <1>2. /\ After(Session(r.n, r.id), pulls, credit)
        /\ (credit' <=> Held(port') = 0) /\ jobStart' = TRUE
        /\ UNCHANGED <<handed, taken, log>>
    BY OpenStep
  <1>3. e.kind = "start" /\ e.conn = r.n  BY <1>1, ItemFacts
  <1>4. PICK n \in Conns : n = r.n  OBVIOUS
  <1>5. PICK t : t = Session(r.n, r.id)  OBVIOUS
  <1>6. t.n = n /\ t.pull = 0  BY <1>4, <1>5, NewSession
  <1>7. After(t, pulls, credit)  BY <1>2, <1>5
  <1>8. session'.n = n /\ (session'.pull # 0 => credit)  BY <1>6, <1>7, LetOut DEF After
  <1>9. /\ ~Seen(log, "start", n) /\ ~Queried(log, n)
        /\ \A j \in 1 .. Len(port.events) :
              ~(port.events[j].item.kind = "start" /\ port.events[j].item.conn = n)
    BY <1>4, Unopened
  <1>10. port \in PortType  BY DEF TypeOK
  <1>11. PICK s : s = Now(session.n, taken)  OBVIOUS
  <1>12. s.live = 0  BY <1>11, NoSessionOk DEF Now
  <1>13. MayCome(handed, s, e)  BY <1>1, <1>4, <1>12 DEF MayCome
  <1>14. Streams(Put(port, e), log, handed, Then(s, e))
    BY <1>10, <1>11, <1>13, PutEvent DEF Streaming
  <1>15. Then(s, e) = Now(session'.n, taken')
    <2>1. taken[n] = 0  BY <1>4 DEF Counting, Totals
    <2>. QED  BY <1>2, <1>3, <1>4, <1>8, <2>1, ConnFacts DEF Then, Now
  <1>16. PICK b : b = session'.pull  OBVIOUS
  <1>17. PICK cr2 : cr2 = credit'  OBVIOUS
  <1>18. cr2 <=> Held(Put(port, e)) = 0  BY <1>1, <1>2, <1>17
  <1>19. Window(Put(port, e), log, cr2, b)
    BY <1>3, <1>8, <1>10, <1>16, <1>18, PutWindow DEF Port
  <1>20. Quiet(Put(port, e), log, n)  BY <1>1, <1>4, <1>9, <1>10, PutQuiet
  <1>21. Renames(Put(port, e), log, b, TRUE)
    BY <1>3, <1>8, <1>10, <1>16, PutRenames DEF Port
  <1>22. StartsOnce(Put(port, e), log)  BY <1>3, <1>4, <1>9, <1>10, PutStarts DEF Port
  <1>23. PICK p : p = Put(port, e)  OBVIOUS
  <1>24. PICK u : u = Then(s, e)  OBVIOUS
  <1>. QED  BY <1>1, <1>2, <1>8, <1>14, <1>15, <1>16, <1>17, <1>19, <1>20, <1>21, <1>22, <1>23, <1>24, SpoolNext

\* The end of a session opens none.
LEMMA EndBegun ==
    ASSUME TypeOK, Port, Ends
    PROVE  SameBegun
  <1>1. PICK e \in ItemType, q \in PortType :
           /\ e = Item("end", session.n, 0) /\ (q = port \/ q = Put(port, Query))
           /\ port' = Put(q, e) /\ log' = log
    BY EndStep
  <1>2. e.kind # "start"  BY <1>1, ItemFacts
  <1>3. PICK p \in PortType : p = port  BY DEF TypeOK
  <1>4. PICK x \in ItemType : x = Query  BY ItemFacts
  <1>5. x.kind # "start"  BY <1>4, ItemFacts
  <1>6. \A n : BegunIn(Put(p, x), log, n) <=> BegunIn(p, log, n)  BY <1>5, BegunPut
  <1>7. \A n : BegunIn(Put(q, e), log, n) <=> BegunIn(q, log, n)  BY <1>2, BegunPut
  <1>8. \A n : BegunIn(q, log, n) <=> BegunIn(p, log, n)  BY <1>1, <1>3, <1>4, <1>6
  <1>. QED  BY <1>1, <1>3, <1>7, <1>8 DEF SameBegun, Begun

\* The end of a connection may come, behind a query if there is one.
LEMMA EndSpool ==
    ASSUME TypeOK, Streaming, Port, Ends
    PROVE  Streaming' /\ Port'
  <1>1. PICK e \in ItemType, q \in PortType :
           /\ e = Item("end", session.n, 0) /\ (q = port \/ q = Put(port, Query))
           /\ port' = Put(q, e)
    BY EndStep
  <1>2. /\ session.n # 0 /\ session'.n = 0 /\ session'.pull = 0
        /\ (credit' <=> Held(port') = 0) /\ jobStart' = TRUE
        /\ UNCHANGED <<handed, taken, log>>
    BY EndStep
  <1>3. e.kind = "end"  BY <1>1, ItemFacts
  <1>4. port \in PortType  BY DEF TypeOK
  <1>5. PICK s : s = Now(session.n, taken)  OBVIOUS
  <1>6. s.live = session.n  BY <1>5 DEF Now
  <1>7. PICK cr : cr <=> Held(q) = 0  OBVIOUS
  <1>8. PICK pull : pull = IF q = port THEN session.pull ELSE 0  OBVIOUS
  <1>9. /\ Streams(q, log, handed, s)
        /\ Window(q, log, cr, pull) /\ Renames(q, log, pull, jobStart) /\ StartsOnce(q, log)
    <2>1. CASE q = port
      <3>1. (credit <=> Held(port) = 0) /\ Window(port, log, credit, session.pull)  BY DEF Port, Window
      <3>2. Window(port, log, cr, session.pull)  BY <1>7, <2>1, <3>1 DEF Window
      <3>. QED  BY <1>5, <1>8, <2>1, <3>2 DEF Streaming, Port
    <2>2. CASE q # port
      <3>1. PICK x \in ItemType : x = Query /\ x.kind = "query"  BY ItemFacts
      <3>2. q = Put(port, x) /\ pull = 0  BY <1>1, <1>8, <2>2, <3>1
      <3>3. Streams(port, log, handed, s)  BY <1>5 DEF Streaming
      <3>4. Streams(Put(port, Query), log, handed, s)  BY <1>4, <3>3, PutQuery
      <3>5. cr <=> Held(Put(port, x)) = 0  BY <1>7, <3>2
      <3>6. Window(Put(port, x), log, cr, pull)  BY <1>4, <3>1, <3>2, <3>5, PutWindow DEF Port
      <3>7. Renames(Put(port, x), log, pull, jobStart)  BY <1>4, <3>1, <3>2, PutRenames DEF Port
      <3>8. StartsOnce(Put(port, x), log)  BY <1>4, <3>1, PutStarts DEF Port
      <3>. QED  BY <3>1, <3>2, <3>4, <3>6, <3>7, <3>8
    <2>. QED  BY <2>1, <2>2
  <1>10. MayCome(handed, s, e)  BY <1>1, <1>2, <1>6 DEF MayCome
  <1>11. Streams(Put(q, e), log, handed, Then(s, e))  BY <1>9, <1>10, PutEvent
  <1>12. Then(s, e) = Now(session'.n, taken')  BY <1>2, <1>3 DEF Then, Now
  <1>13. PICK b : b = session'.pull  OBVIOUS
  <1>14. PICK cr2 : cr2 = credit'  OBVIOUS
  <1>15. cr2 <=> Held(Put(q, e)) = 0  BY <1>1, <1>2, <1>14
  <1>16. b = 0  BY <1>2, <1>13
  <1>17. Window(Put(q, e), log, cr2, b)  BY <1>3, <1>9, <1>15, <1>16, PutWindow
  <1>18. Renames(Put(q, e), log, b, TRUE)  BY <1>3, <1>9, <1>16, PutRenames
  <1>19. StartsOnce(Put(q, e), log)  BY <1>3, <1>9, PutStarts
  <1>20. Quiet(Put(q, e), log, 0)  BY DEF Quiet
  <1>21. PICK p : p = Put(q, e)  OBVIOUS
  <1>22. PICK u : u = Then(s, e)  OBVIOUS
  <1>. QED  BY <1>1, <1>2, <1>11, <1>12, <1>13, <1>14, <1>17, <1>18, <1>19, <1>20, <1>21, <1>22, SpoolNext

\* A reply opens no connection.
LEMMA TakenBegun ==
    ASSUME TypeOK, Port, NEW m, Taken(m), NextReply(m.reply)
    PROVE  SameBegun
  <1>1. PICK p \in PortType : p = port  BY DEF TypeOK
  <1>2. CASE port' = port  BY <1>2, TakenStep, KeptBegun
  <1>3. ASSUME NEW e \in ItemType, port' = Put(port, e), e.kind # "start" PROVE SameBegun
    <2>1. \A n : BegunIn(Put(p, e), log, n) <=> BegunIn(p, log, n)  BY <1>3, BegunPut
    <2>2. log' = log  BY TakenStep
    <2>. QED  BY <1>1, <1>3, <2>1, <2>2 DEF SameBegun, Begun
  <1>4. ASSUME NEW k \in {"eof", "chunk", "rename"}, NEW i, Item(k, session.n, i) \in ItemType,
               port' = Put(port, Item(k, session.n, i))
        PROVE  SameBegun
    <2>1. PICK e \in ItemType : e = Item(k, session.n, i)  BY <1>4
    <2>2. e.kind # "start"  BY <2>1, ItemFacts
    <2>. QED  BY <1>3, <1>4, <2>1, <2>2
  <1>5. CASE /\ Item("eof", session.n, 0) \in ItemType
             /\ port' = Put(port, Item("eof", session.n, 0))
    BY <1>4, <1>5
  <1>6. CASE \E k \in {"chunk", "rename"} :
               /\ Item(k, session.n, taken[session.n] + 1) \in ItemType
               /\ port' = Put(port, Item(k, session.n, taken[session.n] + 1))
    <2>1. PICK k \in {"chunk", "rename"} :
               /\ Item(k, session.n, taken[session.n] + 1) \in ItemType
               /\ port' = Put(port, Item(k, session.n, taken[session.n] + 1))
      BY <1>6
    <2>2. PICK i : i = taken[session.n] + 1  OBVIOUS
    <2>. QED  BY <1>4, <2>1, <2>2
  <1>7. \/ port' = port
        \/ /\ Item("eof", session.n, 0) \in ItemType
           /\ port' = Put(port, Item("eof", session.n, 0))
        \/ \E k \in {"chunk", "rename"} :
               /\ Item(k, session.n, taken[session.n] + 1) \in ItemType
               /\ port' = Put(port, Item(k, session.n, taken[session.n] + 1))
    BY TakenStep
  <1>. QED  BY <1>2, <1>5, <1>6, <1>7

\* A chunk, a rename or an end of job that is taken may come.
LEMMA TakenSpool ==
    ASSUME TypeOK, Counting, Streaming, Port, NEW m, Taken(m), NextReply(m.reply)
    PROVE  Streaming' /\ Port'
  <1>1. /\ session.n \in Conns /\ session.pull # 0
        /\ After(Accept(session, m.reply), pulls, credit)
        /\ (credit' <=> Held(port') = 0)
        /\ UNCHANGED <<handed, log>>
    BY TakenStep
  <1>2. port \in PortType /\ SessionOk(session) /\ session.n # 0
        /\ handed \in [Conns -> Nat] /\ taken \in [Conns -> Nat]
    BY <1>1, ConnFacts DEF TypeOK
  <1>3. PICK t : t = Accept(session, m.reply)  OBVIOUS
  <1>4. t.n = session.n /\ t.pull = 0  BY <1>2, <1>3, AcceptSession
  <1>5. After(t, pulls, credit)  BY <1>1, <1>3
  <1>6. session'.n = session.n /\ (session'.pull # 0 => credit)  BY <1>4, <1>5, LetOut DEF After
  <1>7. PICK n \in Conns : n = session.n  BY <1>1
  <1>8. PICK i \in Nat : i = taken[n]  BY <1>2
  <1>9. PICK s : s = Now(session.n, taken)  OBVIOUS
  <1>10. s.live = n /\ s.out = i /\ n # 0 /\ s = [live |-> n, out |-> i]
    BY <1>2, <1>7, <1>8, <1>9 DEF Now
  <1>11. Streams(port, log, handed, s)  BY <1>9 DEF Streaming
  <1>12. PICK pull : pull = session.pull  OBVIOUS
  <1>13. /\ Window(port, log, credit, pull) /\ Quiet(port, log, n)
         /\ Renames(port, log, pull, jobStart) /\ StartsOnce(port, log) /\ pull # 0
    BY <1>1, <1>7, <1>12 DEF Port
  <1>14. PICK b : b = session'.pull  OBVIOUS
  <1>15. PICK cr2 : cr2 = credit'  OBVIOUS
  <1>16. i <= handed[n] /\ handed[n] \in Nat  BY <1>2, <1>7, <1>8 DEF Counting, Totals
  <1>17. (session.bytes > 0 => i > 0) /\ (jobStart => i % JobLen = 0)
    BY <1>2, <1>7, <1>8 DEF Counting, SoFar
  <1>18. ASSUME NEW e \in ItemType, e.kind \in {"chunk", "rename", "eof"}, port' = Put(port, e),
                e.kind = "chunk" => ~jobStart',
                e.kind = "rename" => jobStart, e.conn = n
         PROVE  /\ Window(Put(port, e), log, cr2, b) /\ Quiet(Put(port, e), log, n)
                /\ Renames(Put(port, e), log, b, jobStart') /\ StartsOnce(Put(port, e), log)
    <2>1. cr2 <=> Held(Put(port, e)) = 0  BY <1>1, <1>15, <1>18
    <2>2. b # 0 => credit /\ e.kind # "query"  BY <1>6, <1>14, <1>18
    <2>3. Window(Put(port, e), log, cr2, b)  BY <1>2, <1>13, <2>1, <2>2, PutWindow
    <2>4. Quiet(Put(port, e), log, n)
      <3>1. \A x \in 1 .. Len(port.queue) : port.queue[x].kind = "chunk"  BY <1>13 DEF Window
      <3>2. e.kind # "query"  BY <1>18
      <3>. QED  BY <1>2, <1>13, <3>1, <3>2, PutQuiet
    <2>5. Renames(Put(port, e), log, b, jobStart')
      <3>1. e.kind = "rename" => Held(port) = 0 /\ ~Queried(log, e.conn)
        BY <1>10, <1>13, <1>18 DEF Renames, Quiet
      <3>2. PICK start2 : start2 = jobStart'  OBVIOUS
      <3>3. e.kind = "chunk" => ~start2  BY <1>18, <3>2
      <3>4. Renames(Put(port, e), log, b, start2)  BY <1>2, <1>13, <2>2, <3>1, <3>3, PutRenames
      <3>. QED  BY <3>2, <3>4
    <2>6. StartsOnce(Put(port, e), log)  BY <1>2, <1>13, <1>18, PutStarts
    <2>. QED  BY <2>3, <2>4, <2>5, <2>6
  <1>19. ASSUME NEW e \in ItemType, e.kind \in {"chunk", "rename", "eof"}, port' = Put(port, e),
                e.kind = "chunk" => ~jobStart',
                e.kind = "rename" => jobStart, e.conn = n,
                NEW u, u = Now(session'.n, taken'), Streams(Put(port, e), log, handed, u)
         PROVE  Streaming' /\ Port'
    <2>1. PICK p : p = Put(port, e)  OBVIOUS
    <2>2. PICK start2 : start2 = jobStart'  OBVIOUS
    <2>3. /\ Window(p, log, cr2, b) /\ Quiet(p, log, n)
          /\ Renames(p, log, b, start2) /\ StartsOnce(p, log)
      BY <1>18, <1>19, <2>1, <2>2
    <2>4. p = port' /\ Streams(p, log, handed, u)  BY <1>19, <2>1
    <2>. QED  BY <1>1, <1>6, <1>7, <1>14, <1>15, <1>19, <2>2, <2>3, <2>4, SpoolNext
  <1>20. CASE m.reply = EofReply /\ session.bytes = 0 /\ port' = port /\ jobStart' = jobStart /\ taken' = taken
    <2>1. Window(port, log, cr2, b)
      <3>1. cr2 <=> Held(port) = 0  BY <1>1, <1>15, <1>20
      <3>2. b # 0 => credit  BY <1>6, <1>14
      <3>. QED  BY <1>13, <3>1, <3>2 DEF Window
    <2>2. Renames(port, log, b, jobStart)
      <3>1. b # 0 => Held(port) = 0  BY <1>6, <1>13, <1>14 DEF Window
      <3>. QED  BY <1>13, <3>1 DEF Renames
    <2>. QED  BY <1>1, <1>6, <1>7, <1>9, <1>11, <1>13, <1>14, <1>15, <1>20, <2>1, <2>2, SpoolNext
  <1>21. CASE /\ m.reply = EofReply /\ session.bytes > 0
              /\ Item("eof", session.n, 0) \in ItemType
              /\ port' = Put(port, Item("eof", session.n, 0)) /\ jobStart' = TRUE /\ taken' = taken
    <2>1. PICK e \in ItemType : e = Item("eof", n, 0)  BY <1>7, <1>21
    <2>2. e.kind = "eof" /\ e.conn = n  BY <2>1, ItemFacts
    <2>3. i % JobLen = 0
      <3>1. m.reply.eof = TRUE  BY <1>21 DEF EofReply
      <3>. QED  BY <1>7, <1>8, <3>1 DEF NextReply, ChunkReply
    <2>4. MayCome(handed, s, e)  BY <1>10, <1>16, <1>17, <1>21, <2>1, <2>3 DEF MayCome
    <2>5. Streams(Put(port, e), log, handed, Then(s, e))  BY <1>2, <1>11, <2>4, PutEvent
    <2>6. Then(s, e) = Now(session'.n, taken')
      BY <1>6, <1>7, <1>8, <1>10, <1>21, <2>2 DEF Then, Now
    <2>7. PICK u : u = Then(s, e)  OBVIOUS
    <2>8. port' = Put(port, e)  BY <1>7, <1>21, <2>1
    <2>. QED  BY <1>19, <2>2, <2>5, <2>6, <2>7, <2>8
  <1>22. CASE /\ m.reply = ChunkReply(session.n, taken[session.n] + 1)
              /\ \E k \in {"chunk", "rename"} :
                    /\ Item(k, session.n, taken[session.n] + 1) \in ItemType
                    /\ port' = Put(port, Item(k, session.n, taken[session.n] + 1))
                    /\ k = "rename" => jobStart
              /\ jobStart' = FALSE
              /\ taken' = [taken EXCEPT ![session.n] = taken[session.n] + 1]
    <2>1. PICK k \in {"chunk", "rename"}, e \in ItemType :
             e = Item(k, n, i + 1) /\ port' = Put(port, e) /\ (k = "rename" => jobStart)
      BY <1>7, <1>8, <1>22
    <2>2. e.kind = k /\ e.conn = n /\ e.num = i + 1  BY <2>1, ItemFacts
    <2>3. i + 1 <= handed[n]
      <3>1. m.reply.eof = FALSE  BY <1>22 DEF ChunkReply
      <3>2. handed[n] = i + 1  BY <1>7, <1>8, <3>1 DEF NextReply, EofReply
      <3>. QED  BY <3>2
    <2>4. Now(session'.n, taken') = [live |-> n, out |-> i + 1]
      <3>1. taken'[n] = i + 1  BY <1>2, <1>7, <1>8, <1>22
      <3>. QED  BY <1>6, <1>7, <1>10, <3>1 DEF Now
    <2>5. PICK u : u = [live |-> n, out |-> i + 1]  OBVIOUS
    <2>6. Streams(Put(port, e), log, handed, u)
      <3>1. CASE k = "chunk"
        <4>1. e = Item("chunk", s.live, s.out + 1)  BY <1>10, <2>1, <3>1
        <4>2. /\ \A j \in 1 .. Len(port.events) : port.events[j].ahead = 0
              /\ \A j \in 1 .. Len(port.queue) : port.queue[j].kind = "chunk"
          BY <1>13 DEF Window
        <4>3. s.live # 0 /\ s.out + 1 <= handed[s.live] /\ ~Queried(log, s.live)
          BY <1>10, <1>13, <2>3 DEF Quiet
        <4>4. Streams(Put(port, e), log, handed, More(s, 1))  BY <1>2, <1>11, <4>1, <4>2, <4>3, PutChunk
        <4>5. More(s, 1) = u  BY <1>10, <2>5 DEF More
        <4>. QED  BY <4>4, <4>5
      <3>2. CASE k = "rename"
        <4>1. MayCome(handed, s, e)  BY <1>10, <1>17, <2>1, <2>3, <3>2 DEF MayCome
        <4>2. Streams(Put(port, e), log, handed, Then(s, e))  BY <1>2, <1>11, <4>1, PutEvent
        <4>3. Then(s, e) = u  BY <1>10, <2>2, <2>5, <3>2 DEF Then
        <4>. QED  BY <4>2, <4>3
      <3>. QED  BY <3>1, <3>2
    <2>7. ~jobStart'  BY <1>22
    <2>. QED  BY <1>19, <2>1, <2>2, <2>4, <2>5, <2>6, <2>7
  <1>. QED  BY <1>20, <1>21, <1>22, TakenStep

\* With nothing held a pull may be out.
LEMMA EmptyWindow ==
    ASSUME NEW p \in PortType, NEW l, NEW cr, NEW pull, NEW start,
           Window(p, l, cr, pull), Renames(p, l, pull, start),
           NEW cr2, cr2 <=> Held(p) = 0, NEW b, b # 0 => Held(p) = 0
    PROVE  Window(p, l, cr2, b) /\ Renames(p, l, b, start)
  <1>1. /\ Len(p.queue) \in Nat /\ p.writing \in Nat /\ Held(p) = Len(p.queue) + p.writing
        /\ \A j \in 1 .. Len(p.events) : p.events[j].ahead \in Nat
    BY PortFacts
  <1>2. b # 0 => Held(p) = 0 /\ Len(p.queue) = 0  BY <1>1
  <1>3. b # 0 => Held(p) <= 1 /\ \A i \in 1 .. Len(p.queue) : p.queue[i].kind = "chunk"  BY <1>2
  <1>4. ASSUME b # 0, NEW j \in 1 .. Len(p.events) PROVE p.events[j].ahead = 0
    <2>1. p.events[j].ahead \in Nat /\ p.events[j].ahead <= Held(p)  BY <1>1 DEF Window
    <2>. QED  BY <1>2, <1>4, <2>1
  <1>5. Window(p, l, cr2, b)  BY <1>3, <1>4 DEF Window
  <1>6. Renames(p, l, b, start)  BY DEF Renames
  <1>. QED  BY <1>5, <1>6

\* The failure of a pull puts nothing into the port.
LEMMA FailSpool ==
    ASSUME TypeOK, Streaming, Port, PullFails
    PROVE  Streaming' /\ Port'
  <1>1. /\ (credit' <=> Held(port) = 0)
        /\ UNCHANGED <<port, jobStart, handed, taken, log>>
    BY PullFailsStep
  <1>2. PICK s : /\ s.n = session.n /\ s.pull = 0
                 /\ After(s, {p \in pulls : p.tid # session.pull}, credit)
    BY PullFailsStep
  <1>3. PICK others : others = {p \in pulls : p.tid # session.pull}  OBVIOUS
  <1>4. After(s, others, credit)  BY <1>2, <1>3
  <1>5. session'.n = session.n /\ (session'.pull # 0 => credit)  BY <1>2, <1>4, LetOut DEF After
  <1>6. PICK b : b = session'.pull  OBVIOUS
  <1>7. PICK cr2 : cr2 = credit'  OBVIOUS
  <1>8. b # 0 => Held(port) = 0  BY <1>5, <1>6 DEF Port, Window
  <1>9. cr2 <=> Held(port) = 0  BY <1>1, <1>7
  <1>10. port \in PortType  BY DEF TypeOK
  <1>11. Window(port, log, cr2, b) /\ Renames(port, log, b, jobStart)
    BY <1>8, <1>9, <1>10, EmptyWindow DEF Port
  <1>12. PICK u : u = Now(session.n, taken)  OBVIOUS
  <1>13. Streams(port, log, handed, u) /\ Quiet(port, log, session.n) /\ StartsOnce(port, log)
    BY <1>12 DEF Streaming, Port
  <1>. QED  BY <1>1, <1>5, <1>6, <1>7, <1>11, <1>12, <1>13, SpoolNext

\* The return of a write opens no connection.
LEMMA ReturnBegun ==
    ASSUME TypeOK, WriteReturns
    PROVE  SameBegun
  <1>1. port' = Written(port) /\ log' = log /\ port \in PortType  BY ReturnStep DEF TypeOK
  <1>2. \A n : BegunIn(Written(port), log, n) <=> BegunIn(port, log, n)  BY <1>1, BegunReturn
  <1>. QED  BY <1>1, <1>2 DEF SameBegun, Begun

\* The return of a write puts nothing into the port, and may let a pull out.
LEMMA ReturnSpool ==
    ASSUME TypeOK, Streaming, Port, WriteReturns
    PROVE  Streaming' /\ Port'
  <1>1. /\ port.writing > 0 /\ port' = Written(port)
        /\ (credit' <=> Held(port') = 0)
        /\ After(session, pulls, Held(port') = 0)
        /\ UNCHANGED <<jobStart, handed, taken, log>>
    BY ReturnStep
  <1>2. port \in PortType  BY DEF TypeOK
  <1>3. PICK q : q = Written(port)  OBVIOUS
  <1>4. PICK b : b = session'.pull  OBVIOUS
  <1>5. PICK cr2 : cr2 = credit'  OBVIOUS
  <1>6. PICK s : s = session  OBVIOUS
  <1>7. PICK ok : ok = (Held(port') = 0)  OBVIOUS
  <1>8. After(s, pulls, ok)  BY <1>1, <1>6, <1>7
  <1>9. session'.n = session.n /\ (b = session.pull \/ (b # session.pull /\ ok))  BY <1>4, <1>6, <1>8 DEF After
  <1>10. b = session.pull \/ b = 0 \/ Held(q) = 0  BY <1>1, <1>3, <1>7, <1>9
  <1>11. cr2 <=> Held(q) = 0  BY <1>1, <1>3, <1>5
  <1>12. /\ q \in PortType /\ q.queue = port.queue /\ q.writing = 0
         /\ Len(q.events) = Len(port.events)
         /\ \A j \in 1 .. Len(port.events) :
              /\ q.events[j].item = port.events[j].item
              /\ q.events[j].ahead =
                    IF port.events[j].ahead > port.writing THEN port.events[j].ahead - port.writing ELSE 0
    BY <1>2, <1>3, WrittenPort
  <1>13. PICK pull : pull = session.pull  OBVIOUS
  <1>14. PICK n : n = session.n  OBVIOUS
  <1>15. /\ Window(port, log, credit, pull) /\ Quiet(port, log, n) /\ Renames(port, log, pull, jobStart)
         /\ StartsOnce(port, log)
    BY <1>13, <1>14 DEF Port
  <1>16. b = pull \/ b = 0 \/ Held(q) = 0  BY <1>10, <1>13
  <1>17. /\ Window(q, log, cr2, b) /\ Quiet(q, log, n) /\ Renames(q, log, b, jobStart) /\ StartsOnce(q, log)
    BY <1>1, <1>2, <1>11, <1>12, <1>15, <1>16, ReturnPort
  <1>18. PICK u : u = Now(session.n, taken)  OBVIOUS
  <1>19. Streams(port, log, handed, u)  BY <1>18 DEF Streaming
  <1>20. Streams(Written(port), log, handed, u)  BY <1>2, <1>19, WrittenStream
  <1>. QED  BY <1>1, <1>3, <1>4, <1>5, <1>9, <1>14, <1>17, <1>18, <1>20, SpoolNext

\* A query opens no connection.
LEMMA PollBegun ==
    ASSUME TypeOK, poll_ident_due
    PROVE  SameBegun
  <1>1. port' = Put(port, Query) /\ log' = log /\ port \in PortType  BY PollStep DEF TypeOK
  <1>2. PICK x \in ItemType : x = Query /\ x.kind # "start"  BY ItemFacts
  <1>3. \A n : BegunIn(Put(port, x), log, n) <=> BegunIn(port, log, n)  BY <1>1, <1>2, BegunPut
  <1>. QED  BY <1>1, <1>2, <1>3 DEF SameBegun, Begun

\* A query may come while there is no session.
LEMMA PollSpool ==
    ASSUME TypeOK, Pulling, Streaming, Port, poll_ident_due
    PROVE  Streaming' /\ Port'
  <1>1. /\ session.n = 0 /\ SameSession
        /\ port' = Put(port, Query) /\ credit' = FALSE
        /\ UNCHANGED <<jobStart, handed, taken, log>>
    BY PollStep
  <1>2. port \in PortType  BY DEF TypeOK
  <1>3. session'.n = 0 /\ session'.n = session.n /\ session'.pull = 0  BY <1>1 DEF SameSession, Pulling
  <1>4. PICK x \in ItemType : x = Query /\ x.kind = "query"  BY ItemFacts
  <1>5. PICK b : b = 0  OBVIOUS
  <1>6. PICK cr2 : cr2 = credit'  OBVIOUS
  <1>7. cr2 <=> Held(Put(port, x)) = 0
    <2>1. Held(Put(port, x)) = Held(port) + 1 /\ Held(port) \in Nat  BY <1>2, <1>4, PutFacts, PortFacts
    <2>. QED  BY <1>1, <1>6, <2>1
  <1>8. Window(Put(port, x), log, cr2, b)  BY <1>2, <1>4, <1>5, <1>7, PutWindow DEF Port
  <1>9. Renames(Put(port, x), log, b, jobStart)  BY <1>2, <1>4, <1>5, PutRenames DEF Port
  <1>10. StartsOnce(Put(port, x), log)  BY <1>2, <1>4, PutStarts DEF Port
  <1>11. Quiet(Put(port, x), log, 0)  BY DEF Quiet
  <1>12. PICK u : u = Now(session.n, taken)  OBVIOUS
  <1>13. Streams(port, log, handed, u)  BY <1>12 DEF Streaming
  <1>14. Streams(Put(port, Query), log, handed, u)  BY <1>2, <1>13, PutQuery
  <1>15. PICK p : p = Put(port, x)  OBVIOUS
  <1>. QED  BY <1>1, <1>3, <1>4, <1>5, <1>6, <1>8, <1>9, <1>10, <1>11, <1>12, <1>14, <1>15, SpoolNext

\* Reporting opens no connection.
LEMMA ReportBegun ==
    ASSUME TypeOK, Report
    PROVE  SameBegun
  <1>1. /\ Len(port.events) > 0 /\ Len(port'.events) = Len(port.events) - 1
        /\ \A j \in 1 .. Len(port'.events) : port'.events[j] = port.events[j + 1]
        /\ Longer(log', log) /\ Len(log') = Len(log) + 1 /\ log'[Len(log) + 1] = port.events[1].item
    BY ReportStep
  <1>2. PICK q, k : q = port' /\ k = log'  OBVIOUS
  <1>3. port \in PortType  BY DEF TypeOK
  <1>4. \A n : BegunIn(q, k, n) <=> BegunIn(port, log, n)  BY <1>1, <1>2, <1>3, BegunReport
  <1>. QED  BY <1>2, <1>4 DEF SameBegun, Begun

\* What is reported may come next in the log of PrintSpool.
LEMMA ReportSpool ==
    ASSUME TypeOK, Streaming, Port, Report
    PROVE  /\ Streaming' /\ Port'
           /\ \E e : Len(log') = Len(log) + 1 /\ log'[Len(log) + 1] = e /\ Spool!MayFollow(log, e)
  <1>1. /\ TypeOK' /\ SameSession
        /\ port.writing = 0 /\ Len(port.events) > 0 /\ port.events[1].ahead = 0
        /\ port'.queue = port.queue /\ port'.writing = port.writing /\ port'.events = Tail(port.events)
        /\ Len(port'.events) = Len(port.events) - 1
        /\ \A j \in 1 .. Len(port'.events) : port'.events[j] = port.events[j + 1]
        /\ Longer(log', log) /\ Len(log') = Len(log) + 1 /\ log'[Len(log) + 1] = port.events[1].item
        /\ UNCHANGED <<credit, jobStart, handed, taken>>
    BY ReportStep
  <1>2. port \in PortType /\ log \in Seq(ItemType) /\ handed \in [Conns -> Nat]  BY DEF TypeOK
  <1>3. PICK q \in PortType : q = port'  BY <1>1 DEF TypeOK
  <1>4. PICK k : k = log'  OBVIOUS
  <1>5. PICK e : e = port.events[1].item  OBVIOUS
  <1>6. 1 \in 1 .. Len(port.events)
    <2>1. Len(port.events) \in Nat  BY <1>2, PortFacts
    <2>. QED  BY <1>1, <2>1
  <1>7. e.kind = "start" => ~Seen(log, "start", e.conn)  BY <1>5, <1>6 DEF Port, StartsOnce
  <1>8. e.kind = "rename" => ~Queried(log, e.conn)  BY <1>5, <1>6 DEF Port, Renames
  <1>9. PICK u : u = Now(session.n, taken)  OBVIOUS
  <1>10. Streams(port, log, handed, u)  BY <1>9 DEF Streaming
  <1>11. e.kind # "query"  BY <1>1, <1>2, <1>5, <1>10, EventKinds
  <1>12. /\ q.queue = port.queue /\ q.writing = port.writing /\ q.events = Tail(port.events)
         /\ Len(q.events) = Len(port.events) - 1
         /\ \A j \in 1 .. Len(q.events) : q.events[j] = port.events[j + 1]
         /\ Longer(k, log) /\ Len(k) = Len(log) + 1 /\ k[Len(log) + 1] = e
    BY <1>1, <1>3, <1>4, <1>5
  <1>13. Spool!MayFollow(log, e) /\ Streams(q, k, handed, u)
    BY <1>1, <1>2, <1>5, <1>7, <1>8, <1>10, <1>12, ReportStream
  <1>14. PICK pull, n : pull = session.pull /\ n = session.n  OBVIOUS
  <1>15. /\ Window(port, log, credit, pull) /\ Quiet(port, log, n) /\ Renames(port, log, pull, jobStart)
         /\ StartsOnce(port, log)
    BY <1>14 DEF Port
  <1>16. /\ Window(q, k, credit, pull) /\ Quiet(q, k, n) /\ Renames(q, k, pull, jobStart) /\ StartsOnce(q, k)
    BY <1>1, <1>2, <1>5, <1>11, <1>12, <1>15, ReportPort
  <1>17. session'.n = n /\ session'.pull = pull /\ u = Now(session'.n, taken')
    BY <1>1, <1>9, <1>14 DEF SameSession
  <1>18. Streaming' /\ Port'  BY <1>1, <1>3, <1>4, <1>13, <1>16, <1>17, SpoolNext
  <1>. QED  BY <1>1, <1>5, <1>13, <1>18

\* Writing opens no connection.
LEMMA WriteBegun ==
    ASSUME TypeOK, Streaming, WriteStarts
    PROVE  SameBegun
  <1>1. PICK w \in 1 .. Len(port.queue) :
           /\ Longer(log', log) /\ Len(log') = Len(log) + w
           /\ \A i \in 1 .. w : log'[Len(log) + i] = port.queue[i]
           /\ port'.events = port.events
    BY WriteStep
  <1>2. PICK q, k : q = port' /\ k = log'  OBVIOUS
  <1>3. port \in PortType  BY DEF TypeOK
  <1>4. PICK u : u = Now(session.n, taken)  OBVIOUS
  <1>5. Streams(port, log, handed, u)  BY <1>4 DEF Streaming
  <1>6. \A i \in 1 .. Len(port.queue) : port.queue[i].kind \in {"chunk", "query"}  BY <1>3, <1>5, QueueKinds
  <1>7. \A n : BegunIn(q, k, n) <=> BegunIn(port, log, n)  BY <1>1, <1>2, <1>3, <1>6, BegunWrite
  <1>. QED  BY <1>2, <1>7 DEF SameBegun, Begun

\* What is written may come next in the log of PrintSpool.
LEMMA WriteSpool ==
    ASSUME TypeOK, Streaming, Port, WriteStarts
    PROVE  /\ Streaming' /\ Port' /\ Longer(log', log) /\ Len(log') > Len(log)
           /\ \A j \in Len(log) + 1 .. Len(log') : Spool!MayFollow(SubSeq(log', 1, j - 1), log'[j])
  <1>1. /\ TypeOK' /\ SameSession
        /\ port.writing = 0 /\ (Len(port.events) > 0 => port.events[1].ahead # 0)
        /\ UNCHANGED <<credit, jobStart, handed, taken>>
    BY WriteStep
  <1>2. port \in PortType /\ log \in Seq(ItemType) /\ handed \in [Conns -> Nat]  BY DEF TypeOK
  <1>3. PICK q \in PortType : q = port'  BY <1>1 DEF TypeOK
  <1>4. PICK k : k = log'  OBVIOUS
  <1>5. PICK w \in 1 .. Len(port.queue) :
           /\ Longer(k, log) /\ Len(k) = Len(log) + w
           /\ \A i \in 1 .. w : k[Len(log) + i] = port.queue[i]
           /\ q.writing = w /\ q.events = port.events
           /\ Len(q.queue) = Len(port.queue) - w
           /\ \A i \in 1 .. Len(port.queue) - w : q.queue[i] = port.queue[w + i]
    BY <1>3, <1>4, WriteStep
  <1>6. PICK u : u = Now(session.n, taken)  OBVIOUS
  <1>7. Streams(port, log, handed, u)  BY <1>6 DEF Streaming
  <1>8. /\ \A j \in Len(log) + 1 .. Len(k) : Spool!MayFollow(SubSeq(k, 1, j - 1), k[j])
        /\ Streams(q, k, handed, u)
    BY <1>1, <1>2, <1>5, <1>7, WriteStream
  <1>9. \A i \in 1 .. Len(port.queue) : port.queue[i].kind \in {"chunk", "query"}  BY <1>2, <1>7, QueueKinds
  <1>10. PICK pull, n : pull = session.pull /\ n = session.n  OBVIOUS
  <1>11. /\ Window(port, log, credit, pull) /\ Quiet(port, log, n) /\ Renames(port, log, pull, jobStart)
         /\ StartsOnce(port, log)
    BY <1>10 DEF Port
  <1>12. /\ Window(q, k, credit, pull) /\ Quiet(q, k, n) /\ Renames(q, k, pull, jobStart) /\ StartsOnce(q, k)
    <2>1. port.writing = 0 /\ (Len(port.events) > 0 => port.events[1].ahead # 0)  BY <1>1
    <2>2. PICK p \in PortType : p = port  BY <1>2
    <2>3. PICK cr, start : cr = credit /\ start = jobStart  OBVIOUS
    <2>4. Window(p, log, cr, pull) /\ Quiet(p, log, n) /\ Renames(p, log, pull, start) /\ StartsOnce(p, log)
      BY <1>11, <2>2, <2>3
    <2>5. /\ p.writing = 0 /\ (Len(p.events) > 0 => p.events[1].ahead # 0)
          /\ \A i \in 1 .. Len(p.queue) : p.queue[i].kind \in {"chunk", "query"}
          /\ w \in 1 .. Len(p.queue) /\ \A i \in 1 .. w : k[Len(log) + i] = p.queue[i]
          /\ q.events = p.events /\ Len(q.queue) = Len(p.queue) - w
          /\ \A i \in 1 .. Len(p.queue) - w : q.queue[i] = p.queue[w + i]
          /\ Longer(k, log) /\ Len(k) = Len(log) + w /\ q.writing = w /\ q \in PortType
      BY <1>3, <1>5, <1>9, <2>1, <2>2
    <2>6. Wrote(p, log, w, k, q)  BY <2>5 DEF Wrote
    <2>7. /\ Window(q, k, cr, pull) /\ Quiet(q, k, n) /\ Renames(q, k, pull, start) /\ StartsOnce(q, k)
      BY <2>2, <2>4, <2>6, WritePort
    <2>. QED  BY <2>3, <2>7
  <1>13. session'.n = n /\ session'.pull = pull /\ u = Now(session'.n, taken')
    BY <1>1, <1>6, <1>10 DEF SameSession
  <1>14. Streaming' /\ Port'  BY <1>1, <1>3, <1>4, <1>8, <1>12, <1>13, SpoolNext
  <1>15. Len(k) > Len(log)
    <2>1. Len(port.queue) \in Nat /\ Len(log) \in Nat  BY <1>2, PortFacts
    <2>. QED  BY <1>5, <2>1
  <1>. QED  BY <1>4, <1>5, <1>8, <1>14, <1>15

-----------------------------------------------------------------------------
(* Every step keeps the invariant *)

\* Bookkeeping keeps the invariant.
LEMMA BookkeepingInv ==
    ASSUME IInv, Bookkeeping
    PROVE  IInv'
  <1>1. TypeOK /\ Opening /\ Pulling /\ Counting /\ Streaming /\ Port  BY DEF IInv
  <1>2. TypeOK' /\ Still /\ UNCHANGED <<client, inbox, pulls>>  BY <1>1, BookkeepingStep
  <1>3. /\ SameSession /\ UNCHANGED <<replies, credit, port, jobStart, handed, taken, log>>
        /\ session'.n = session.n /\ session'.seq = session.seq /\ session'.bytes = session.bytes
        /\ session'.pull = session.pull
    BY <1>2 DEF Still, SameSession
  <1>4. MoreBegun  BY <1>3, KeptBegun, SameMore
  <1>5. Opening'  BY <1>1, BookkeepingOpening
  <1>6. Pulling'
    <2>1. replies' \in SUBSET replies /\ pulls' \in SUBSET pulls  BY <1>2, <1>3
    <2>2. Here => Here'  BY <1>2 DEF Here
    <2>. QED  BY <1>1, <1>2, <1>3, <1>4, <2>1, <2>2, KeptPulling
  <1>7. Counting'  BY <1>1, <1>2, <1>3, <1>4, QuietCounting
  <1>8. Streaming' /\ Port'  BY <1>1, <1>3, QuietSpool
  <1>. QED  BY <1>2, <1>5, <1>6, <1>7, <1>8 DEF IInv

\* The client's own steps keep the invariant.
LEMMA ProceedsInv ==
    ASSUME IInv, Proceeds
    PROVE  IInv'
  <1>1. TypeOK /\ Opening /\ Pulling /\ Counting /\ Streaming /\ Port  BY DEF IInv
  <1>2. TypeOK' /\ Still /\ UNCHANGED <<inbox, pulls>> /\ Here /\ Here' /\ client'.id = client.id
    BY <1>1, ProceedsStep
  <1>3. /\ SameSession /\ UNCHANGED <<replies, credit, port, jobStart, handed, taken, log>>
        /\ session'.n = session.n /\ session'.pull = session.pull
    BY <1>2 DEF Still, SameSession
  <1>4. MoreBegun  BY <1>3, KeptBegun, SameMore
  <1>5. Opening'  BY <1>1, ProceedsOpening
  <1>6. Pulling'
    <2>1. replies' \in SUBSET replies /\ pulls' \in SUBSET pulls  BY <1>2, <1>3
    <2>. QED  BY <1>1, <1>2, <1>3, <1>4, <2>1, KeptPulling
  <1>7. Counting'  BY <1>1, ProceedsCounting
  <1>8. Streaming' /\ Port'  BY <1>1, <1>3, QuietSpool
  <1>. QED  BY <1>2, <1>5, <1>6, <1>7, <1>8 DEF IInv

\* A client that leaves keeps the invariant.
LEMMA LeavesInv ==
    ASSUME IInv, Leaves
    PROVE  IInv'
  <1>1. TypeOK /\ Opening /\ Pulling /\ Counting /\ Streaming /\ Port  BY DEF IInv
  <1>2. TypeOK' /\ Still /\ pulls' = pulls /\ inbox' = <<>>  BY <1>1, LeavesStep
  <1>3. /\ SameSession /\ UNCHANGED <<replies, credit, port, jobStart, handed, taken, log>>
        /\ session'.n = session.n /\ session'.pull = session.pull
    BY <1>2 DEF Still, SameSession
  <1>4. MoreBegun  BY <1>3, KeptBegun, SameMore
  <1>5. Opening'  BY <1>1, LeavesOpening
  <1>6. Pulling'
    <2>1. replies' \in SUBSET replies /\ pulls' \in SUBSET pulls  BY <1>2, <1>3
    <2>. QED  BY <1>1, <1>2, <1>3, <1>4, <2>1, KeptPulling
  <1>7. Counting'  BY <1>1, LeavesCounting
  <1>8. Streaming' /\ Port'  BY <1>1, <1>3, QuietSpool
  <1>. QED  BY <1>2, <1>5, <1>6, <1>7, <1>8 DEF IInv

\* A client that comes keeps the invariant.
LEMMA ConnectInv ==
    ASSUME IInv, Connect
    PROVE  IInv'
  <1>1. TypeOK /\ Opening /\ Pulling /\ Counting /\ Streaming /\ Port  BY DEF IInv
  <1>2. TypeOK' /\ Still /\ pulls' \in SUBSET pulls /\ inbox' = <<>>  BY <1>1, ConnectStep
  <1>3. /\ SameSession /\ UNCHANGED <<replies, credit, port, jobStart, handed, taken, log>>
        /\ session'.n = session.n /\ session'.pull = session.pull
    BY <1>2 DEF Still, SameSession
  <1>4. MoreBegun  BY <1>3, KeptBegun, SameMore
  <1>5. Opening'  BY <1>1, ConnectOpening
  <1>6. Pulling'
    <2>1. replies' \in SUBSET replies  BY <1>3
    <2>. QED  BY <1>1, <1>2, <1>3, <1>4, <2>1, KeptPulling
  <1>7. Counting'  BY <1>1, ConnectCounting
  <1>8. Streaming' /\ Port'  BY <1>1, <1>3, QuietSpool
  <1>. QED  BY <1>2, <1>5, <1>6, <1>7, <1>8 DEF IInv

\* A pull that arrives keeps the invariant.
LEMMA ArrivesInv ==
    ASSUME IInv, NEW p, PullArrives(p)
    PROVE  IInv'
  <1>1. TypeOK /\ Opening /\ Pulling /\ Counting /\ Streaming /\ Port  BY DEF IInv
  <1>2. TypeOK' /\ Still /\ UNCHANGED client  BY <1>1, PullArrivesStep
  <1>3. /\ UNCHANGED <<replies, credit, port, jobStart, handed, taken, log>>
        /\ session'.n = session.n /\ session'.seq = session.seq /\ session'.bytes = session.bytes
        /\ session'.pull = session.pull
    BY <1>2 DEF Still, SameSession
  <1>4. SameBegun /\ MoreBegun  BY <1>3, KeptBegun, SameMore
  <1>5. Opening'
    <2>1. UNCHANGED <<client, call, stale>>  BY DEF PullArrives
    <2>. QED  BY <1>1, <1>3, <1>4, <2>1, QuietOpening
  <1>6. Pulling'  BY <1>1, ArrivesPulling
  <1>7. Counting'  BY <1>1, <1>2, <1>3, <1>4, QuietCounting
  <1>8. Streaming' /\ Port'  BY <1>1, <1>3, QuietSpool
  <1>. QED  BY <1>2, <1>5, <1>6, <1>7, <1>8 DEF IInv

\* The answer to a pull keeps the invariant.
LEMMA HandleInv ==
    ASSUME DistinctSockets, IInv, HandlePull
    PROVE  IInv'
  <1>1. TypeOK /\ Opening /\ Pulling /\ Counting /\ Streaming /\ Port  BY DEF IInv
  <1>2. Jobs  BY <1>1 DEF HandlePull, Here, Counting
  <1>3. TypeOK'  BY <1>1, <1>2, HandleStep
  <1>4. Opening'  BY <1>1, <1>2, HandleOpening
  <1>5. Pulling'  BY <1>1, <1>2, HandlePulling
  <1>6. Counting'  BY <1>1, HandleCounting
  <1>7. Streaming' /\ Port'  BY <1>1, <1>2, HandleSpool
  <1>. QED  BY <1>3, <1>4, <1>5, <1>6, <1>7 DEF IInv

\* A reply nobody waits for keeps the invariant.
LEMMA LateInv ==
    ASSUME IInv, NEW m, Late(m)
    PROVE  IInv'
  <1>1. TypeOK /\ Opening /\ Pulling /\ Counting /\ Streaming /\ Port  BY DEF IInv
  <1>2. /\ TypeOK' /\ SameSession /\ replies' = replies \ {m}
        /\ UNCHANGED <<client, inbox, pulls, credit, port, jobStart, handed, taken, log>>
    BY <1>1, LateStep
  <1>3. /\ session'.n = session.n /\ session'.seq = session.seq /\ session'.bytes = session.bytes
        /\ session'.pull = session.pull
    BY <1>2 DEF SameSession
  <1>4. SameBegun /\ MoreBegun  BY <1>2, KeptBegun, SameMore
  <1>5. Opening'
    <2>1. UNCHANGED <<client, call, stale>>  BY DEF Late, PullAnswered, clientVars
    <2>. QED  BY <1>1, <1>3, <1>4, <2>1, QuietOpening
  <1>6. Pulling'
    <2>1. replies' \in SUBSET replies /\ pulls' \in SUBSET pulls  BY <1>2
    <2>2. Here => Here'  BY <1>2 DEF Here
    <2>. QED  BY <1>1, <1>2, <1>4, <2>1, <2>2, KeptPulling
  <1>7. Counting'
    <2>1. \A l \in replies' : l.tid = session'.pull => l \in replies /\ l.tid = session.pull  BY <1>2, <1>3
    <2>. QED  BY <1>1, <1>2, <1>3, <1>4, <2>1, QuietCounting
  <1>8. Streaming' /\ Port'  BY <1>1, <1>2, <1>3, QuietSpool
  <1>. QED  BY <1>2, <1>5, <1>6, <1>7, <1>8 DEF IInv

\* A reply that is taken keeps the invariant.
LEMMA TakenInv ==
    ASSUME IInv, NEW m, Taken(m)
    PROVE  IInv'
  <1>1. TypeOK /\ Opening /\ Pulling /\ Counting /\ Streaming /\ Port  BY DEF IInv
  <1>2. m \in replies /\ m.tid = session.pull  BY DEF Taken, PullAnswered
  <1>3. NextReply(m.reply)  BY <1>1, <1>2 DEF Counting, Answered
  <1>4. SameBegun /\ MoreBegun  BY <1>1, <1>3, TakenBegun, SameMore
  <1>5. TypeOK' /\ session.n \in Conns /\ After(Accept(session, m.reply), pulls, credit)  BY <1>1, <1>3, TakenStep
  <1>6. Opening'
    <2>1. UNCHANGED <<client, call, stale>>  BY DEF Taken, PullAnswered, clientVars
    <2>2. PICK s : s = Accept(session, m.reply)  OBVIOUS
    <2>3. s.n = session.n
      <3>1. SessionOk(session) /\ session.n # 0  BY <1>1, <1>5, ConnFacts DEF TypeOK
      <3>. QED  BY <2>2, <3>1, AcceptSession
    <2>4. After(s, pulls, credit)  BY <1>5, <2>2
    <2>5. session'.n = session.n  BY <2>3, <2>4 DEF After
    <2>. QED  BY <1>1, <1>4, <2>1, <2>5, QuietOpening
  <1>7. Pulling'  BY <1>1, <1>3, <1>4, TakenPulling
  <1>8. Counting'  BY <1>1, <1>4, TakenCounting
  <1>9. Streaming' /\ Port'  BY <1>1, <1>3, TakenSpool
  <1>. QED  BY <1>5, <1>6, <1>7, <1>8, <1>9 DEF IInv

\* A session that opens keeps the invariant.
LEMMA OpenInv ==
    ASSUME DistinctSockets, IInv, NEW r \in Requests, handle_listener_event(r), session = NoSession
    PROVE  IInv'
  <1>1. TypeOK /\ Opening /\ Pulling /\ Counting /\ Streaming /\ Port  BY DEF IInv
  <1>2. r.n \in Conns /\ r.id = SocketOf[r.n] /\ ~Begun(r.n)  BY <1>1, OpenOpening
  <1>3. TypeOK'  BY <1>1, <1>2, OpenStep
  <1>4. \A n : Begun(n)' <=> Begun(n) \/ n = r.n  BY <1>1, <1>2, OpenBegun
  <1>5. MoreBegun  BY <1>4 DEF MoreBegun
  <1>6. Opening'  BY <1>1, <1>4, OpenOpening
  <1>7. Pulling'
    <2>1. PICK n : n = r.n  OBVIOUS
    <2>2. Begun(n)'  BY <1>4, <2>1
    <2>3. Begun(r.n)'
      <3>1. r.n = n  BY <2>1
      <3>. QED  BY <2>2, <3>1
    <2>. QED  BY <1>1, <1>5, <2>3, OpenPulling
  <1>8. Counting'  BY <1>1, <1>5, OpenCounting
  <1>9. Streaming' /\ Port'  BY <1>1, <1>2, OpenSpool
  <1>. QED  BY <1>3, <1>6, <1>7, <1>8, <1>9 DEF IInv

\* A session that ends keeps the invariant.
LEMMA EndInv ==
    ASSUME IInv, Ends
    PROVE  IInv'
  <1>1. TypeOK /\ Opening /\ Pulling /\ Counting /\ Streaming /\ Port  BY DEF IInv
  <1>2. TypeOK'  BY <1>1, EndStep
  <1>3. SameBegun /\ MoreBegun  BY <1>1, EndBegun, SameMore
  <1>4. Opening'  BY <1>1, <1>3, EndOpening
  <1>5. Pulling'  BY <1>1, <1>3, EndPulling
  <1>6. Counting'  BY <1>1, <1>3, EndCounting
  <1>7. Streaming' /\ Port'  BY <1>1, EndSpool
  <1>. QED  BY <1>2, <1>4, <1>5, <1>6, <1>7 DEF IInv

\* A pull that fails keeps the invariant.
LEMMA FailInv ==
    ASSUME IInv, PullFails
    PROVE  IInv'
  <1>1. TypeOK /\ Opening /\ Pulling /\ Counting /\ Streaming /\ Port  BY DEF IInv
  <1>2. TypeOK' /\ UNCHANGED <<client, port, log>>  BY <1>1, PullFailsStep
  <1>3. SameBegun /\ MoreBegun  BY <1>2, KeptBegun, SameMore
  <1>4. Opening'
    <2>1. UNCHANGED <<call, stale>>  BY DEF PullFails, clientVars
    <2>2. PICK s, others : s.n = session.n /\ After(s, others, credit)  BY <1>1, PullFailsStep
    <2>3. session'.n = session.n  BY <2>2 DEF After
    <2>. QED  BY <1>1, <1>2, <1>3, <2>1, <2>3, QuietOpening
  <1>5. Pulling'  BY <1>1, <1>3, FailPulling
  <1>6. Counting'  BY <1>1, <1>3, FailCounting
  <1>7. Streaming' /\ Port'  BY <1>1, FailSpool
  <1>. QED  BY <1>2, <1>4, <1>5, <1>6, <1>7 DEF IInv

\* A write that returns keeps the invariant.
LEMMA ReturnInv ==
    ASSUME IInv, WriteReturns
    PROVE  IInv'
  <1>1. TypeOK /\ Opening /\ Pulling /\ Counting /\ Streaming /\ Port  BY DEF IInv
  <1>2. TypeOK' /\ UNCHANGED client /\ After(session, pulls, Held(port') = 0)  BY <1>1, ReturnStep
  <1>3. SameBegun /\ MoreBegun  BY <1>1, ReturnBegun, SameMore
  <1>4. Opening'
    <2>1. UNCHANGED <<call, stale>>  BY DEF WriteReturns, clientVars
    <2>2. session'.n = session.n  BY <1>2 DEF After
    <2>. QED  BY <1>1, <1>2, <1>3, <2>1, <2>2, QuietOpening
  <1>5. Pulling'  BY <1>1, <1>3, ReturnPulling
  <1>6. Counting'  BY <1>1, <1>3, ReturnCounting
  <1>7. Streaming' /\ Port'  BY <1>1, ReturnSpool
  <1>. QED  BY <1>2, <1>4, <1>5, <1>6, <1>7 DEF IInv

\* A step that leaves the session, the client and the pulls alone.
LEMMA AloneInv ==
    ASSUME IInv, TypeOK', SameSession, SameBegun, Streaming', Port',
           UNCHANGED <<client, call, stale, inbox, pulls, replies, jobStart, handed, taken>>
    PROVE  IInv'
  <1>1. TypeOK /\ Opening /\ Pulling /\ Counting  BY DEF IInv
  <1>2. MoreBegun  BY SameMore
  <1>3. /\ session'.n = session.n /\ session'.seq = session.seq /\ session'.bytes = session.bytes
        /\ session'.pull = session.pull
    BY DEF SameSession
  <1>4. Opening'  BY <1>1, <1>3, QuietOpening
  <1>5. Pulling'
    <2>1. replies' \in SUBSET replies /\ pulls' \in SUBSET pulls  OBVIOUS
    <2>2. Here => Here'  BY DEF Here
    <2>. QED  BY <1>1, <1>2, <2>1, <2>2, KeptPulling
  <1>6. Counting'  BY <1>1, <1>2, <1>3, QuietCounting
  <1>. QED  BY <1>4, <1>5, <1>6 DEF IInv

\* A query, a report and a write that starts keep the invariant.
LEMMA PortInv ==
    ASSUME IInv, poll_ident_due \/ Report \/ WriteStarts
    PROVE  IInv'
  <1>1. TypeOK /\ Pulling /\ Streaming /\ Port  BY DEF IInv
  <1>2. UNCHANGED <<call, stale>>  BY DEF poll_ident_due, Report, WriteStarts, clientVars
  <1>3. /\ TypeOK' /\ SameSession
        /\ UNCHANGED <<client, inbox, pulls, replies, jobStart, handed, taken>>
    BY <1>1, PollStep, ReportStep, WriteStep
  <1>4. SameBegun  BY <1>1, PollBegun, ReportBegun, WriteBegun
  <1>5. Streaming' /\ Port'  BY <1>1, PollSpool, ReportSpool, WriteSpool
  <1>. QED  BY <1>2, <1>3, <1>4, <1>5, AloneInv

\* So does a step that changes nothing.
LEMMA StutterInv ==
    ASSUME IInv, UNCHANGED vars
    PROVE  IInv'
  <1>1. TypeOK /\ Streaming /\ Port /\ SessionOk(session) /\ ClientOk(client) /\ inbox \in Seq(PullType)
    BY DEF IInv, TypeOK
  <1>2. /\ UNCHANGED <<client, call, stale, inbox, pulls, replies, jobStart, handed, taken, credit, port, log, session>>
    BY DEF vars
  <1>3. SessionOk(session') /\ ClientOk(client') /\ inbox' \in Seq(PullType)  BY <1>1, <1>2
  <1>4. SameSession  BY <1>2, <1>3 DEF SameSession
  <1>5. Still  BY <1>2, <1>4 DEF Still
  <1>6. TypeOK'
    <2>1. pulls' \in SUBSET pulls  BY <1>2
    <2>. QED  BY <1>1, <1>3, <1>5, <2>1, StillTypes
  <1>7. SameBegun  BY <1>2, KeptBegun
  <1>8. Streaming' /\ Port'  BY <1>1, <1>2, QuietSpool
  <1>. QED  BY <1>2, <1>4, <1>6, <1>7, <1>8, AloneInv

\* Every step keeps the invariant.
LEMMA NextInv ==
    ASSUME DistinctSockets, IInv, [Next]_vars
    PROVE  IInv'
  <1>1. CASE Server
    <2>1. ASSUME NEW r \in Requests, handle_listener_event(r) \/ SendData(r) \/ CloseConn(r) \/ Unanswered(r)
          PROVE  IInv'
      <3>1. CASE handle_listener_event(r) /\ session = NoSession  BY <3>1, OpenInv
      <3>2. CASE handle_listener_event(r) /\ session # NoSession  BY <3>2, BookkeepingInv DEF Bookkeeping
      <3>3. CASE SendData(r) \/ Unanswered(r)  BY <3>3, BookkeepingInv DEF Bookkeeping
      <3>4. CASE CloseConn(r)  BY <3>4, EndInv DEF Ends
      <3>. QED  BY <2>1, <3>1, <3>2, <3>3, <3>4
    <2>2. ASSUME NEW m \in replies, PullAnswered(m) PROVE IInv'
      <3>1. CASE session # NoSession /\ session.pull = m.tid  BY <2>2, <3>1, TakenInv DEF Taken
      <3>2. CASE session = NoSession \/ session.pull # m.tid  BY <2>2, <3>2, LateInv DEF Late
      <3>. QED  BY <3>1, <3>2
    <2>3. CASE IdleAnswer \/ PrinterInput \/ settle_ident  BY <2>3, BookkeepingInv DEF Bookkeeping
    <2>4. CASE poll_ident_due \/ Report \/ WriteStarts  BY <2>4, PortInv
    <2>5. CASE WriteReturns  BY <2>5, ReturnInv
    <2>. QED  BY <1>1, <2>1, <2>2, <2>3, <2>4, <2>5 DEF Server
  <1>2. CASE Client \/ ReadTimeout
    <2>1. CASE \/ OpenConnReply \/ print_stream \/ DrainOver
               \/ read_response \/ DataReply \/ ReadTimeout \/ close
      BY <2>1, ProceedsInv DEF Proceeds
    <2>2. CASE PrintTimeout \/ CloseConnReply  BY <2>2, LeavesInv DEF Leaves
    <2>3. CASE Connect  BY <2>3, ConnectInv
    <2>4. CASE HandlePull  BY <2>4, HandleInv
    <2>5. ASSUME NEW p \in pulls, PullArrives(p) PROVE IInv'  BY <2>5, ArrivesInv
    <2>. QED  BY <1>2, <2>1, <2>2, <2>3, <2>4, <2>5 DEF Client
  <1>3. CASE PullFails  BY <1>3, FailInv
  <1>4. CASE Inactive  BY <1>4, EndInv DEF Ends
  <1>5. CASE GiveUp  BY <1>5, LeavesInv DEF Leaves
  <1>6. CASE UNCHANGED vars  BY <1>6, StutterInv
  <1>. QED  BY <1>1, <1>2, <1>3, <1>4, <1>5, <1>6 DEF Next

\* The invariant holds at the start.
LEMMA InitInv ==
    ASSUME Init
    PROVE  IInv
  <1>1. /\ client = Off /\ inbox = <<>> /\ call = None /\ stale = {} /\ session = NoSession
        /\ pulls = {} /\ replies = {} /\ credit = TRUE /\ jobStart = TRUE
        /\ port = [queue |-> <<>>, writing |-> 0, events |-> <<>>]
        /\ handed = [n \in Conns |-> 0] /\ taken = [n \in Conns |-> 0] /\ log = <<>>
    BY DEF Init
  <1>2. /\ session.n = 0 /\ session.pull = 0 /\ SessionOk(session)
        /\ client.pc = "off" /\ client.n = 0 /\ client.job = 0
    BY <1>1, NoSessionOk DEF Off
  <1>3. /\ port.queue = <<>> /\ port.writing = 0 /\ port.events = <<>>
        /\ Len(port.queue) = 0 /\ Len(port.events) = 0 /\ Len(log) = 0 /\ Len(inbox) = 0
    BY <1>1
  <1>4. \A i : i \notin 1 .. 0  OBVIOUS
  <1>5. port \in PortType
    <2>1. <<>> \in Seq(ItemType) /\ <<>> \in Seq(EventType)  OBVIOUS
    <2>. QED  BY <1>1, <2>1 DEF PortType
  <1>6. TypeOK
    <2>1. ClientOk(client)
      <3>1. <<>> \in CacheType  BY DEF CacheType
      <3>. QED  BY <1>1, <3>1, ConnFacts DEF ClientOk, Off
    <2>2. IsFiniteSet({})  BY FS_EmptySet
    <2>. QED  BY <1>1, <1>2, <1>5, <2>1, <2>2 DEF TypeOK
  <1>7. \A kind, n : ~Seen(log, kind, n)
    <2>1. DOMAIN log = {}  BY <1>1
    <2>. QED  BY <2>1 DEF Seen, Spool!Seen
  <1>8. \A n : ~Begun(n)  BY <1>3, <1>4, <1>7 DEF Begun, BegunIn
  <1>9. Opening
    <2>1. Opened  BY <1>2, <1>8 DEF Opened
    <2>2. Abandoning  BY <1>1 DEF Abandoning
    <2>3. Asking
      <3>1. call.kind = "none"  BY <1>1 DEF None
      <3>. QED  BY <1>2, <3>1 DEF Asking, Calling
    <2>. QED  BY <2>1, <2>2, <2>3 DEF Opening
  <1>10. Pulling  BY <1>1, <1>2, <1>3, <1>4 DEF Pulling
  <1>11. Counting
    <2>1. Totals  BY <1>1 DEF Totals
    <2>2. ~Here  BY <1>2 DEF Here
    <2>3. SoFar  BY <1>2 DEF SoFar
    <2>4. Answered  BY <1>1 DEF Answered
    <2>. QED  BY <2>1, <2>2, <2>3, <2>4 DEF Counting
  <1>12. Streaming
    <2>1. PICK s : s = [live |-> 0, out |-> 0]  OBVIOUS
    <2>2. s \in States /\ s.live = 0  BY <2>1, ConnFacts DEF States
    <2>3. PICK st : st = [j \in 0 .. 0 |-> s]  OBVIOUS
    <2>4. st \in [0 .. 0 -> States] /\ st[0] = s  BY <2>2, <2>3
    <2>5. Now(session.n, taken) = s  BY <1>2, <2>1 DEF Now
    <2>6. LogIs(log, s)
      <3>1. \A m \in Conns : ~Live(log, m) /\ m # 0  BY <1>7, ConnFacts DEF Live, Spool!Live, Seen
      <3>2. \A m : Out(log, m) = {}
        <4>1. DOMAIN log = {}  BY <1>1
        <4>. QED  BY <4>1 DEF Out, Spool!Out
      <3>. QED  BY <1>7, <2>2, <3>1, <3>2 DEF LogIs
    <2>7. Bytes(port, log, handed, s, 0, 0)  BY <1>3, <1>4 DEF Bytes
    <2>8. Events(port, handed, st, 0, 0)  BY <1>3, <1>4 DEF Events
    <2>9. Before(st, 0, 0, 1) = s  BY <2>1, <2>4 DEF Before, More
    <2>10. Stream(port, log, handed, s, st, 0, 0)  BY <1>3, <2>4, <2>6, <2>7, <2>8, <2>9 DEF Stream
    <2>11. Streams(port, log, handed, s)  BY <1>3, <2>4, <2>10 DEF Streams
    <2>. QED  BY <2>5, <2>11 DEF Streaming
  <1>13. Port
    <2>1. Held(port) = 0  BY <1>3 DEF Held
    <2>2. Window(port, log, credit, session.pull)  BY <1>1, <1>2, <1>3, <1>4, <2>1 DEF Window
    <2>3. Quiet(port, log, session.n)  BY <1>2 DEF Quiet
    <2>4. Renames(port, log, session.pull, jobStart)  BY <1>3, <1>4, <2>1 DEF Renames
    <2>5. StartsOnce(port, log)  BY <1>3, <1>4 DEF StartsOnce
    <2>. QED  BY <2>2, <2>3, <2>4, <2>5 DEF Port
  <1>. QED  BY <1>6, <1>9, <1>10, <1>11, <1>12, <1>13 DEF IInv

\* While every client has a socket of its own, the invariant holds of every state that is reached.
THEOREM Invariant ==
    ASSUME DistinctSockets
    PROVE  Spec => []IInv
  <1>1. Init => IInv  BY InitInv
  <1>2. IInv /\ [Next]_vars => IInv'  BY NextInv
  <1>. QED  BY <1>1, <1>2, PTL DEF Spec

-----------------------------------------------------------------------------
(* The theorems *)

\* The places of the chunks in the port bound their number.
LEMMA WindowHolds ==
    ASSUME IInv
    PROVE  HeldBounded
  <1>1. port \in PortType /\ log \in Seq(ItemType) /\ Window(port, log, credit, session.pull)
    BY DEF IInv, TypeOK, Port
  <1>2. /\ port.queue \in Seq(ItemType) /\ port.writing \in Nat /\ Len(log) \in Nat
        /\ port.writing <= Len(log) /\ DOMAIN port.queue = 1 .. Len(port.queue) /\ Len(port.queue) \in Nat
    BY <1>1, PortFacts DEF PortType, Window
  <1>3. PICK m \in 0 .. 2 : m = IF port.writing >= 2 THEN 2 ELSE port.writing  BY <1>2
  <1>4. PICK b \in Nat : Len(log) = b + port.writing
    <2>1. Len(log) - port.writing \in Nat /\ Len(log) = Len(log) - port.writing + port.writing  BY <1>2
    <2>. QED  BY <2>1
  <1>5. PICK A : A = {i \in DOMAIN port.queue : port.queue[i].kind = "chunk"}  OBVIOUS
  <1>6. PICK B : B = {i \in Len(log) - port.writing + 1 .. Len(log) : log[i].kind = "chunk"}  OBVIOUS
  <1>7. A \subseteq 1 .. 2 - m
    <2>. SUFFICES ASSUME NEW i \in A PROVE i \in 1 .. 2 - m
      OBVIOUS
    <2>1. i \in 1 .. Len(port.queue) /\ port.queue[i].kind = "chunk"  BY <1>2, <1>5
    <2>2. i + port.writing <= 2  BY <1>1, <2>1 DEF Window
    <2>. QED  BY <1>2, <1>3, <2>1, <2>2
  <1>8. B \subseteq b + 1 .. b + m
    <2>. SUFFICES ASSUME NEW i \in B PROVE i \in b + 1 .. b + m
      OBVIOUS
    <2>1. i \in b + 1 .. b + port.writing /\ log[i].kind = "chunk"
      <3>1. Len(log) - port.writing = b  BY <1>2, <1>4
      <3>. QED  BY <1>4, <1>6, <3>1
    <2>2. PICK j \in 1 .. port.writing : i = b + j
      <3>1. i - b \in 1 .. port.writing /\ i = b + (i - b)  BY <1>2, <2>1
      <3>. QED  BY <3>1
    <2>3. log[Len(log) - port.writing + j].kind = "chunk"
      <3>1. Len(log) - port.writing + j = b + j  BY <1>2, <1>4
      <3>. QED  BY <2>1, <2>2, <3>1
    <2>4. j <= 2  BY <1>1, <2>3 DEF Window
    <2>. QED  BY <1>2, <1>3, <2>2, <2>4
  <1>9. Cardinality(A) <= 2 - m /\ Cardinality(A) \in Nat
    <2>1. PICK x \in Int : x = 2 - m  OBVIOUS
    <2>2. IsFiniteSet(1 .. x) /\ Cardinality(1 .. x) = IF 1 > x THEN 0 ELSE x - 1 + 1  BY FS_Interval
    <2>3. A \subseteq 1 .. x  BY <1>7, <2>1
    <2>4. IsFiniteSet(A) /\ Cardinality(A) <= Cardinality(1 .. x)  BY <2>2, <2>3, FS_Subset
    <2>5. Cardinality(A) \in Nat  BY <2>4, FS_CardinalityType
    <2>. QED  BY <2>1, <2>2, <2>4, <2>5
  <1>10. Cardinality(B) <= m /\ Cardinality(B) \in Nat
    <2>1. PICK x \in Int, y \in Int : x = b + 1 /\ y = b + m  OBVIOUS
    <2>2. IsFiniteSet(x .. y) /\ Cardinality(x .. y) = IF x > y THEN 0 ELSE y - x + 1  BY FS_Interval
    <2>3. B \subseteq x .. y  BY <1>8, <2>1
    <2>4. IsFiniteSet(B) /\ Cardinality(B) <= Cardinality(x .. y)  BY <2>2, <2>3, FS_Subset
    <2>5. Cardinality(B) \in Nat  BY <2>4, FS_CardinalityType
    <2>. QED  BY <2>1, <2>2, <2>4, <2>5
  <1>. QED  BY <1>5, <1>6, <1>9, <1>10 DEF HeldBounded, ChunksHeld

\* The port never holds more than two full replies, as long as no two clients have one socket:
\* the window is for one, and the credit of before it for another.
THEOREM HeldIsBounded ==
    ASSUME DistinctSockets
    PROVE  Spec => []HeldBounded
  <1>1. Spec => []IInv  BY Invariant
  <1>2. IInv => HeldBounded  BY WindowHolds
  <1>. QED  BY <1>1, <1>2, PTL

\* The log before a step is a prefix of the log after it.
LEMMA Prefix ==
    ASSUME NEW k, NEW l, Longer(k, l)
    PROVE  SubSeq(k, 1, Len(l)) = l
  <1>1. /\ k \in Seq(ItemType) /\ l \in Seq(ItemType) /\ Len(l) \in Nat /\ Len(k) \in Nat /\ Len(l) <= Len(k)
        /\ \A i \in 1 .. Len(l) : k[i] = l[i]
    BY DEF Longer
  <1>2. PICK n \in Nat : n = Len(l)  BY <1>1
  <1>3. n <= Len(k)  BY <1>1, <1>2
  <1>4. 1 \in 1 .. Len(k) + 1 /\ n \in 1 - 1 .. Len(k)  BY <1>1, <1>3
  <1>5. PICK s : s = SubSeq(k, 1, n)  OBVIOUS
  <1>6. s \in Seq(ItemType) /\ Len(s) = n - 1 + 1 /\ \A i \in 1 .. n - 1 + 1 : s[i] = k[1 + i - 1]
    BY <1>1, <1>4, <1>5, SubSeqProperties
  <1>7. Len(s) = Len(l) /\ \A i \in 1 .. Len(l) : s[i] = l[i]
    BY <1>1, <1>2, <1>6
  <1>8. s = l  BY <1>1, <1>6, <1>7, SeqEqual
  <1>. QED  BY <1>2, <1>5, <1>8

\* Jobs of d chunks: no more of them, no more chunks.
LEMMA MoreJobs ==
    ASSUME NEW j \in Nat, NEW m \in Nat, j <= m, NEW d \in Nat
    PROVE  j * d <= m * d
  <1>1. PICK x \in Nat : m = j + x
    <2>1. m - j \in Nat /\ m = j + (m - j)  OBVIOUS
    <2>. QED  BY <2>1
  <1>2. m * d = j * d + x * d  BY <1>1
  <1>3. x * d \in Nat /\ j * d \in Nat  OBVIOUS
  <1>. QED  BY <1>2, <1>3

\* A chunk handed out is one more of the source, which the jobs of a connection bound.
LEMMA HandleHands ==
    ASSUME TypeOK, Jobs, Here, HandlePull
    PROVE  log' = log /\ (handed' = handed \/ \E n \in Conns : Spool!Hand(n))
  <1>1. PICK p \in PullType, reply \in ReplyType :
           /\ Repeats(p, reply) \/ Replies(p, reply)
           /\ UNCHANGED <<pulls, credit, port, jobStart, taken, log>>
    BY HandleStep
  <1>2. CASE handed' = handed  BY <1>1, <1>2
  <1>3. CASE /\ client.pc = "printing" /\ client.pos < JobLen
             /\ handed' = [handed EXCEPT ![client.n] = handed[client.n] + 1]
    <2>1. PICK n \in Conns : n = client.n  BY DEF TypeOK, ClientOk, Here
    <2>2. client.job \in Nat /\ client.pos \in Nat  BY DEF TypeOK, ClientOk
    <2>3. client.job # 0 /\ client.job <= MaxJobs /\ handed[n] = (client.job - 1) * JobLen + client.pos
      BY <1>3, <2>1 DEF Jobs
    <2>4. PICK j \in Nat : j = client.job /\ j > 0  BY <2>2, <2>3
    <2>5. JobLen \in Nat \ {0} /\ MaxJobs \in Nat  BY ConnFacts
    <2>6. PICK w \in Nat : w = (j - 1) * JobLen
      <3>1. j - 1 \in Nat /\ JobLen \in Nat  BY <2>4, <2>5
      <3>2. (j - 1) * JobLen \in Nat  BY <3>1
      <3>. QED  BY <3>2
    <2>7. w + JobLen = j * JobLen  BY <2>4, <2>5, <2>6, WholeJobs
    <2>8. j * JobLen <= MaxJobs * JobLen  BY <2>3, <2>4, <2>5, MoreJobs
    <2>9. handed[n] = w + client.pos  BY <2>3, <2>4, <2>6
    <2>10. j * JobLen \in Nat /\ MaxJobs * JobLen \in Nat  BY <2>4, <2>5
    <2>11. handed[n] < MaxJobs * JobLen
      <3>1. w + client.pos < w + JobLen  BY <1>3, <2>2, <2>5
      <3>. QED  BY <2>2, <2>7, <2>8, <2>9, <2>10, <3>1
    <2>12. handed' = [handed EXCEPT ![n] = @ + 1]  BY <1>3, <2>1
    <2>13. Spool!Hand(n)  BY <1>1, <2>11, <2>12 DEF Spool!Hand
    <2>. QED  BY <1>1, <2>13
  <1>. QED  BY <1>1, <1>2, <1>3 DEF Repeats, Replies

\* What is reported or written is what the log of PrintSpool may go on with.
LEMMA PortEmits ==
    ASSUME IInv, Report \/ WriteStarts
    PROVE  Spool!Emit
  <1>1. TypeOK /\ Streaming /\ Port  BY DEF IInv
  <1>2. CASE Report
    <2>1. PICK e : Len(log') = Len(log) + 1 /\ log'[Len(log) + 1] = e /\ Spool!MayFollow(log, e)
      BY <1>1, <1>2, ReportSpool
    <2>2. Longer(log', log) /\ handed' = handed /\ Len(log) \in Nat  BY <1>1, <1>2, ReportStep DEF TypeOK
    <2>3. SubSeq(log', 1, Len(log)) = log  BY <2>2, Prefix
    <2>4. ASSUME NEW k \in Len(log) + 1 .. Len(log') PROVE Spool!MayFollow(SubSeq(log', 1, k - 1), log'[k])
      <3>1. k = Len(log) + 1 /\ k - 1 = Len(log)  BY <2>1, <2>2
      <3>. QED  BY <2>1, <2>3, <3>1
    <2>5. Len(log') > Len(log)  BY <2>1, <2>2
    <2>. QED  BY <2>2, <2>3, <2>4, <2>5 DEF Spool!Emit
  <1>3. CASE WriteStarts
    <2>1. /\ Longer(log', log) /\ Len(log') > Len(log)
          /\ \A j \in Len(log) + 1 .. Len(log') : Spool!MayFollow(SubSeq(log', 1, j - 1), log'[j])
      BY <1>1, <1>3, WriteSpool
    <2>2. handed' = handed  BY <1>1, <1>3, WriteStep
    <2>3. SubSeq(log', 1, Len(log)) = log  BY <2>1, Prefix
    <2>. QED  BY <2>1, <2>2, <2>3 DEF Spool!Emit
  <1>. QED  BY <1>2, <1>3

\* Each step is one of PrintSpool, or leaves what it sees alone.
LEMMA NextSpool ==
    ASSUME IInv, [Next]_vars
    PROVE  [Spool!SpoolNext]_(Spool!spool)
  <1>1. CASE Report \/ WriteStarts  BY <1>1, PortEmits DEF Spool!SpoolNext
  <1>2. CASE HandlePull
    <2>1. TypeOK /\ Here /\ Jobs  BY <1>2 DEF IInv, HandlePull, Here, Counting
    <2>2. log' = log /\ (handed' = handed \/ \E n \in Conns : Spool!Hand(n))  BY <1>2, <2>1, HandleHands
    <2>3. Spool!Conns = Conns  BY DEF Conns, Spool!Conns
    <2>. QED  BY <2>2, <2>3 DEF Spool!SpoolNext, Spool!spool
  <1>3. CASE UNCHANGED <<handed, log>>  BY <1>3 DEF Spool!spool
  <1>4. \/ Report \/ WriteStarts \/ HandlePull \/ UNCHANGED <<handed, log>>
    <2>1. CASE Server
      BY <2>1 DEF Server, handle_listener_event, SendData, CloseConn, Unanswered, PullAnswered, IdleAnswer,
                  PrinterInput, WriteReturns, poll_ident_due, settle_ident, clientVars
    <2>2. CASE Client
      BY <2>2 DEF Client, Connect, OpenConnReply, print_stream, DrainOver, PrintTimeout,
                  read_response, DataReply, close, CloseConnReply, PullArrives
    <2>3. CASE PullFails \/ Inactive \/ GiveUp \/ ReadTimeout \/ UNCHANGED vars
      BY <2>3 DEF PullFails, Inactive, GiveUp, ReadTimeout, vars, clientVars
    <2>. QED  BY <2>1, <2>2, <2>3 DEF Next
  <1>. QED  BY <1>1, <1>2, <1>3, <1>4

\* Client, server, option card and port queue together implement PrintSpool, as long as no
\* two clients have one socket: every connection's bytes whole, in order and once, its events in
\* their places, and no query inside a job.
THEOREM PrintsAsPromised ==
    ASSUME DistinctSockets
    PROVE  Spec => ImplementsSpool
  <1>1. Init => Spool!SpoolInit  BY DEF Init, Spool!SpoolInit, Conns, Spool!Conns
  <1>2. IInv /\ [Next]_vars => [Spool!SpoolNext]_(Spool!spool)  BY NextSpool
  <1>3. Spec => []IInv  BY Invariant
  <1>. QED  BY <1>1, <1>2, <1>3, PTL DEF Spec, ImplementsSpool, Spool!SpoolSpec

=============================================================================
