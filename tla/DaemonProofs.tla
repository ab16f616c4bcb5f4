---------------------------- MODULE DaemonProofs ----------------------------
(***************************************************************************)
(* Proofs about the sockets the daemon serves, for any clients, sockets    *)
(* and bounds: a socket that its owner has not dropped is the one filed    *)
(* under its number (LiveIsRegistered), and over a stream no datagram is   *)
(* handed to, or leaves through, another socket than its own (OwnTraffic). *)
(***************************************************************************)
EXTENDS Daemon, SequenceTheorems, FiniteSetTheorems, TLAPS

-----------------------------------------------------------------------------
(* The inductive invariant *)

CallType == [kind : {"Open", "Query"}, want : Socks \cup {Dyn},
             state : {"unused", "filed", "sent", "answered", "ended", "failed"},
             answer : Socks \cup {0, InUse}, late : BOOLEAN]
PumpType == [sock : Socks \cup {0}, state : {"none", "live", "cancelled", "dropping", "gone"},
             rx : 0 .. SockCap, out : 0 .. SockCap]
CallTable == [Clients -> [Ids -> CallType]]
PumpTable == [Clients -> [Ids -> PumpType]]
OpenTable == [Clients -> [Socks -> Ids \cup {0}]]

\* What the queues hold.
Shaped(r) ==
    /\ r.kind = "Open" => r.id \in Ids
    /\ r.kind \in {"Send", "Close"} => r.id = 0 /\ r.sock \in Socks /\ r.from \in Ids
RequestType == {r \in [id : Ids \cup {0, Ping}, kind : {"Open", "Query", "Send", "Close"},
                       sock : Socks \cup {0}, from : Ids \cup {0}] : Shaped(r)}
Owner       == {Nobody} \cup (Clients \X Ids)
MessageType == [kind : {"Reply", "Datagram"}, id : Ids \cup {0, Ping},
                sock : Socks \cup {0, InUse}, from : Owner]
CommandType == {m \in [kind : {"NewSocket", "Received", "Deregister", "Send"},
                       sock : Socks \cup {0}, from : Owner] :
                  /\ m.kind = "NewSocket" => m.from \in Clients \X Ids
                  /\ m.kind \in {"Received", "Deregister"} => m.sock \in Socks}

Types ==
    /\ calls \in CallTable /\ pending \in [Clients -> SUBSET (Ids \cup {Ping})]
    /\ sockets \in OpenTable /\ held \in [Clients -> SUBSET Ids]
    /\ req \in [Clients -> Seq(RequestType)] /\ \A c \in Clients : Len(req[c]) <= ReqCap
    /\ up \in [Clients -> Seq(RequestType)] /\ down \in [Clients -> Seq(MessageType)]
    /\ broken \in [Clients -> BOOLEAN]
    /\ session \in [Clients -> {"none", "live", "opening"}] /\ asked \in [Clients -> Ids \cup {0}]
    /\ granted \in [Clients -> Socks \cup {0, InUse}] /\ open \in OpenTable /\ pump \in PumpTable
    /\ ddp \in [Socks -> Owner] /\ cmds \in Seq(CommandType) /\ Len(cmds) <= CmdCap

\* A session that opens a socket waits for one command or for its answer, and no other does.
Commands ==
    /\ \A i \in DOMAIN cmds :
          cmds[i].kind = "NewSocket" =>
                /\ session[cmds[i].from[1]] = "opening" /\ granted[cmds[i].from[1]] = 0
                /\ asked[cmds[i].from[1]] = cmds[i].from[2]
                /\ \A j \in DOMAIN cmds :
                      cmds[j].kind = "NewSocket" /\ cmds[j].from[1] = cmds[i].from[1] => j = i
    /\ \A c \in Clients : session[c] # "opening" => granted[c] = 0
    /\ \A c \in Clients : session[c] = "opening" => asked[c] \in Ids

\* Whoever's pump has yet to drop its receiver is filed with DDP.
Filed(c, id) ==
    pump[c][id].state \in {"live", "cancelled", "dropping"} =>
        pump[c][id].sock \in Socks /\ ddp[pump[c][id].sock] = <<c, id>>

Registered == \A c \in Clients, id \in Ids : Filed(c, id)

\* A reply is taken once, and a handle is filed under the number it was answered with.
Handles(c) ==
    /\ \A id \in pending[c] : id \in Ids => calls[c][id].state \in {"filed", "sent"}
    /\ \A id \in held[c] : calls[c][id].state = "ended" /\ calls[c][id].answer \in Socks
    /\ \A s \in Socks : sockets[c][s] # 0 =>
          sockets[c][s] \in held[c] /\ calls[c][sockets[c][s]].answer = s

\* What a stream's part of the invariant speaks of: the requests of c that its session has
\* yet to see, in order, the messages on their way to c, and what both ends know.
View(c) == [owner |-> c, way |-> up[c] \o req[c], down |-> down[c], calls |-> calls[c],
            held |-> held[c], session |-> session[c], asked |-> asked[c],
            granted |-> granted[c], open |-> open[c], pump |-> pump[c]]

Unfinished == {"live", "cancelled", "dropping"}

\* A request is in one place.
Underway(v, id)  == v.calls[id].state \in {"sent", "failed"}
RepliesTo(v, id) == {k \in DOMAIN v.down : v.down[k].kind = "Reply" /\ v.down[k].id = id}

Pristine(v, id) == Underway(v, id) /\ v.pump[id].state = "none" /\ RepliesTo(v, id) = {}

OnePlace(v) ==
    /\ \A i \in DOMAIN v.way :
          /\ Shaped(v.way[i])
          /\ v.way[i].id \in Ids =>
                /\ Pristine(v, v.way[i].id)
                /\ v.session = "opening" => v.asked # v.way[i].id
                /\ \A j \in DOMAIN v.way : v.way[j].id = v.way[i].id => j = i
    /\ v.session = "opening" => v.asked \in Ids /\ Underway(v, v.asked) /\ RepliesTo(v, v.asked) = {}
    /\ \A id \in Ids : \A k \in RepliesTo(v, id) :
          Underway(v, id) /\ \A l \in RepliesTo(v, id) : l = k
    /\ \A id \in Ids : v.calls[id].state \in {"unused", "filed"} => v.pump[id].state = "none"

\* The socket being opened is nobody's yet.
Opening(v) ==
    v.session = "opening" =>
        /\ v.granted \notin Socks => v.pump[v.asked].state = "none"
        /\ v.granted \in Socks => v.pump[v.asked].state = "live" /\ v.pump[v.asked].sock = v.granted
        /\ \A s \in Socks : v.open[s] # v.asked

\* What the session has open is live, under its number.
Opens(v) ==
    v.session # "none" =>
        \A s \in Socks : v.open[s] # 0 =>
            v.pump[v.open[s]].state = "live" /\ v.pump[v.open[s]].sock = s

\* What is written to a socket, and its close at last, find it open.
Closes(r, s) == r.kind = "Close" /\ r.sock = s
Sent(v) ==
    v.session # "none" =>
        \A i \in DOMAIN v.way : v.way[i].kind \in {"Send", "Close"} =>
            /\ v.open[v.way[i].sock] = v.way[i].from
            /\ \A j \in DOMAIN v.way : j < i => ~Closes(v.way[j], v.way[i].sock)

\* h is, or is about to be told that it is, the handle of number s.
Told(v, h, s) == (h \in v.held \/ v.calls[h].state = "answered") /\ v.calls[h].answer = s
Claims(v, h, s) == Told(v, h, s) \/ \E k \in RepliesTo(v, h) : v.down[k].sock = s

\* It is what the session has open, and no other socket of the number is left.
Claimed(v) ==
    \A h \in Ids, s \in Socks : Claims(v, h, s) =>
        /\ v.session # "none" => v.open[s] = h /\ \A i \in DOMAIN v.way : ~Closes(v.way[i], s)
        /\ \A f \in Ids : f # h /\ v.pump[f].sock = s => v.pump[f].state \notin Unfinished

\* Whoever is told of the number before a datagram arrives is its owner.
Ordered(v) ==
    \A k \in DOMAIN v.down : v.down[k].kind = "Datagram" =>
        /\ v.down[k].sock \in Socks
        /\ \A h \in Ids : Told(v, h, v.down[k].sock) => v.down[k].from = <<v.owner, h>>
        /\ \A h \in Ids : \A l \in RepliesTo(v, h) :
              l < k /\ v.down[l].sock = v.down[k].sock => v.down[k].from = <<v.owner, h>>

StreamInv(v) ==
    OnePlace(v) /\ Opening(v) /\ Opens(v) /\ Sent(v) /\ Claimed(v) /\ Ordered(v)

ClientSide == \A c \in Clients : Handles(c) /\ (broken[c] => up[c] = <<>>)
Streams    == \A c \in Clients \ Udp : ~broken[c] => StreamInv(View(c))

IInv == Types /\ Commands /\ Registered /\ ClientSide /\ Streams /\ OwnTraffic

-----------------------------------------------------------------------------
(* Sequences *)

LEMMA RemoveType ==
    ASSUME NEW T, NEW q \in Seq(T), NEW i \in DOMAIN q
    PROVE  RemoveAt(q, i) \in Seq(T) /\ q[i] \in T
  <1>1. i \in 1 .. Len(q) /\ Len(q) \in Nat  OBVIOUS
  <1>2. SubSeq(q, 1, i - 1) \in Seq(T) /\ SubSeq(q, i + 1, Len(q)) \in Seq(T)
    BY <1>1, SubSeqProperties
  <1>. QED  BY <1>1, <1>2, ConcatProperties DEF RemoveAt

\* A stream's messages are taken in order.
LEMMA TakenFirst ==
    ASSUME NEW T, NEW q \in Seq(T), q # <<>>
    PROVE  RemoveAt(q, 1) = Tail(q)
  <1>1. Len(q) \in Nat /\ Len(q) > 0  OBVIOUS
  <1>2. SubSeq(q, 1, 0) = <<>>  BY SubSeqEmpty
  <1>3. SubSeq(q, 2, Len(q)) = Tail(q)  BY TailIsSubSeq
  <1>4. RemoveAt(q, 1) = SubSeq(q, 1, 0) \o SubSeq(q, 2, Len(q))  BY DEF RemoveAt
  <1>5. <<>> \o Tail(q) = Tail(q)  BY HeadTailProperties, ConcatEmptySeq
  <1>. QED  BY <1>2, <1>3, <1>4, <1>5

LEMMA ConcatIs ==
    ASSUME NEW T, NEW s \in Seq(T), NEW t \in Seq(T)
    PROVE  /\ s \o t \in Seq(T) /\ Len(s \o t) = Len(s) + Len(t) /\ Len(s) \in Nat /\ Len(t) \in Nat
           /\ DOMAIN (s \o t) = 1 .. Len(s) + Len(t)
           /\ \A i \in 1 .. Len(s) : (s \o t)[i] = s[i]
           /\ \A i \in 1 .. Len(t) : (s \o t)[i + Len(s)] = t[i]
  <1>1. s \o t \in Seq(T) /\ Len(s \o t) = Len(s) + Len(t) /\ Len(s) \in Nat /\ Len(t) \in Nat
    BY ConcatProperties
  <1>2. \A i \in 1 .. Len(s) + Len(t) : (s \o t)[i] = IF i <= Len(s) THEN s[i] ELSE t[i - Len(s)]
    BY ConcatProperties
  <1>3. ASSUME NEW i \in 1 .. Len(t)  PROVE (s \o t)[i + Len(s)] = t[i]
    <2>1. i + Len(s) \in 1 .. Len(s) + Len(t) /\ ~(i + Len(s) <= Len(s)) /\ i + Len(s) - Len(s) = i  BY <1>1
    <2>. QED  BY <1>2, <2>1
  <1>. QED  BY <1>1, <1>2, <1>3

LEMMA AppendIs ==
    ASSUME NEW T, NEW s \in Seq(T), NEW x \in T
    PROVE  /\ Append(s, x) \in Seq(T) /\ Len(s) \in Nat /\ Len(Append(s, x)) = Len(s) + 1
           /\ DOMAIN s = 1 .. Len(s) /\ DOMAIN Append(s, x) = 1 .. Len(s) + 1
           /\ \A i \in 1 .. Len(s) : Append(s, x)[i] = s[i]
           /\ Append(s, x)[Len(s) + 1] = x
  OBVIOUS

LEMMA TailIs ==
    ASSUME NEW T, NEW s \in Seq(T), s # <<>>
    PROVE  /\ Tail(s) \in Seq(T) /\ Head(s) \in T /\ Head(s) = s[1] /\ 1 \in DOMAIN s
           /\ Len(s) \in Nat /\ Len(s) > 0 /\ DOMAIN s = 1 .. Len(s) /\ DOMAIN Tail(s) = 1 .. Len(s) - 1
           /\ Len(Tail(s)) = Len(s) - 1
           /\ \A i \in 1 .. Len(s) - 1 : i + 1 \in DOMAIN s /\ Tail(s)[i] = s[i + 1]
  OBVIOUS

\* One more request behind those that are on their way.
LEMMA PutBehind ==
    ASSUME NEW T, NEW s \in Seq(T), NEW t \in Seq(T), NEW x \in T
    PROVE  s \o Append(t, x) = Append(s \o t, x)
  <1>1. Append(t, x) = t \o <<x>>  BY AppendIsConcat
  <1>2. <<x>> \in Seq(T) /\ s \o t \in Seq(T)  BY ConcatProperties
  <1>3. s \o (t \o <<x>>) = (s \o t) \o <<x>>  BY <1>2, ConcatAssociative
  <1>4. Append(s \o t, x) = (s \o t) \o <<x>>  BY <1>2, AppendIsConcat
  <1>. QED  BY <1>1, <1>3, <1>4

LEMMA HeadAndTail ==
    ASSUME NEW T, NEW s \in Seq(T), s # <<>>
    PROVE  /\ Head(s) \in T /\ Tail(s) \in Seq(T) /\ <<Head(s)>> \in Seq(T)
           /\ s = <<Head(s)>> \o Tail(s)
  <1>1. Len(s) \in Nat /\ Len(s) > 0  OBVIOUS
  <1>2. SubSeq(s, 1, Len(s)) = <<s[1]>> \o SubSeq(s, 1 + 1, Len(s))
    BY <1>1, SubSeqRecursiveFirst
  <1>3. SubSeq(s, 1, Len(s)) = s  BY SubSeqFull
  <1>4. Tail(s) = SubSeq(s, 2, Len(s))  BY TailIsSubSeq
  <1>5. Head(s) = s[1] /\ Head(s) \in T /\ Tail(s) \in Seq(T)  BY TailIs
  <1>. QED  BY <1>2, <1>3, <1>4, <1>5

\* A request that goes from one queue to the next stays where it is among them.
LEMMA MoveOver ==
    ASSUME NEW T, NEW s \in Seq(T), NEW t \in Seq(T), t # <<>>
    PROVE  Append(s, Head(t)) \o Tail(t) = s \o t
  <1>1. /\ Head(t) \in T /\ Tail(t) \in Seq(T) /\ <<Head(t)>> \in Seq(T)
        /\ t = <<Head(t)>> \o Tail(t)
    BY HeadAndTail
  <1>2. Append(s, Head(t)) = s \o <<Head(t)>>  BY <1>1, AppendIsConcat
  <1>3. (s \o <<Head(t)>>) \o Tail(t) = s \o (<<Head(t)>> \o Tail(t))  BY <1>1, ConcatAssociative
  <1>. QED  BY <1>1, <1>2, <1>3

\* The first of them is taken.
LEMMA TakeFirst ==
    ASSUME NEW T, NEW s \in Seq(T), NEW t \in Seq(T), s # <<>>
    PROVE  Tail(s) \o t = Tail(s \o t) /\ s \o t # <<>> /\ (s \o t)[1] = s[1]
  <1>1. /\ Head(s) \in T /\ Tail(s) \in Seq(T) /\ <<Head(s)>> \in Seq(T)
        /\ s = <<Head(s)>> \o Tail(s)
    BY HeadAndTail
  <1>2. (<<Head(s)>> \o Tail(s)) \o t = <<Head(s)>> \o (Tail(s) \o t)  BY <1>1, ConcatAssociative
  <1>3. /\ s \o t \in Seq(T) /\ s \o t # <<>> /\ (s \o t)[1] = s[1]
    <2>1. Len(s) \in Nat /\ Len(s) > 0 /\ Len(t) \in Nat  OBVIOUS
    <2>2. s \o t \in Seq(T) /\ Len(s \o t) = Len(s) + Len(t) /\ (s \o t)[1] = s[1]  BY <2>1, ConcatIs
    <2>. QED  BY <2>1, <2>2
  <1>4. s \o t = <<Head(s \o t)>> \o Tail(s \o t) /\ Tail(s \o t) \in Seq(T)  BY <1>3, HeadAndTail
  <1>5. Head(s \o t) = Head(s)  BY <1>3, TailIs
  <1>6. Tail(s) \o t \in Seq(T)  BY <1>1, ConcatProperties
  <1>7. <<Head(s)>> \o (Tail(s) \o t) = <<Head(s)>> \o Tail(s \o t)  BY <1>1, <1>2, <1>4, <1>5
  <1>8. Tail(s) \o t = Tail(s \o t)  BY <1>1, <1>4, <1>6, <1>7, ConcatSimplifications
  <1>. QED  BY <1>3, <1>8
-----------------------------------------------------------------------------
(* A stream's part of the invariant: what each kind of step does to a view *)

ViewType == [owner : Clients, way : Seq(RequestType), down : Seq(MessageType),
             calls : [Ids -> CallType], held : SUBSET Ids, session : {"none", "live", "opening"},
             asked : Ids \cup {0}, granted : Socks \cup {0, InUse},
             open : [Socks -> Ids \cup {0}], pump : [Ids -> PumpType]]

LEMMA Positions ==
    ASSUME NEW T, NEW q \in Seq(T)
    PROVE  /\ Len(q) \in Nat /\ DOMAIN q = 1 .. Len(q) /\ DOMAIN q \subseteq Nat \ {0}
           /\ \A i \in DOMAIN q : q[i] \in T
  OBVIOUS

\* Sockets' pumps keep their numbers; none is born or revived, nor cancelled in a session.
Fades(v, w) ==
    \A id \in Ids :
        /\ w.pump[id].sock = v.pump[id].sock
        /\ w.pump[id].state = "none" <=> v.pump[id].state = "none"
        /\ w.pump[id].state \in Unfinished => v.pump[id].state \in Unfinished
        /\ w.session # "none" /\ v.pump[id].state = "live" => w.pump[id].state = "live"

\* The first d requests and e messages of v are gone, and perhaps some of the last.
Shorter(v, w, d, e) ==
    /\ \A i \in DOMAIN w.way : i + d \in DOMAIN v.way /\ w.way[i] = v.way[i + d]
    /\ \A k \in DOMAIN w.down : k + e \in DOMAIN v.down /\ w.down[k] = v.down[k + e]

\* Requests and messages are taken or forgotten; the session goes on as it was, or ends.
LEMMA Shrinks ==
    ASSUME NEW v \in ViewType, NEW w \in ViewType, StreamInv(v), Fades(v, w), w.owner = v.owner,
           NEW d \in Nat, NEW e \in Nat, Shorter(v, w, d, e),
           w.session # "none" => v.session # "none" /\ w.open = v.open,
           w.session = "opening" => v.session = "opening" /\ w.asked = v.asked /\ w.granted = v.granted,
           \A id \in Ids : Underway(v, id) => Underway(w, id) \/ \E k \in RepliesTo(v, id) : k <= e,
           \A id \in Ids : w.calls[id].state \in {"unused", "filed"} =>
               v.calls[id].state \in {"unused", "filed"},
           \A h \in Ids, s \in Socks : Told(w, h, s) =>
               Told(v, h, s) \/ \E k \in RepliesTo(v, h) : k <= e /\ v.down[k].sock = s
    PROVE  StreamInv(w)
  <1>0. /\ DOMAIN v.way \subseteq Nat \ {0} /\ DOMAIN w.way \subseteq Nat \ {0}
        /\ DOMAIN v.down \subseteq Nat \ {0} /\ DOMAIN w.down \subseteq Nat \ {0}
        /\ v.open \in [Socks -> Ids \cup {0}] /\ \A i \in DOMAIN w.way : w.way[i] \in RequestType
    BY Positions DEF ViewType
  <1>1. ASSUME NEW id \in Ids, RepliesTo(v, id) = {}  PROVE RepliesTo(w, id) = {}
    BY <1>1 DEF RepliesTo, Shorter
  <1>2. ASSUME NEW id \in Ids, RepliesTo(v, id) = {}, Underway(v, id)  PROVE Underway(w, id)
    BY <1>2
  <1>3. ASSUME NEW h \in Ids, NEW l \in RepliesTo(w, h)
        PROVE  l + e \in RepliesTo(v, h) /\ w.down[l] = v.down[l + e] /\ l \in Nat /\ l > 0
    BY <1>0 DEF RepliesTo, Shorter
  <1>4. OnePlace(w)
    <2>0. OnePlace(v)  BY DEF StreamInv
    <2>1. ASSUME NEW i \in DOMAIN w.way
          PROVE  /\ Shaped(w.way[i])
                 /\ w.way[i].id \in Ids =>
                       /\ Pristine(w, w.way[i].id)
                       /\ w.session = "opening" => w.asked # w.way[i].id
                       /\ \A j \in DOMAIN w.way : w.way[j].id = w.way[i].id => j = i
      <3>1. i + d \in DOMAIN v.way /\ w.way[i] = v.way[i + d]  BY <2>1 DEF Shorter
      <3>2. /\ Shaped(w.way[i])
            /\ w.way[i].id \in Ids =>
                  /\ Pristine(v, w.way[i].id)
                  /\ v.session = "opening" => v.asked # w.way[i].id
                  /\ \A j \in DOMAIN v.way : v.way[j].id = w.way[i].id => j = i + d
        BY <2>0, <3>1 DEF OnePlace
      <3>3. ASSUME w.way[i].id \in Ids, NEW j \in DOMAIN w.way, w.way[j].id = w.way[i].id  PROVE j = i
        <4>1. j + d \in DOMAIN v.way /\ w.way[j] = v.way[j + d]  BY DEF Shorter
        <4>2. j + d = i + d  BY <3>2, <3>3, <4>1
        <4>. QED  BY <1>0, <2>1, <4>2
      <3>4. ASSUME w.way[i].id \in Ids  PROVE Pristine(w, w.way[i].id)
        BY <1>1, <1>2, <3>2, <3>4 DEF Pristine, Fades
      <3>. QED  BY <3>2, <3>3, <3>4
    <2>2. w.session = "opening" => w.asked \in Ids /\ Underway(w, w.asked) /\ RepliesTo(w, w.asked) = {}
      BY <1>1, <1>2, <2>0 DEF OnePlace
    <2>3. ASSUME NEW id \in Ids, NEW k \in RepliesTo(w, id)
          PROVE  Underway(w, id) /\ \A l \in RepliesTo(w, id) : l = k
      <3>1. k + e \in RepliesTo(v, id) /\ k \in Nat /\ k > 0  BY <1>3
      <3>2. Underway(v, id) /\ \A l \in RepliesTo(v, id) : l = k + e  BY <2>0, <3>1 DEF OnePlace
      <3>3. ~ \E l \in RepliesTo(v, id) : l <= e  BY <3>1, <3>2
      <3>4. Underway(w, id)  BY <3>2, <3>3
      <3>5. ASSUME NEW l \in RepliesTo(w, id)  PROVE l = k
        <4>1. l + e \in RepliesTo(v, id) /\ l \in Nat  BY <1>3
        <4>2. l + e = k + e  BY <3>2, <4>1
        <4>. QED  BY <3>1, <4>1, <4>2
      <3>. QED  BY <3>4, <3>5
    <2>4. \A id \in Ids : w.calls[id].state \in {"unused", "filed"} => w.pump[id].state = "none"
      BY <2>0 DEF OnePlace, Fades
    <2>. QED  BY <2>1, <2>2, <2>3, <2>4 DEF OnePlace
  <1>5. Opening(w)
    <2>. SUFFICES ASSUME w.session = "opening"
                  PROVE  /\ w.granted \notin Socks => w.pump[w.asked].state = "none"
                         /\ w.granted \in Socks =>
                               w.pump[w.asked].state = "live" /\ w.pump[w.asked].sock = w.granted
                         /\ \A s \in Socks : w.open[s] # w.asked
      BY DEF Opening
    <2>1. w.open = v.open /\ v.session = "opening" /\ w.asked = v.asked /\ w.granted = v.granted
      OBVIOUS
    <2>2. v.asked \in Ids  BY <2>1 DEF StreamInv, OnePlace
    <2>. QED  BY <2>1, <2>2 DEF StreamInv, Opening, Fades
  <1>6. Opens(w)
    <2>. SUFFICES ASSUME w.session # "none", NEW s \in Socks, w.open[s] # 0
                  PROVE  w.pump[w.open[s]].state = "live" /\ w.pump[w.open[s]].sock = s
      BY DEF Opens
    <2>1. w.open = v.open /\ v.session # "none" /\ w.open[s] \in Ids  BY <1>0
    <2>. QED  BY <2>1 DEF StreamInv, Opens, Fades
  <1>7. Sent(w)
    <2>. SUFFICES ASSUME w.session # "none", NEW i \in DOMAIN w.way, w.way[i].kind \in {"Send", "Close"}
                  PROVE  /\ w.open[w.way[i].sock] = w.way[i].from
                         /\ \A j \in DOMAIN w.way : j < i => ~Closes(w.way[j], w.way[i].sock)
      BY DEF Sent
    <2>1. i + d \in DOMAIN v.way /\ w.way[i] = v.way[i + d] /\ v.session # "none" /\ w.open = v.open
      BY DEF Shorter
    <2>2. /\ v.open[w.way[i].sock] = w.way[i].from
          /\ \A j \in DOMAIN v.way : j < i + d => ~Closes(v.way[j], w.way[i].sock)
      BY <2>1 DEF StreamInv, Sent
    <2>3. ASSUME NEW j \in DOMAIN w.way, j < i  PROVE ~Closes(w.way[j], w.way[i].sock)
      <3>1. j + d \in DOMAIN v.way /\ w.way[j] = v.way[j + d]  BY DEF Shorter
      <3>2. j + d < i + d  BY <1>0, <2>3
      <3>. QED  BY <2>2, <3>1, <3>2
    <2>. QED  BY <2>1, <2>2, <2>3
  <1>8. ASSUME NEW h \in Ids, NEW s \in Socks, Claims(w, h, s)  PROVE Claims(v, h, s)
    <2>1. CASE Told(w, h, s)  BY <2>1 DEF Claims
    <2>2. CASE \E k \in RepliesTo(w, h) : w.down[k].sock = s  BY <1>3, <2>2 DEF Claims
    <2>. QED  BY <1>8, <2>1, <2>2 DEF Claims
  <1>9. Claimed(w)
    <2>. SUFFICES ASSUME NEW h \in Ids, NEW s \in Socks, Claims(w, h, s)
                  PROVE  /\ w.session # "none" =>
                               w.open[s] = h /\ \A i \in DOMAIN w.way : ~Closes(w.way[i], s)
                         /\ \A f \in Ids : f # h /\ w.pump[f].sock = s => w.pump[f].state \notin Unfinished
      BY DEF Claimed
    <2>1. Claims(v, h, s)  BY <1>8
    <2>. QED  BY <2>1 DEF StreamInv, Claimed, Fades, Shorter
  <1>10. Ordered(w)
    <2>. SUFFICES ASSUME NEW k \in DOMAIN w.down, w.down[k].kind = "Datagram"
                  PROVE  /\ w.down[k].sock \in Socks
                         /\ \A h \in Ids : Told(w, h, w.down[k].sock) => w.down[k].from = <<w.owner, h>>
                         /\ \A h \in Ids : \A l \in RepliesTo(w, h) :
                               l < k /\ w.down[l].sock = w.down[k].sock => w.down[k].from = <<w.owner, h>>
      BY DEF Ordered
    <2>1. k + e \in DOMAIN v.down /\ w.down[k] = v.down[k + e] /\ k \in Nat /\ k > 0  BY <1>0 DEF Shorter
    <2>2. /\ w.down[k].sock \in Socks
          /\ \A h \in Ids : Told(v, h, w.down[k].sock) => w.down[k].from = <<w.owner, h>>
          /\ \A h \in Ids : \A l \in RepliesTo(v, h) :
                l < k + e /\ v.down[l].sock = w.down[k].sock => w.down[k].from = <<w.owner, h>>
      BY <2>1 DEF StreamInv, Ordered
    <2>3. ASSUME NEW h \in Ids, Told(w, h, w.down[k].sock)  PROVE w.down[k].from = <<w.owner, h>>
      <3>1. CASE Told(v, h, w.down[k].sock)  BY <2>2, <3>1
      <3>2. CASE \E l \in RepliesTo(v, h) : l <= e /\ v.down[l].sock = w.down[k].sock
        <4>1. PICK l \in RepliesTo(v, h) : l <= e /\ v.down[l].sock = w.down[k].sock  BY <3>2
        <4>2. l \in Nat  BY <1>0 DEF RepliesTo
        <4>3. l < k + e  BY <2>1, <4>1, <4>2
        <4>. QED  BY <2>2, <4>1, <4>3
      <3>. QED  BY <2>2, <2>3, <3>1, <3>2
    <2>4. ASSUME NEW h \in Ids, NEW l \in RepliesTo(w, h), l < k, w.down[l].sock = w.down[k].sock
          PROVE  w.down[k].from = <<w.owner, h>>
      <3>1. l + e \in RepliesTo(v, h) /\ w.down[l] = v.down[l + e] /\ l \in Nat  BY <1>3
      <3>2. l + e < k + e  BY <2>1, <2>4, <3>1
      <3>. QED  BY <2>2, <2>4, <3>1, <3>2
    <2>. QED  BY <2>2, <2>3, <2>4
  <1>. QED  BY <1>4, <1>5, <1>6, <1>7, <1>9, <1>10 DEF StreamInv
\* id is nowhere: on no way, nor being opened or answered.
Lone(v, id) ==
    /\ Underway(v, id) /\ RepliesTo(v, id) = {}
    /\ \A i \in DOMAIN v.way : v.way[i].id # id
    /\ v.session = "opening" => v.asked # id

\* What is known of a request that has just been taken.
Without(v, u, r) == u = [v EXCEPT !.way = Tail(v.way)] /\ r = v.way[1]

LEMMA Taken ==
    ASSUME NEW v \in ViewType, StreamInv(v), v.way # <<>>, NEW u, NEW r, Without(v, u, r)
    PROVE  /\ u \in ViewType /\ StreamInv(u) /\ r \in RequestType /\ Shaped(r)
           /\ r.id \in Ids => Lone(u, r.id) /\ u.pump[r.id].state = "none"
           /\ v.session # "none" /\ r.kind \in {"Send", "Close"} => v.open[r.sock] = r.from
           /\ v.session # "none" /\ r.kind = "Close" =>
                 /\ \A i \in DOMAIN u.way : u.way[i].kind \in {"Send", "Close"} => u.way[i].sock # r.sock
                 /\ \A h \in Ids : ~Claims(u, h, r.sock)
  <1>1. /\ u.way = Tail(v.way) /\ u.down = v.down /\ u.calls = v.calls /\ u.held = v.held
        /\ u.session = v.session /\ u.asked = v.asked /\ u.granted = v.granted /\ u.open = v.open
        /\ u.pump = v.pump /\ u.owner = v.owner
    BY DEF ViewType, Without
  <1>0. r = v.way[1]  BY DEF Without
  <1>2. v.way \in Seq(RequestType)  BY DEF ViewType
  <1>3. /\ Tail(v.way) \in Seq(RequestType) /\ v.way[1] \in RequestType /\ 1 \in DOMAIN v.way
        /\ DOMAIN v.way = 1 .. Len(v.way) /\ DOMAIN Tail(v.way) = 1 .. Len(v.way) - 1
        /\ Len(v.way) \in Nat
        /\ \A i \in 1 .. Len(v.way) - 1 : i + 1 \in DOMAIN v.way /\ Tail(v.way)[i] = v.way[i + 1]
    BY <1>2, TailIs
  <1>4. u \in ViewType  BY <1>3 DEF ViewType, Without
  <1>5. \A i \in DOMAIN u.way : i + 1 \in DOMAIN v.way /\ u.way[i] = v.way[i + 1] /\ i \in Nat /\ i > 0
    BY <1>1, <1>3
  <1>6. v.down \in Seq(MessageType)  BY DEF ViewType
  <1>7. \A k \in DOMAIN v.down : k + 0 = k  BY <1>6, Positions
  <1>8. Shorter(v, u, 1, 0)  BY <1>1, <1>5, <1>7 DEF Shorter
  <1>9. \A id : Underway(u, id) = Underway(v, id) /\ RepliesTo(u, id) = RepliesTo(v, id)
    BY <1>1 DEF Underway, RepliesTo
  <1>10. \A h, s : Told(u, h, s) = Told(v, h, s) /\ Claims(u, h, s) = Claims(v, h, s)
    BY <1>1, <1>9 DEF Told, Claims
  <1>11. StreamInv(u)
    <2>1. Fades(v, u)  BY <1>1 DEF Fades
    <2>2. /\ \A id \in Ids : Underway(v, id) => Underway(u, id)
          /\ \A h \in Ids, s \in Socks : Told(u, h, s) => Told(v, h, s)
          /\ \A id \in Ids : u.calls[id].state \in {"unused", "filed"} =>
                v.calls[id].state \in {"unused", "filed"}
      BY <1>1, <1>9, <1>10
    <2>3. 1 \in Nat /\ 0 \in Nat  OBVIOUS
    <2>4. /\ u.session # "none" => v.session # "none" /\ u.open = v.open
          /\ u.session = "opening" => v.session = "opening" /\ u.asked = v.asked /\ u.granted = v.granted
          /\ u.owner = v.owner
      BY <1>1
    <2>. QED  BY <1>4, <1>8, <2>1, <2>2, <2>3, <2>4, Shrinks
  <1>12. Shaped(r) /\ r \in RequestType  BY <1>0, <1>3 DEF StreamInv, OnePlace
  <1>13. ASSUME r.id \in Ids  PROVE Lone(u, r.id) /\ u.pump[r.id].state = "none"
    <2>1. /\ Pristine(v, r.id)
          /\ v.session = "opening" => v.asked # r.id
          /\ \A j \in DOMAIN v.way : v.way[j].id = r.id => j = 1
      BY <1>0, <1>3, <1>13 DEF StreamInv, OnePlace
    <2>2. \A i \in DOMAIN u.way : u.way[i].id # r.id  BY <1>5, <2>1
    <2>. QED  BY <1>1, <1>9, <2>1, <2>2 DEF Lone, Pristine
  <1>14. v.session # "none" /\ r.kind \in {"Send", "Close"} => v.open[r.sock] = r.from
    BY <1>0, <1>3 DEF StreamInv, Sent
  <1>15. ASSUME v.session # "none", r.kind = "Close"
         PROVE  /\ \A i \in DOMAIN u.way : u.way[i].kind \in {"Send", "Close"} => u.way[i].sock # r.sock
                /\ \A h \in Ids : ~Claims(u, h, r.sock)
    <2>1. ASSUME NEW i \in DOMAIN u.way, u.way[i].kind \in {"Send", "Close"}  PROVE u.way[i].sock # r.sock
      <3>1. i + 1 \in DOMAIN v.way /\ u.way[i] = v.way[i + 1] /\ 1 < i + 1  BY <1>5
      <3>2. ~Closes(v.way[1], v.way[i + 1].sock)  BY <1>3, <1>15, <2>1, <3>1 DEF StreamInv, Sent
      <3>. QED  BY <1>0, <1>15, <3>1, <3>2 DEF Closes
    <2>2. ASSUME NEW h \in Ids  PROVE ~Claims(u, h, r.sock)
      <3>1. r.sock \in Socks /\ Closes(v.way[1], r.sock)  BY <1>0, <1>12, <1>15 DEF Shaped, Closes
      <3>2. Claims(v, h, r.sock) => ~Closes(v.way[1], r.sock)
        BY <1>3, <1>15, <3>1 DEF StreamInv, Claimed
      <3>. QED  BY <1>10, <3>1, <3>2
    <2>. QED  BY <2>1, <2>2
  <1>. QED  BY <1>4, <1>11, <1>12, <1>13, <1>14, <1>15

\* A request is put behind those on their way.
LEMMA Puts ==
    ASSUME NEW v \in ViewType, NEW w \in ViewType, StreamInv(v), NEW r \in RequestType,
           w.way = Append(v.way, r), Shaped(r), w.down = v.down,
           w.session = v.session, w.asked = v.asked, w.granted = v.granted, w.open = v.open,
           w.pump = v.pump, w.owner = v.owner,
           \A id \in Ids : Underway(v, id) => Underway(w, id),
           r.id \in Ids => v.calls[r.id].state = "filed" /\ Underway(w, r.id),
           \A id \in Ids : w.calls[id].state \in {"unused", "filed"} =>
               v.calls[id].state \in {"unused", "filed"},
           \A h \in Ids, s \in Socks : Told(w, h, s) => Told(v, h, s),
           v.session # "none" /\ r.kind \in {"Send", "Close"} =>
               /\ v.open[r.sock] = r.from
               /\ \A j \in DOMAIN v.way : ~Closes(v.way[j], r.sock),
           v.session # "none" /\ r.kind = "Close" => \A h \in Ids : ~Claims(w, h, r.sock)
    PROVE  StreamInv(w)
  <1>1. v.way \in Seq(RequestType) /\ v.down \in Seq(MessageType)  BY DEF ViewType
  <1>2. /\ Len(v.way) \in Nat /\ DOMAIN v.way = 1 .. Len(v.way) /\ DOMAIN w.way = 1 .. Len(v.way) + 1
        /\ \A i \in 1 .. Len(v.way) : w.way[i] = v.way[i]
        /\ w.way[Len(v.way) + 1] = r
    BY <1>1, AppendIs
  <1>3. \A i \in DOMAIN w.way : (i \in DOMAIN v.way /\ w.way[i] = v.way[i]) \/ (i = Len(v.way) + 1 /\ w.way[i] = r)
    BY <1>2
  <1>4. \A id \in Ids : RepliesTo(w, id) = RepliesTo(v, id)  BY DEF RepliesTo
  <1>5. \A h \in Ids, s \in Socks : Claims(w, h, s) => Claims(v, h, s)  BY <1>4 DEF Claims
  <1>6. OnePlace(w)
    <2>0. OnePlace(v)  BY DEF StreamInv
    <2>1. ASSUME r.id \in Ids
          PROVE  /\ Pristine(w, r.id) /\ \A j \in DOMAIN v.way : v.way[j].id # r.id
                 /\ w.session = "opening" => w.asked # r.id
      <3>1. ~Underway(v, r.id) /\ v.pump[r.id].state = "none"  BY <2>0, <2>1 DEF OnePlace, Underway
      <3>2. RepliesTo(v, r.id) = {} /\ \A j \in DOMAIN v.way : v.way[j].id # r.id
        BY <2>0, <2>1, <3>1 DEF OnePlace, Pristine
      <3>3. v.session = "opening" => v.asked # r.id  BY <2>0, <3>1 DEF OnePlace
      <3>. QED  BY <1>4, <2>1, <3>1, <3>2, <3>3 DEF Pristine
    <2>2. ASSUME NEW i \in DOMAIN w.way
          PROVE  /\ Shaped(w.way[i])
                 /\ w.way[i].id \in Ids =>
                       /\ Pristine(w, w.way[i].id)
                       /\ w.session = "opening" => w.asked # w.way[i].id
                       /\ \A j \in DOMAIN w.way : w.way[j].id = w.way[i].id => j = i
      <3>1. CASE i \in DOMAIN v.way /\ w.way[i] = v.way[i]
        <4>1. /\ Shaped(v.way[i])
              /\ v.way[i].id \in Ids =>
                  /\ Pristine(v, v.way[i].id)
                  /\ v.session = "opening" => v.asked # v.way[i].id
                  /\ \A j \in DOMAIN v.way : v.way[j].id = v.way[i].id => j = i
          BY <2>0, <3>1 DEF OnePlace
        <4>2. v.way[i].id \in Ids => Pristine(w, v.way[i].id)  BY <1>4, <4>1 DEF Pristine
        <4>3. ASSUME v.way[i].id \in Ids, NEW j \in DOMAIN w.way, w.way[j].id = w.way[i].id  PROVE j = i
          BY <1>3, <2>1, <3>1, <4>1, <4>3
        <4>. QED  BY <3>1, <4>1, <4>2, <4>3
      <3>2. CASE i = Len(v.way) + 1 /\ w.way[i] = r
        BY <1>3, <2>1, <3>2
      <3>. QED  BY <1>3, <3>1, <3>2
    <2>3. w.session = "opening" => w.asked \in Ids /\ Underway(w, w.asked) /\ RepliesTo(w, w.asked) = {}
      BY <1>4, <2>0 DEF OnePlace
    <2>4. \A id \in Ids : \A k \in RepliesTo(w, id) : Underway(w, id) /\ \A l \in RepliesTo(w, id) : l = k
      BY <1>4, <2>0 DEF OnePlace
    <2>5. \A id \in Ids : w.calls[id].state \in {"unused", "filed"} => w.pump[id].state = "none"
      BY <2>0 DEF OnePlace
    <2>. QED  BY <2>2, <2>3, <2>4, <2>5 DEF OnePlace
  <1>7. Opening(w) /\ Opens(w)  BY DEF StreamInv, Opening, Opens
  <1>8. Sent(w)
    <2>. SUFFICES ASSUME w.session # "none", NEW i \in DOMAIN w.way, w.way[i].kind \in {"Send", "Close"}
                  PROVE  /\ w.open[w.way[i].sock] = w.way[i].from
                         /\ \A j \in DOMAIN w.way : j < i => ~Closes(w.way[j], w.way[i].sock)
      BY DEF Sent
    <2>1. CASE i \in DOMAIN v.way /\ w.way[i] = v.way[i]
      <3>1. /\ v.open[v.way[i].sock] = v.way[i].from
            /\ \A j \in DOMAIN v.way : j < i => ~Closes(v.way[j], v.way[i].sock)
        BY <2>1 DEF StreamInv, Sent
      <3>2. \A j \in DOMAIN w.way : j < i => j \in DOMAIN v.way /\ w.way[j] = v.way[j]
        BY <1>2, <2>1
      <3>. QED  BY <2>1, <3>1, <3>2
    <2>2. CASE i = Len(v.way) + 1 /\ w.way[i] = r
      <3>1. \A j \in DOMAIN w.way : j < i => j \in DOMAIN v.way /\ w.way[j] = v.way[j]
        BY <1>2, <2>2
      <3>. QED  BY <2>2, <3>1
    <2>. QED  BY <1>3, <2>1, <2>2
  <1>9. Claimed(w)
    <2>. SUFFICES ASSUME NEW h \in Ids, NEW s \in Socks, Claims(w, h, s)
                  PROVE  /\ w.session # "none" =>
                               w.open[s] = h /\ \A i \in DOMAIN w.way : ~Closes(w.way[i], s)
                         /\ \A f \in Ids : f # h /\ w.pump[f].sock = s => w.pump[f].state \notin Unfinished
      BY DEF Claimed
    <2>1. /\ v.session # "none" => v.open[s] = h /\ \A i \in DOMAIN v.way : ~Closes(v.way[i], s)
          /\ \A f \in Ids : f # h /\ v.pump[f].sock = s => v.pump[f].state \notin Unfinished
      BY <1>5 DEF StreamInv, Claimed
    <2>2. v.session # "none" => ~Closes(r, s)  BY DEF Closes
    <2>. QED  BY <1>3, <2>1, <2>2
  <1>10. Ordered(w)  BY <1>4 DEF StreamInv, Ordered, ViewType
  <1>. QED  BY <1>6, <1>7, <1>8, <1>9, <1>10 DEF StreamInv
\* Nothing but what the session is at differs.
SameQueues(v, w) ==
    /\ w.way = v.way /\ w.down = v.down /\ w.calls = v.calls /\ w.held = v.held /\ w.owner = v.owner

LEMMA SameClaims ==
    ASSUME NEW v, NEW w, SameQueues(v, w)
    PROVE  /\ \A id : Underway(w, id) = Underway(v, id) /\ RepliesTo(w, id) = RepliesTo(v, id)
           /\ \A h, s : Told(w, h, s) = Told(v, h, s) /\ Claims(w, h, s) = Claims(v, h, s)
  <1>1. \A id : Underway(w, id) = Underway(v, id) /\ RepliesTo(w, id) = RepliesTo(v, id)
    BY DEF Underway, RepliesTo, SameQueues
  <1>2. \A h, s : Told(w, h, s) = Told(v, h, s)  BY DEF Told, SameQueues
  <1>3. \A h, s : Claims(w, h, s) = Claims(v, h, s)  BY <1>1, <1>2 DEF Claims, SameQueues
  <1>. QED  BY <1>1, <1>2, <1>3

\* The session starts to open a socket.
LEMMA Begins ==
    ASSUME NEW v \in ViewType, NEW w \in ViewType, StreamInv(v), SameQueues(v, w),
           v.session = "live", v.granted = 0, 0 \notin Socks,
           NEW id \in Ids, Lone(v, id), v.pump[id].state = "none", 0 \notin Ids,
           w.session = "opening", w.asked = id, w.granted = 0, w.open = v.open, w.pump = v.pump
    PROVE  StreamInv(w)
  <1>1. /\ \A i : Underway(w, i) = Underway(v, i) /\ RepliesTo(w, i) = RepliesTo(v, i)
        /\ \A h, s : Told(w, h, s) = Told(v, h, s) /\ Claims(w, h, s) = Claims(v, h, s)
    BY SameClaims
  <1>2. OnePlace(w)
    BY <1>1 DEF StreamInv, OnePlace, Pristine, Lone, SameQueues
  <1>3. Opening(w)
    <2>1. ASSUME NEW s \in Socks, v.open[s] = id  PROVE FALSE
      BY <2>1 DEF StreamInv, Opens
    <2>. QED  BY <2>1 DEF Opening
  <1>4. Opens(w) /\ Sent(w)  BY DEF StreamInv, Opens, Sent, SameQueues
  <1>5. Claimed(w)  BY <1>1 DEF StreamInv, Claimed, SameQueues
  <1>6. Ordered(w)  BY <1>1 DEF StreamInv, Ordered, SameQueues
  <1>. QED  BY <1>2, <1>3, <1>4, <1>5, <1>6 DEF StreamInv

\* DDP grants the socket a number that no pump has, or none.
LEMMA Grows ==
    ASSUME NEW v \in ViewType, NEW w \in ViewType, StreamInv(v), SameQueues(v, w),
           v.session = "opening", v.granted = 0, 0 \notin Socks, InUse \notin Socks, 0 \notin Ids,
           w.session = "opening", w.asked = v.asked, w.open = v.open,
           NEW s \in Socks \cup {InUse}, w.granted = s,
           s = InUse => w.pump = v.pump,
           s # InUse => w.pump = [v.pump EXCEPT ![v.asked] =
                                     [sock |-> s, state |-> "live", rx |-> 0, out |-> 0]],
           \A f \in Ids : v.pump[f].state \in Unfinished => v.pump[f].sock # s
    PROVE  StreamInv(w)
  <1>1. /\ \A i : Underway(w, i) = Underway(v, i) /\ RepliesTo(w, i) = RepliesTo(v, i)
        /\ \A h, n : Told(w, h, n) = Told(v, h, n) /\ Claims(w, h, n) = Claims(v, h, n)
    BY SameClaims
  <1>2. /\ v.asked \in Ids /\ Underway(v, v.asked) /\ v.pump[v.asked].state = "none"
        /\ \A n \in Socks : v.open[n] # v.asked
    BY DEF StreamInv, OnePlace, Opening
  <1>3. /\ s # InUse => w.pump[v.asked].state = "live" /\ w.pump[v.asked].sock = s
        /\ \A f \in Ids : f # v.asked \/ s = InUse => w.pump[f] = v.pump[f]
    BY <1>2 DEF ViewType
  <1>4. OnePlace(w)
    <2>0. OnePlace(v)  BY DEF StreamInv
    <2>1. ASSUME NEW i \in DOMAIN w.way
          PROVE  /\ Shaped(w.way[i])
                 /\ w.way[i].id \in Ids =>
                       /\ Pristine(w, w.way[i].id)
                       /\ w.session = "opening" => w.asked # w.way[i].id
                       /\ \A j \in DOMAIN w.way : w.way[j].id = w.way[i].id => j = i
      <3>1. /\ Shaped(v.way[i])
            /\ v.way[i].id \in Ids =>
                  /\ Pristine(v, v.way[i].id)
                  /\ v.asked # v.way[i].id
                  /\ \A j \in DOMAIN v.way : v.way[j].id = v.way[i].id => j = i
        BY <2>0 DEF OnePlace, SameQueues
      <3>2. \A id \in Ids : Pristine(v, id) /\ id # v.asked => Pristine(w, id)
        BY <1>1, <1>3 DEF Pristine
      <3>. QED  BY <3>1, <3>2 DEF SameQueues
    <2>2. w.session = "opening" => w.asked \in Ids /\ Underway(w, w.asked) /\ RepliesTo(w, w.asked) = {}
      BY <1>1, <2>0 DEF OnePlace
    <2>3. \A id \in Ids : \A k \in RepliesTo(w, id) : Underway(w, id) /\ \A l \in RepliesTo(w, id) : l = k
      BY <1>1, <2>0 DEF OnePlace
    <2>4. \A id \in Ids : w.calls[id].state \in {"unused", "filed"} => w.pump[id].state = "none"
      BY <1>2, <1>3, <2>0 DEF OnePlace, SameQueues, Underway
    <2>. QED  BY <2>1, <2>2, <2>3, <2>4 DEF OnePlace
  <1>5. Opening(w)  BY <1>2, <1>3 DEF Opening
  <1>6. Opens(w)
    <2>1. v.open \in [Socks -> Ids \cup {0}]  BY DEF ViewType
    <2>. QED  BY <1>2, <1>3, <2>1 DEF StreamInv, Opens
  <1>7. Sent(w)  BY DEF StreamInv, Sent, SameQueues
  <1>8. Claimed(w)
    <2>. SUFFICES ASSUME NEW h \in Ids, NEW n \in Socks, Claims(w, h, n)
                  PROVE  /\ w.session # "none" =>
                               w.open[n] = h /\ \A i \in DOMAIN w.way : ~Closes(w.way[i], n)
                         /\ \A f \in Ids : f # h /\ w.pump[f].sock = n => w.pump[f].state \notin Unfinished
      BY DEF Claimed
    <2>1. /\ v.open[n] = h /\ \A i \in DOMAIN v.way : ~Closes(v.way[i], n)
          /\ \A f \in Ids : f # h /\ v.pump[f].sock = n => v.pump[f].state \notin Unfinished
      BY <1>1 DEF StreamInv, Claimed
    <2>2. v.pump[h].state = "live" /\ v.pump[h].sock = n  BY <2>1 DEF StreamInv, Opens
    <2>3. n # s  BY <2>2 DEF Unfinished
    <2>. QED  BY <1>3, <2>1, <2>3 DEF SameQueues
  <1>9. Ordered(w)  BY <1>1 DEF StreamInv, Ordered, SameQueues
  <1>. QED  BY <1>4, <1>5, <1>6, <1>7, <1>8, <1>9 DEF StreamInv

\* The session learns of the number: the socket is open, and only it.
LEMMA Grants ==
    ASSUME NEW v \in ViewType, NEW w \in ViewType, StreamInv(v), SameQueues(v, w),
           v.session = "opening", v.granted # 0, 0 \notin Socks, InUse \notin Socks, 0 \notin Ids,
           w.session = "live", w.asked = 0, w.granted = 0, w.pump = v.pump,
           v.granted = InUse => w.open = v.open,
           v.granted # InUse => w.open = [v.open EXCEPT ![v.granted] = v.asked],
           \A f, g \in Ids : v.pump[f].state \in Unfinished /\ v.pump[g].state \in Unfinished
                             /\ v.pump[f].sock = v.pump[g].sock => f = g
    PROVE  /\ StreamInv(w) /\ Lone(w, v.asked)
           /\ v.granted \in Socks =>
                 /\ w.open[v.granted] = v.asked /\ \A i \in DOMAIN w.way : ~Closes(w.way[i], v.granted)
                 /\ \A f \in Ids : f # v.asked /\ w.pump[f].sock = v.granted =>
                       w.pump[f].state \notin Unfinished
  <1>1. /\ \A i : Underway(w, i) = Underway(v, i) /\ RepliesTo(w, i) = RepliesTo(v, i)
        /\ \A h, n : Told(w, h, n) = Told(v, h, n) /\ Claims(w, h, n) = Claims(v, h, n)
    BY SameClaims
  <1>2. /\ v.asked \in Ids /\ Underway(v, v.asked) /\ RepliesTo(v, v.asked) = {}
        /\ \A n \in Socks : v.open[n] # v.asked
        /\ \A i \in DOMAIN v.way : v.way[i].id # v.asked
    BY DEF StreamInv, OnePlace, Opening
  <1>3. Lone(w, v.asked)  BY <1>1, <1>2 DEF Lone, SameQueues
  <1>4. OnePlace(w)
    BY <1>1 DEF StreamInv, OnePlace, Pristine, SameQueues
  <1>5. Opening(w)  BY DEF Opening
  <1>6. v.open \in [Socks -> Ids \cup {0}] /\ v.granted \in Socks \cup {0, InUse}  BY DEF ViewType
  <1>7. ASSUME v.granted \in Socks
        PROVE  /\ v.pump[v.asked].state = "live" /\ v.pump[v.asked].sock = v.granted
               /\ v.open[v.granted] = 0
               /\ \A i \in DOMAIN v.way : v.way[i].kind \in {"Send", "Close"} => v.way[i].sock # v.granted
               /\ \A h \in Ids : ~Claims(v, h, v.granted)
    <2>1. v.pump[v.asked].state = "live" /\ v.pump[v.asked].sock = v.granted
      BY <1>7 DEF StreamInv, Opening
    <2>2. v.open[v.granted] = 0
      <3>1. ASSUME v.open[v.granted] # 0  PROVE FALSE
        <4>1. v.open[v.granted] \in Ids  BY <1>6, <1>7, <3>1
        <4>2. v.pump[v.open[v.granted]].state = "live" /\ v.pump[v.open[v.granted]].sock = v.granted
          BY <1>7, <3>1 DEF StreamInv, Opens
        <4>. QED  BY <1>2, <1>7, <2>1, <4>1, <4>2 DEF Unfinished
      <3>. QED  BY <3>1
    <2>3. ASSUME NEW i \in DOMAIN v.way, v.way[i].kind \in {"Send", "Close"}, v.way[i].sock = v.granted
          PROVE  FALSE
      <3>1. v.way[i].from \in Ids  BY <2>3 DEF StreamInv, OnePlace, Shaped
      <3>2. v.open[v.granted] = v.way[i].from  BY <2>3 DEF StreamInv, Sent
      <3>. QED  BY <2>2, <3>1, <3>2
    <2>4. ASSUME NEW h \in Ids, Claims(v, h, v.granted)  PROVE FALSE
      <3>1. v.open[v.granted] = h  BY <1>7, <2>4 DEF StreamInv, Claimed
      <3>. QED  BY <2>2, <3>1
    <2>. QED  BY <2>1, <2>2, <2>3, <2>4
  <1>8. \A n \in Socks : n # v.granted => w.open[n] = v.open[n]  BY <1>6
  <1>9. v.granted \in Socks => w.open[v.granted] = v.asked  BY <1>6
  <1>10. Opens(w)
    <2>. SUFFICES ASSUME NEW n \in Socks, w.open[n] # 0
                  PROVE  w.pump[w.open[n]].state = "live" /\ w.pump[w.open[n]].sock = n
      BY DEF Opens
    <2>1. CASE n = v.granted  BY <1>7, <1>9, <2>1
    <2>2. CASE n # v.granted  BY <1>8, <2>2 DEF StreamInv, Opens
    <2>. QED  BY <2>1, <2>2
  <1>11. Sent(w)
    <2>. SUFFICES ASSUME NEW i \in DOMAIN w.way, w.way[i].kind \in {"Send", "Close"}
                  PROVE  /\ w.open[w.way[i].sock] = w.way[i].from
                         /\ \A j \in DOMAIN w.way : j < i => ~Closes(w.way[j], w.way[i].sock)
      BY DEF Sent
    <2>1. w.way[i].sock \in Socks  BY <1>4 DEF OnePlace, Shaped
    <2>2. w.way[i].sock # v.granted  BY <1>7, <2>1 DEF SameQueues
    <2>. QED  BY <1>8, <2>1, <2>2 DEF StreamInv, Sent, SameQueues
  <1>12. Claimed(w)
    <2>. SUFFICES ASSUME NEW h \in Ids, NEW n \in Socks, Claims(w, h, n)
                  PROVE  /\ w.session # "none" =>
                               w.open[n] = h /\ \A i \in DOMAIN w.way : ~Closes(w.way[i], n)
                         /\ \A f \in Ids : f # h /\ w.pump[f].sock = n => w.pump[f].state \notin Unfinished
      BY DEF Claimed
    <2>1. n # v.granted /\ Claims(v, h, n)  BY <1>1, <1>7
    <2>. QED  BY <1>8, <2>1 DEF StreamInv, Claimed, SameQueues
  <1>13. Ordered(w)  BY <1>1 DEF StreamInv, Ordered, SameQueues
  <1>14. ASSUME v.granted \in Socks
         PROVE  /\ \A i \in DOMAIN w.way : ~Closes(w.way[i], v.granted)
                /\ \A f \in Ids : f # v.asked /\ w.pump[f].sock = v.granted =>
                       w.pump[f].state \notin Unfinished
    BY <1>2, <1>7, <1>14 DEF SameQueues, Closes, Unfinished
  <1>. QED  BY <1>3, <1>4, <1>5, <1>9, <1>10, <1>11, <1>12, <1>13, <1>14 DEF StreamInv
\* A number is freed whose handle nobody has any more.
LEMMA Frees ==
    ASSUME NEW v \in ViewType, NEW w \in ViewType, StreamInv(v), SameQueues(v, w),
           v.session = "live", w.session = "live", w.asked = v.asked, w.granted = v.granted,
           0 \notin Ids,
           NEW s \in Socks, w.open = [v.open EXCEPT ![s] = 0],
           \A f \in Ids : w.pump[f] = IF f = v.open[s] THEN Cancelled(v.pump[f]) ELSE v.pump[f],
           \A i \in DOMAIN v.way : v.way[i].kind \in {"Send", "Close"} => v.way[i].sock # s,
           \A h \in Ids : ~Claims(v, h, s)
    PROVE  StreamInv(w)
  <1>1. /\ \A i : Underway(w, i) = Underway(v, i) /\ RepliesTo(w, i) = RepliesTo(v, i)
        /\ \A h, n : Told(w, h, n) = Told(v, h, n) /\ Claims(w, h, n) = Claims(v, h, n)
    BY SameClaims
  <1>2. v.open \in [Socks -> Ids \cup {0}] /\ v.pump \in [Ids -> PumpType]  BY DEF ViewType
  <1>3. w.open[s] = 0 /\ \A n \in Socks : n # s => w.open[n] = v.open[n]  BY <1>2
  <1>4. ASSUME NEW f \in Ids
        PROVE  /\ w.pump[f].sock = v.pump[f].sock
               /\ w.pump[f].state = "none" <=> v.pump[f].state = "none"
               /\ w.pump[f].state \in Unfinished <=> v.pump[f].state \in Unfinished
               /\ f # v.open[s] => w.pump[f] = v.pump[f]
    <2>1. v.pump[f] \in PumpType  BY <1>2
    <2>. QED  BY <2>1 DEF Cancelled, Unfinished, PumpType
  <1>5. OnePlace(w)
    <2>0. OnePlace(v)  BY DEF StreamInv
    <2>1. \A id \in Ids : Pristine(v, id) => Pristine(w, id)  BY <1>1, <1>4 DEF Pristine
    <2>2. ASSUME NEW i \in DOMAIN w.way
          PROVE  /\ Shaped(w.way[i])
                 /\ w.way[i].id \in Ids =>
                       /\ Pristine(w, w.way[i].id)
                       /\ \A j \in DOMAIN w.way : w.way[j].id = w.way[i].id => j = i
      BY <2>0, <2>1 DEF OnePlace, SameQueues
    <2>3. \A id \in Ids : \A k \in RepliesTo(w, id) : Underway(w, id) /\ \A l \in RepliesTo(w, id) : l = k
      BY <1>1, <2>0 DEF OnePlace
    <2>4. \A id \in Ids : w.calls[id].state \in {"unused", "filed"} => w.pump[id].state = "none"
      BY <1>4, <2>0 DEF OnePlace, SameQueues
    <2>. QED  BY <2>2, <2>3, <2>4 DEF OnePlace
  <1>6. Opening(w)  BY DEF Opening
  <1>7. Opens(w)
    <2>. SUFFICES ASSUME NEW n \in Socks, w.open[n] # 0
                  PROVE  w.pump[w.open[n]].state = "live" /\ w.pump[w.open[n]].sock = n
      BY DEF Opens
    <2>1. n # s /\ w.open[n] = v.open[n] /\ v.open[n] \in Ids  BY <1>2, <1>3
    <2>2. v.pump[v.open[n]].state = "live" /\ v.pump[v.open[n]].sock = n  BY <2>1 DEF StreamInv, Opens
    <2>3. v.open[n] # v.open[s]
      <3>1. v.open[s] # 0 => v.pump[v.open[s]].sock = s  BY DEF StreamInv, Opens
      <3>. QED  BY <2>1, <2>2, <3>1
    <2>. QED  BY <1>4, <2>1, <2>2, <2>3
  <1>8. Sent(w)
    <2>. SUFFICES ASSUME NEW i \in DOMAIN w.way, w.way[i].kind \in {"Send", "Close"}
                  PROVE  /\ w.open[w.way[i].sock] = w.way[i].from
                         /\ \A j \in DOMAIN w.way : j < i => ~Closes(w.way[j], w.way[i].sock)
      BY DEF Sent
    <2>1. w.way[i].sock \in Socks  BY <1>5 DEF OnePlace, Shaped
    <2>2. w.way[i].sock # s  BY DEF SameQueues
    <2>. QED  BY <1>3, <2>1, <2>2 DEF StreamInv, Sent, SameQueues
  <1>9. Claimed(w)
    <2>. SUFFICES ASSUME NEW h \in Ids, NEW n \in Socks, Claims(w, h, n)
                  PROVE  /\ w.session # "none" =>
                               w.open[n] = h /\ \A i \in DOMAIN w.way : ~Closes(w.way[i], n)
                         /\ \A f \in Ids : f # h /\ w.pump[f].sock = n => w.pump[f].state \notin Unfinished
      BY DEF Claimed
    <2>1. n # s /\ Claims(v, h, n)  BY <1>1
    <2>. QED  BY <1>3, <1>4, <2>1 DEF StreamInv, Claimed, SameQueues
  <1>10. Ordered(w)  BY <1>1 DEF StreamInv, Ordered, SameQueues
  <1>. QED  BY <1>5, <1>6, <1>7, <1>8, <1>9, <1>10 DEF StreamInv

\* A message is put behind those on their way to the client.
Behind(v, w, m) ==
    /\ m \in MessageType /\ w.down = Append(v.down, m)
    /\ w.way = v.way /\ w.calls = v.calls /\ w.held = v.held /\ w.owner = v.owner
    /\ w.session = v.session /\ w.asked = v.asked /\ w.granted = v.granted /\ w.open = v.open
    /\ w.pump = v.pump

LEMMA BehindIs ==
    ASSUME NEW v \in ViewType, NEW w \in ViewType, NEW m, Behind(v, w, m)
    PROVE  /\ Len(v.down) \in Nat /\ DOMAIN v.down = 1 .. Len(v.down)
           /\ DOMAIN w.down = 1 .. Len(v.down) + 1 /\ w.down[Len(v.down) + 1] = m
           /\ \A k \in 1 .. Len(v.down) : w.down[k] = v.down[k]
           /\ \A h, s : Told(w, h, s) = Told(v, h, s)
           /\ \A h : Underway(w, h) = Underway(v, h)
           /\ \A h : RepliesTo(w, h) = RepliesTo(v, h)
                        \cup (IF m.kind = "Reply" /\ m.id = h THEN {Len(v.down) + 1} ELSE {})
           /\ m.kind # "Reply" => \A h : RepliesTo(w, h) = RepliesTo(v, h)
  <1>1. v.down \in Seq(MessageType)  BY DEF ViewType
  <1>2. /\ Len(v.down) \in Nat /\ DOMAIN v.down = 1 .. Len(v.down)
        /\ DOMAIN w.down = 1 .. Len(v.down) + 1 /\ w.down[Len(v.down) + 1] = m
        /\ \A k \in 1 .. Len(v.down) : w.down[k] = v.down[k]
    BY <1>1, AppendIs DEF Behind
  <1>3. \A h, s : Told(w, h, s) = Told(v, h, s)  BY DEF Told, Behind
  <1>4. \A h : Underway(w, h) = Underway(v, h)  BY DEF Underway, Behind
  <1>5. ASSUME NEW h
        PROVE  RepliesTo(w, h) = RepliesTo(v, h)
                  \cup (IF m.kind = "Reply" /\ m.id = h THEN {Len(v.down) + 1} ELSE {})
    BY <1>2 DEF RepliesTo
  <1>6. m.kind # "Reply" => \A h : RepliesTo(w, h) = RepliesTo(v, h)  BY <1>5
  <1>. QED  BY <1>2, <1>3, <1>4, <1>5, <1>6

\* A request is answered, and nobody else has the number it is answered with.
LEMMA Answers ==
    ASSUME NEW v \in ViewType, NEW w \in ViewType, StreamInv(v), NEW m, Behind(v, w, m),
           m.kind = "Reply", m.id \in Ids => Lone(v, m.id),
           m.id \in Ids /\ m.sock \in Socks =>
               /\ v.session # "none" =>
                     v.open[m.sock] = m.id /\ \A i \in DOMAIN v.way : ~Closes(v.way[i], m.sock)
               /\ \A f \in Ids : f # m.id /\ v.pump[f].sock = m.sock => v.pump[f].state \notin Unfinished
    PROVE  StreamInv(w)
  <1>. DEFINE n == Len(v.down) + 1
  <1>1. /\ n \in Nat /\ DOMAIN w.down = 1 .. n /\ w.down[n] = m /\ DOMAIN v.down = 1 .. n - 1
        /\ \A k \in 1 .. n - 1 : w.down[k] = v.down[k]
        /\ \A h, s : Told(w, h, s) = Told(v, h, s)
        /\ \A h : Underway(w, h) = Underway(v, h)
        /\ \A h : RepliesTo(w, h) = RepliesTo(v, h) \cup (IF m.id = h THEN {n} ELSE {})
    BY BehindIs
  <1>. HIDE DEF n
  <1>2. /\ w.way = v.way /\ w.calls = v.calls /\ w.held = v.held /\ w.owner = v.owner
        /\ w.session = v.session /\ w.asked = v.asked /\ w.granted = v.granted /\ w.open = v.open
        /\ w.pump = v.pump
    BY DEF Behind
  <1>3. OnePlace(w)
    <2>0. OnePlace(v)  BY DEF StreamInv
    <2>1. ASSUME NEW i \in DOMAIN w.way
          PROVE  /\ Shaped(w.way[i])
                 /\ w.way[i].id \in Ids =>
                       /\ Pristine(w, w.way[i].id)
                       /\ w.session = "opening" => w.asked # w.way[i].id
                       /\ \A j \in DOMAIN w.way : w.way[j].id = w.way[i].id => j = i
      <3>1. w.way[i].id \in Ids => w.way[i].id # m.id  BY <1>2 DEF Lone
      <3>2. \A id \in Ids : Pristine(v, id) /\ id # m.id => Pristine(w, id)
        BY <1>1, <1>2 DEF Pristine
      <3>. QED  BY <1>2, <2>0, <3>1, <3>2 DEF OnePlace
    <2>2. w.session = "opening" => w.asked \in Ids /\ Underway(w, w.asked) /\ RepliesTo(w, w.asked) = {}
      BY <1>1, <1>2, <2>0 DEF OnePlace, Lone
    <2>3. ASSUME NEW id \in Ids, NEW k \in RepliesTo(w, id)
          PROVE  Underway(w, id) /\ \A l \in RepliesTo(w, id) : l = k
      <3>1. CASE id = m.id  BY <1>1, <3>1 DEF Lone
      <3>2. CASE id # m.id  BY <1>1, <2>0, <3>2 DEF OnePlace
      <3>. QED  BY <3>1, <3>2
    <2>4. \A id \in Ids : w.calls[id].state \in {"unused", "filed"} => w.pump[id].state = "none"
      BY <1>2, <2>0 DEF OnePlace
    <2>. QED  BY <2>1, <2>2, <2>3, <2>4 DEF OnePlace
  <1>4. Opening(w) /\ Opens(w) /\ Sent(w)  BY <1>2 DEF StreamInv, Opening, Opens, Sent
  <1>5. Claimed(w)
    <2>. SUFFICES ASSUME NEW h \in Ids, NEW s \in Socks, Claims(w, h, s)
                  PROVE  /\ w.session # "none" =>
                               w.open[s] = h /\ \A i \in DOMAIN w.way : ~Closes(w.way[i], s)
                         /\ \A f \in Ids : f # h /\ w.pump[f].sock = s => w.pump[f].state \notin Unfinished
      BY DEF Claimed
    <2>1. CASE Claims(v, h, s)  BY <1>2, <2>1 DEF StreamInv, Claimed
    <2>2. CASE h = m.id /\ s = m.sock  BY <1>2, <2>2
    <2>3. Claims(v, h, s) \/ (h = m.id /\ s = m.sock)
      <3>1. CASE Told(w, h, s)  BY <1>1, <3>1 DEF Claims
      <3>2. CASE \E k \in RepliesTo(w, h) : w.down[k].sock = s
        <4>1. PICK k \in RepliesTo(w, h) : w.down[k].sock = s  BY <3>2
        <4>2. CASE k \in RepliesTo(v, h)
          <5>1. k \in 1 .. n - 1  BY <1>1, <4>2 DEF RepliesTo
          <5>. QED  BY <1>1, <4>1, <4>2, <5>1 DEF Claims
        <4>3. CASE k = n /\ m.id = h  BY <1>1, <4>1, <4>3
        <4>. QED  BY <1>1, <4>2, <4>3
      <3>. QED  BY <3>1, <3>2 DEF Claims
    <2>. QED  BY <2>1, <2>2, <2>3
  <1>6. Ordered(w)
    <2>. SUFFICES ASSUME NEW k \in DOMAIN w.down, w.down[k].kind = "Datagram"
                  PROVE  /\ w.down[k].sock \in Socks
                         /\ \A h \in Ids : Told(w, h, w.down[k].sock) => w.down[k].from = <<w.owner, h>>
                         /\ \A h \in Ids : \A l \in RepliesTo(w, h) :
                               l < k /\ w.down[l].sock = w.down[k].sock => w.down[k].from = <<w.owner, h>>
      BY DEF Ordered
    <2>1. k \in 1 .. n - 1 /\ w.down[k] = v.down[k] /\ k \in DOMAIN v.down  BY <1>1
    <2>2. /\ w.down[k].sock \in Socks
          /\ \A h \in Ids : Told(v, h, w.down[k].sock) => w.down[k].from = <<w.owner, h>>
          /\ \A h \in Ids : \A l \in RepliesTo(v, h) :
                l < k /\ v.down[l].sock = w.down[k].sock => w.down[k].from = <<w.owner, h>>
      BY <1>2, <2>1 DEF StreamInv, Ordered
    <2>3. ASSUME NEW h \in Ids, NEW l \in RepliesTo(w, h), l < k, w.down[l].sock = w.down[k].sock
          PROVE  w.down[k].from = <<w.owner, h>>
      <3>1. l # n  BY <1>1, <2>1, <2>3
      <3>2. l \in RepliesTo(v, h)  BY <1>1, <3>1
      <3>3. l \in 1 .. n - 1  BY <1>1, <3>2 DEF RepliesTo
      <3>4. v.down[l].sock = w.down[k].sock  BY <1>1, <2>3, <3>3
      <3>. QED  BY <2>2, <2>3, <3>2, <3>4
    <2>. QED  BY <1>1, <2>2, <2>3
  <1>. QED  BY <1>3, <1>4, <1>5, <1>6 DEF StreamInv

\* A pump sends a datagram on, under its number.
LEMMA Forwards ==
    ASSUME NEW v \in ViewType, NEW w \in ViewType, StreamInv(v), NEW m, Behind(v, w, m),
           m.kind = "Datagram", NEW f \in Ids, v.pump[f].state \in Unfinished,
           m.sock = v.pump[f].sock, m.sock \in Socks, m.from = <<v.owner, f>>
    PROVE  StreamInv(w)
  <1>. DEFINE n == Len(v.down) + 1
  <1>1. /\ n \in Nat /\ DOMAIN w.down = 1 .. n /\ w.down[n] = m /\ DOMAIN v.down = 1 .. n - 1
        /\ \A k \in 1 .. n - 1 : w.down[k] = v.down[k]
        /\ \A h, s : Told(w, h, s) = Told(v, h, s)
        /\ \A h : Underway(w, h) = Underway(v, h)
        /\ \A h : RepliesTo(w, h) = RepliesTo(v, h)
    <2>2. \A h : RepliesTo(w, h) = RepliesTo(v, h)  BY BehindIs
    <2>3. /\ Len(v.down) \in Nat /\ DOMAIN v.down = 1 .. Len(v.down)
          /\ DOMAIN w.down = 1 .. Len(v.down) + 1 /\ w.down[Len(v.down) + 1] = m
          /\ \A k \in 1 .. Len(v.down) : w.down[k] = v.down[k]
          /\ \A h, s : Told(w, h, s) = Told(v, h, s)
          /\ \A h : Underway(w, h) = Underway(v, h)
      BY BehindIs
    <2>. QED  BY <2>2, <2>3
  <1>. HIDE DEF n
  <1>2. /\ w.way = v.way /\ w.calls = v.calls /\ w.held = v.held /\ w.owner = v.owner
        /\ w.session = v.session /\ w.asked = v.asked /\ w.granted = v.granted /\ w.open = v.open
        /\ w.pump = v.pump
    BY DEF Behind
  <1>3. \A h : \A l \in RepliesTo(v, h) : l \in 1 .. n - 1 /\ w.down[l] = v.down[l]
    BY <1>1 DEF RepliesTo
  <1>4. \A h, s : Claims(w, h, s) = Claims(v, h, s)  BY <1>1, <1>3 DEF Claims
  <1>5. OnePlace(w)
    <2>0. OnePlace(v)  BY DEF StreamInv
    <2>1. \A id : Pristine(w, id) = Pristine(v, id)  BY <1>1, <1>2 DEF Pristine
    <2>. QED  BY <1>1, <1>2, <2>0, <2>1 DEF OnePlace
  <1>6. Opening(w) /\ Opens(w) /\ Sent(w)  BY <1>2 DEF StreamInv, Opening, Opens, Sent
  <1>7. Claimed(w)  BY <1>2, <1>4 DEF StreamInv, Claimed
  <1>8. ASSUME NEW h \in Ids, Claims(v, h, m.sock)  PROVE h = f
    BY <1>8 DEF StreamInv, Claimed
  <1>9. Ordered(w)
    <2>. SUFFICES ASSUME NEW k \in DOMAIN w.down, w.down[k].kind = "Datagram"
                  PROVE  /\ w.down[k].sock \in Socks
                         /\ \A h \in Ids : Told(w, h, w.down[k].sock) => w.down[k].from = <<w.owner, h>>
                         /\ \A h \in Ids : \A l \in RepliesTo(w, h) :
                               l < k /\ w.down[l].sock = w.down[k].sock => w.down[k].from = <<w.owner, h>>
      BY DEF Ordered
    <2>1. CASE k \in 1 .. n - 1
      <3>1. w.down[k] = v.down[k] /\ k \in DOMAIN v.down  BY <1>1, <2>1
      <3>. QED  BY <1>1, <1>2, <1>3, <3>1 DEF StreamInv, Ordered
    <2>2. CASE k = n
      <3>1. w.down[k] = m  BY <1>1, <2>2
      <3>. QED  BY <1>1, <1>2, <1>3, <1>8, <3>1 DEF Claims
    <2>. QED  BY <1>1, <2>1, <2>2
  <1>. QED  BY <1>5, <1>6, <1>7, <1>9 DEF StreamInv
-----------------------------------------------------------------------------
(* Types *)

LEMMA Numbers ==
    /\ 0 \notin Socks /\ InUse \notin Socks /\ Socks \subseteq Nat /\ 0 \notin Ids /\ Ping \notin Ids
    /\ Ids \subseteq Nat /\ Ping # 0 /\ Nobody \notin Clients \X Ids /\ Dyn = 0 /\ InUse # 0
    /\ CmdCap \in Nat /\ CmdCap > 0 /\ ReqCap \in Nat /\ ReqCap > 0 /\ SockCap \in Nat /\ SockCap > 0
    /\ MaxCalls \in Nat /\ Udp \subseteq Clients
  <1>1. Nobody \notin Clients \X Ids  BY DEF Nobody
  <1>. QED  BY <1>1, DaemonAssumption DEF InUse, Ids, Ping, Dyn

LEMMA TypesAre ==
    ASSUME Types
    PROVE  TypeOK
  BY DEF Types, TypeOK, CallTable, CallType, PumpTable, PumpType, OpenTable, Owner

LEMMA ViewIs ==
    ASSUME Types, NEW c \in Clients
    PROVE  /\ View(c) \in ViewType
           /\ View(c).owner = c /\ View(c).way = up[c] \o req[c] /\ View(c).down = down[c]
           /\ View(c).calls = calls[c] /\ View(c).held = held[c] /\ View(c).session = session[c]
           /\ View(c).asked = asked[c] /\ View(c).granted = granted[c] /\ View(c).open = open[c]
           /\ View(c).pump = pump[c]
  <1>1. /\ calls[c] \in [Ids -> CallType] /\ pump[c] \in [Ids -> PumpType] /\ held[c] \in SUBSET Ids
        /\ session[c] \in {"none", "live", "opening"} /\ open[c] \in [Socks -> Ids \cup {0}]
        /\ req[c] \in Seq(RequestType) /\ up[c] \in Seq(RequestType) /\ down[c] \in Seq(MessageType)
        /\ asked[c] \in Ids \cup {0} /\ granted[c] \in Socks \cup {0, InUse}
    BY DEF Types, CallTable, PumpTable, OpenTable
  <1>2. up[c] \o req[c] \in Seq(RequestType)  BY <1>1, ConcatProperties
  <1>. QED  BY <1>1, <1>2 DEF View, ViewType

\* An entry of t is changed, and no other.
Changed(t, u, c, i, x) == u = [t EXCEPT ![c][i] = x]
Only(t, u, c, i) ==
    /\ \A d \in Clients : d # c => u[d] = t[d]
    /\ \A d \in Clients, j \in Ids : d # c \/ j # i => u[d][j] = t[d][j]

LEMMA CallEntry ==
    ASSUME NEW t \in CallTable, NEW c \in Clients, NEW i \in Ids, NEW x \in CallType, NEW u,
           Changed(t, u, c, i, x)
    PROVE  u \in CallTable /\ Only(t, u, c, i) /\ u[c][i] = x
  BY DEF CallTable, Only, Changed

LEMMA PumpEntry ==
    ASSUME NEW t \in PumpTable, NEW c \in Clients, NEW i \in Ids, NEW x \in PumpType, NEW u,
           Changed(t, u, c, i, x)
    PROVE  u \in PumpTable /\ Only(t, u, c, i) /\ u[c][i] = x
  BY DEF PumpTable, Only, Changed

\* What a call is after its state, or its answer, was set.
LEMMA CallFields ==
    ASSUME NEW x \in CallType,
           NEW v \in {"unused", "filed", "sent", "answered", "ended", "failed"},
           NEW s \in Socks \cup {0, InUse}
    PROVE  /\ [x EXCEPT !.state = v] \in CallType /\ [x EXCEPT !.state = v].state = v
           /\ [x EXCEPT !.state = v].answer = x.answer /\ [x EXCEPT !.state = v].kind = x.kind
           /\ [x EXCEPT !.state = v, !.answer = s] \in CallType
           /\ [x EXCEPT !.state = v, !.answer = s].state = v
           /\ [x EXCEPT !.state = v, !.answer = s].answer = s
  BY DEF CallType

-----------------------------------------------------------------------------
(* What a step leaves alone *)

LEMMA DaemonSame ==
    ASSUME Commands, Registered, UNCHANGED <<daemon, actor>>
    PROVE  Commands' /\ Registered'
  BY DEF Commands, Registered, Filed, daemon, actor

LEMMA ClientsSame ==
    ASSUME ClientSide, UNCHANGED client, up' = up, broken' = broken
    PROVE  ClientSide'
  BY DEF ClientSide, Handles, client

\* The clients a step is not about.
LEMMA OthersSame ==
    ASSUME Streams, NEW c \in Clients,
           \A d \in Clients : d # c => View(d)' = View(d) /\ broken'[d] = broken[d],
           c \notin Udp /\ ~broken'[c] => StreamInv(View(c))'
    PROVE  Streams'
  BY DEF Streams

LEMMA ViewPrimed ==
    ASSUME Types', NEW c \in Clients
    PROVE  /\ View(c)' \in ViewType
           /\ View(c)'.owner = c /\ View(c)'.way = up'[c] \o req'[c] /\ View(c)'.down = down'[c]
           /\ View(c)'.calls = calls'[c] /\ View(c)'.held = held'[c] /\ View(c)'.session = session'[c]
           /\ View(c)'.asked = asked'[c] /\ View(c)'.granted = granted'[c] /\ View(c)'.open = open'[c]
           /\ View(c)'.pump = pump'[c]
  <1>1. (/\ View(c) \in ViewType
         /\ View(c).owner = c /\ View(c).way = up[c] \o req[c] /\ View(c).down = down[c]
         /\ View(c).calls = calls[c] /\ View(c).held = held[c] /\ View(c).session = session[c]
         /\ View(c).asked = asked[c] /\ View(c).granted = granted[c] /\ View(c).open = open[c]
         /\ View(c).pump = pump[c])'
    BY ViewIs, PTL
  <1>. QED  BY <1>1 DEF ViewType

\* The calls of a client move on, and nothing else does.
LEMMA CallsMove ==
    ASSUME NEW v \in ViewType, NEW w \in ViewType, StreamInv(v), w.owner = v.owner, w.way = v.way,
           w.down = v.down, w.session = v.session, w.asked = v.asked, w.granted = v.granted,
           w.open = v.open, w.pump = v.pump,
           \A id \in Ids : Underway(v, id) => Underway(w, id),
           \A id \in Ids : w.calls[id].state \in {"unused", "filed"} =>
               v.calls[id].state \in {"unused", "filed"},
           \A h \in Ids, s \in Socks : Told(w, h, s) => Told(v, h, s)
    PROVE  StreamInv(w)
  <1>1. v.way \in Seq(RequestType) /\ v.down \in Seq(MessageType)  BY DEF ViewType
  <1>2. Shorter(v, w, 0, 0)  BY <1>1, Positions DEF Shorter
  <1>3. Fades(v, w)  BY DEF Fades
  <1>4. 0 \in Nat  OBVIOUS
  <1>. QED  BY <1>2, <1>3, <1>4, Shrinks

\* The pumps of a client fade, with its session or without it.
LEMMA PumpsFade ==
    ASSUME NEW v \in ViewType, NEW w \in ViewType, StreamInv(v), SameQueues(v, w), Fades(v, w),
           w.session # "none" =>
               w.session = v.session /\ w.asked = v.asked /\ w.granted = v.granted /\ w.open = v.open
    PROVE  StreamInv(w)
  <1>1. v.way \in Seq(RequestType) /\ v.down \in Seq(MessageType)  BY DEF ViewType
  <1>2. Shorter(v, w, 0, 0)  BY <1>1, Positions DEF Shorter, SameQueues
  <1>3. /\ \A id : Underway(w, id) = Underway(v, id)
        /\ \A h, s : Told(w, h, s) = Told(v, h, s)
    BY SameClaims
  <1>4. 0 \in Nat /\ w.owner = v.owner /\ w.calls = v.calls  BY DEF SameQueues
  <1>. QED  BY <1>2, <1>3, <1>4, Shrinks

\* A client's call moves on, and nothing else does.
LEMMA CallStep ==
    ASSUME IInv, Types', ClientSide', NEW c \in Clients, NEW id \in Ids,
           Only(calls, calls', c, id), \A d \in Clients : d # c => held'[d] = held[d],
           UNCHANGED <<req, line, daemon, actor, got, carried>>,
           calls[c][id].state \in {"sent", "failed"} => calls'[c][id].state \in {"sent", "failed"},
           calls'[c][id].state \in {"unused", "filed"} => calls[c][id].state \in {"unused", "filed"},
           \A i \in held'[c] : i \in held[c] \/ (i = id /\ calls[c][i].state = "answered"),
           id \in held'[c] \/ calls'[c][id].state = "answered" =>
               /\ calls'[c][id].answer = calls[c][id].answer
               /\ id \in held[c] \/ calls[c][id].state = "answered"
    PROVE  IInv'
  <1>0. Types /\ Commands /\ Registered /\ ClientSide /\ Streams /\ OwnTraffic  BY DEF IInv
  <1>1. Commands' /\ Registered'  BY <1>0, DaemonSame
  <1>2. ASSUME NEW d \in Clients, d # c  PROVE View(d)' = View(d) /\ broken'[d] = broken[d]
    BY <1>2 DEF View, Only, line, daemon
  <1>3. ASSUME c \notin Udp, ~broken'[c]  PROVE StreamInv(View(c))'
    <2>1. PICK v : v = View(c)  OBVIOUS
    <2>2. PICK w : w = View(c)'  OBVIOUS
    <2>3. StreamInv(v)  BY <1>0, <1>3, <2>1 DEF Streams, line
    <2>4. /\ v \in ViewType
          /\ v.owner = c /\ v.way = up[c] \o req[c] /\ v.down = down[c]
          /\ v.calls = calls[c] /\ v.held = held[c] /\ v.session = session[c]
          /\ v.asked = asked[c] /\ v.granted = granted[c] /\ v.open = open[c]
          /\ v.pump = pump[c]
      BY <1>0, <2>1, ViewIs
    <2>5. /\ w \in ViewType
          /\ w.owner = c /\ w.way = up'[c] \o req'[c] /\ w.down = down'[c]
          /\ w.calls = calls'[c] /\ w.held = held'[c] /\ w.session = session'[c]
          /\ w.asked = asked'[c] /\ w.granted = granted'[c] /\ w.open = open'[c]
          /\ w.pump = pump'[c]
      BY <2>2, ViewPrimed
    <2>6. /\ w.owner = v.owner /\ w.way = v.way /\ w.down = v.down /\ w.session = v.session
          /\ w.asked = v.asked /\ w.granted = v.granted /\ w.open = v.open /\ w.pump = v.pump
      BY <2>4, <2>5 DEF line, daemon
    <2>7. \A i \in Ids : i # id => w.calls[i] = v.calls[i]  BY <2>4, <2>5 DEF Only
    <2>8. /\ \A i \in Ids : Underway(v, i) => Underway(w, i)
          /\ \A i \in Ids : w.calls[i].state \in {"unused", "filed"} =>
                v.calls[i].state \in {"unused", "filed"}
      BY <2>4, <2>5, <2>7 DEF Underway
    <2>9. ASSUME NEW h \in Ids, NEW s \in Socks, Told(w, h, s)  PROVE Told(v, h, s)
      <3>1. CASE h = id  BY <2>4, <2>5, <2>9, <3>1 DEF Told
      <3>2. CASE h # id  BY <2>4, <2>5, <2>7, <2>9, <3>2 DEF Told
      <3>. QED  BY <3>1, <3>2
    <2>10. StreamInv(w)  BY <2>3, <2>4, <2>5, <2>6, <2>8, <2>9, CallsMove
    <2>. QED  BY <2>2, <2>10
  <1>4. Streams'  BY <1>0, <1>2, <1>3, OthersSame
  <1>5. OwnTraffic'  BY <1>0 DEF OwnTraffic
  <1>. QED  BY <1>1, <1>4, <1>5 DEF IInv

\* A client puts one more request in its channel.
LEMMA PutStep ==
    ASSUME IInv, Types', ClientSide', NEW c \in Clients, NEW r \in RequestType,
           req' = [req EXCEPT ![c] = Append(@, r)], UNCHANGED <<line, daemon, actor, got, carried>>,
           \A d \in Clients : d # c => calls'[d] = calls[d] /\ held'[d] = held[d],
           \A i \in Ids : calls[c][i].state \in {"sent", "failed"} =>
               calls'[c][i].state \in {"sent", "failed"},
           \A i \in Ids : calls'[c][i].state \in {"unused", "filed"} =>
               calls[c][i].state \in {"unused", "filed"},
           \A i \in Ids : i \in held'[c] \/ calls'[c][i].state = "answered" =>
               /\ i \in held[c] \/ calls[c][i].state = "answered"
               /\ calls'[c][i].answer = calls[c][i].answer,
           r.id \in Ids => calls[c][r.id].state = "filed" /\ calls'[c][r.id].state = "sent",
           r.kind \in {"Send", "Close"} => r.from \in held[c] /\ calls[c][r.from].answer = r.sock,
           r.kind = "Close" => r.from \notin held'[c] /\ calls'[c][r.from].state # "answered"
    PROVE  IInv'
  <1>0. Types /\ Commands /\ Registered /\ ClientSide /\ Streams /\ OwnTraffic  BY DEF IInv
  <1>1. Commands' /\ Registered'  BY <1>0, DaemonSame
  <1>2. ASSUME NEW d \in Clients, d # c  PROVE View(d)' = View(d) /\ broken'[d] = broken[d]
    BY <1>0, <1>2 DEF View, line, daemon, Types
  <1>3. ASSUME c \notin Udp, ~broken'[c]  PROVE StreamInv(View(c))'
    <2>1. PICK v : v = View(c)  OBVIOUS
    <2>2. PICK w : w = View(c)'  OBVIOUS
    <2>3. StreamInv(v)  BY <1>0, <1>3, <2>1 DEF Streams, line
    <2>4. /\ v \in ViewType
          /\ v.owner = c /\ v.way = up[c] \o req[c] /\ v.down = down[c]
          /\ v.calls = calls[c] /\ v.held = held[c] /\ v.session = session[c]
          /\ v.asked = asked[c] /\ v.granted = granted[c] /\ v.open = open[c]
          /\ v.pump = pump[c]
      BY <1>0, <2>1, ViewIs
    <2>5. /\ w \in ViewType
          /\ w.owner = c /\ w.way = up'[c] \o req'[c] /\ w.down = down'[c]
          /\ w.calls = calls'[c] /\ w.held = held'[c] /\ w.session = session'[c]
          /\ w.asked = asked'[c] /\ w.granted = granted'[c] /\ w.open = open'[c]
          /\ w.pump = pump'[c]
      BY <2>2, ViewPrimed
    <2>6. /\ w.owner = v.owner /\ w.down = v.down /\ w.session = v.session
          /\ w.asked = v.asked /\ w.granted = v.granted /\ w.open = v.open /\ w.pump = v.pump
      BY <2>4, <2>5 DEF line, daemon
    <2>7. w.way = Append(v.way, r)
      <3>1. PICK p \in Seq(RequestType), q \in Seq(RequestType) : p = up[c] /\ q = req[c]
        BY <1>0 DEF Types
      <3>2. req'[c] = Append(q, r) /\ up'[c] = p  BY <1>0, <3>1 DEF Types, line
      <3>3. p \o Append(q, r) = Append(p \o q, r)  BY PutBehind
      <3>4. v.way = p \o q /\ w.way = p \o Append(q, r)  BY <2>4, <2>5, <3>1, <3>2
      <3>. QED  BY <3>3, <3>4
    <2>8. /\ \A i \in Ids : Underway(v, i) => Underway(w, i)
          /\ \A i \in Ids : w.calls[i].state \in {"unused", "filed"} =>
                v.calls[i].state \in {"unused", "filed"}
          /\ r.id \in Ids => v.calls[r.id].state = "filed" /\ Underway(w, r.id)
      BY <2>4, <2>5 DEF Underway
    <2>9. \A h \in Ids, s \in Socks : Told(w, h, s) => Told(v, h, s)
      BY <2>4, <2>5 DEF Told
    <2>10. Shaped(r)  BY DEF RequestType
    <2>11. ASSUME r.kind \in {"Send", "Close"}
           PROVE  /\ r.from \in Ids /\ r.sock \in Socks /\ Told(v, r.from, r.sock)
                  /\ v.session # "none" =>
                        v.open[r.sock] = r.from /\ \A j \in DOMAIN v.way : ~Closes(v.way[j], r.sock)
      <3>1. r.from \in Ids /\ r.sock \in Socks  BY <2>10, <2>11 DEF Shaped
      <3>2. Told(v, r.from, r.sock)  BY <2>4, <2>11 DEF Told
      <3>3. Claims(v, r.from, r.sock)  BY <3>2 DEF Claims
      <3>. QED  BY <2>3, <3>1, <3>2, <3>3 DEF StreamInv, Claimed
    <2>12. ASSUME v.session # "none", r.kind = "Close", NEW h \in Ids, Claims(w, h, r.sock)  PROVE FALSE
      <3>1. r.from \in Ids /\ r.sock \in Socks  BY <2>11, <2>12
      <3>2. RepliesTo(w, h) = RepliesTo(v, h)  BY <2>6 DEF RepliesTo
      <3>3. Claims(v, h, r.sock)  BY <2>6, <2>9, <2>12, <3>1, <3>2 DEF Claims
      <3>4. h = r.from  BY <2>3, <2>11, <2>12, <3>1, <3>3 DEF StreamInv, Claimed
      <3>5. ~Told(w, h, r.sock)  BY <2>5, <2>12, <3>4 DEF Told
      <3>6. PICK k : k \in RepliesTo(v, h)  BY <2>12, <3>2, <3>5 DEF Claims
      <3>7. Underway(v, h)  BY <2>3, <3>6 DEF StreamInv, OnePlace
      <3>8. calls[c][h].state = "ended"  BY <1>0, <2>12, <3>4 DEF ClientSide, Handles
      <3>. QED  BY <2>4, <3>7, <3>8 DEF Underway
    <2>13. StreamInv(w)
      BY <2>3, <2>4, <2>5, <2>6, <2>7, <2>8, <2>9, <2>10, <2>11, <2>12, Puts
    <2>. QED  BY <2>2, <2>13
  <1>4. Streams'  BY <1>0, <1>2, <1>3, OthersSame
  <1>5. OwnTraffic'  BY <1>0 DEF OwnTraffic
  <1>. QED  BY <1>1, <1>4, <1>5 DEF IInv

\* A request put in a channel with room.
LEMMA Queued ==
    ASSUME Types, NEW c \in Clients, NEW r \in RequestType, Len(req[c]) < ReqCap,
           req' = [req EXCEPT ![c] = Append(@, r)]
    PROVE  req' \in [Clients -> Seq(RequestType)] /\ \A d \in Clients : Len(req'[d]) <= ReqCap
  <1>1. req \in [Clients -> Seq(RequestType)] /\ \A d \in Clients : Len(req[d]) <= ReqCap  BY DEF Types
  <1>2. /\ Append(req[c], r) \in Seq(RequestType) /\ Len(Append(req[c], r)) = Len(req[c]) + 1
        /\ Len(req[c]) \in Nat
    BY <1>1, AppendIs
  <1>3. \A d \in Clients : req'[d] = IF d = c THEN Append(req[c], r) ELSE req[d]  BY <1>1
  <1>. QED  BY <1>1, <1>2, <1>3, Numbers

-----------------------------------------------------------------------------
(* The client's callers *)

LEMMA KeptByCall ==
    ASSUME IInv, NEW c \in Clients, NEW kind \in {"Open", "Query"}, NEW want \in Socks \cup {Dyn},
           Call(c, kind, want)
    PROVE  IInv'
  <1>0. Types /\ ClientSide  BY DEF IInv
  <1>1. PICK id \in Ids :
           /\ calls[c][id].state = "unused"
           /\ calls' = [calls EXCEPT ![c][id] =
                          [kind |-> kind, want |-> want, state |-> "filed", answer |-> 0,
                           late |-> reader[c] = "done"]]
           /\ pending' = [pending EXCEPT ![c] = @ \cup {id}]
    BY DEF Call
  <1>2. UNCHANGED <<sockets, held, req, line, daemon, actor, got, carried>>  BY DEF Call
  <1>3. PICK x : x = [kind |-> kind, want |-> want, state |-> "filed", answer |-> 0,
                      late |-> reader[c] = "done"]
    OBVIOUS
  <1>4. x \in CallType /\ x.state = "filed"  BY <1>3 DEF CallType
  <1>5. Changed(calls, calls', c, id, x)  BY <1>1, <1>3 DEF Changed
  <1>6. calls' \in CallTable /\ Only(calls, calls', c, id) /\ calls'[c][id] = x
    BY <1>0, <1>4, <1>5, CallEntry DEF Types
  <1>7. Types'  BY <1>0, <1>1, <1>2, <1>6 DEF Types, line, daemon, actor
  <1>8. \A d \in Clients : Handles(d)  BY <1>0 DEF ClientSide
  <1>9. id \notin held[c]  BY <1>1, <1>8 DEF Handles
  <1>10. ClientSide'
    <2>1. ASSUME NEW d \in Clients  PROVE Handles(d)'
      <3>1. \A i \in pending'[d] : i \in Ids => calls'[d][i].state \in {"filed", "sent"}
        BY <1>0, <1>1, <1>4, <1>6, <1>8 DEF Handles, Only, Types
      <3>2. \A i \in held[d] : i \in Ids /\ calls'[d][i] = calls[d][i]
        BY <1>0, <1>6, <1>9 DEF Only, Types
      <3>. QED  BY <1>2, <1>8, <3>1, <3>2 DEF Handles
    <2>. QED  BY <1>0, <1>2, <2>1 DEF ClientSide, line
  <1>. QED  BY <1>1, <1>2, <1>4, <1>6, <1>7, <1>9, <1>10, CallStep

LEMMA KeptBySendRequest ==
    ASSUME IInv, NEW c \in Clients, NEW id \in Ids, SendRequest(c, id)
    PROVE  IInv'
  <1>0. Types /\ ClientSide  BY DEF IInv
  <1>1. /\ calls[c][id].state = "filed"
        /\ UNCHANGED <<sockets, held, line, daemon, actor, got, carried>>
    BY DEF SendRequest
  <1>2. \A d \in Clients : Handles(d)  BY <1>0 DEF ClientSide
  <1>3. calls[c][id] \in CallType  BY <1>0 DEF Types, CallTable
  <1>4. id \notin held[c]  BY <1>1, <1>2 DEF Handles
  <1>5. CASE /\ Len(req[c]) < ReqCap
             /\ req' = [req EXCEPT ![c] =
                          Append(@, Request(id, calls[c][id].kind, calls[c][id].want, 0))]
             /\ calls' = [calls EXCEPT ![c][id].state = "sent"]
             /\ UNCHANGED pending
    <2>1. PICK x : x = [calls[c][id] EXCEPT !.state = "sent"]  OBVIOUS
    <2>2. x \in CallType /\ x.state = "sent" /\ x.answer = calls[c][id].answer  BY <1>3, <2>1, CallFields
    <2>3. Changed(calls, calls', c, id, x)  BY <1>5, <2>1 DEF Changed
    <2>4. calls' \in CallTable /\ Only(calls, calls', c, id) /\ calls'[c][id] = x
      BY <1>0, <2>2, <2>3, CallEntry DEF Types
    <2>5. PICK r : r = Request(id, calls[c][id].kind, calls[c][id].want, 0)  OBVIOUS
    <2>6. r \in RequestType /\ r.id = id /\ r.kind \in {"Open", "Query"}
      BY <1>3, <2>5, Numbers DEF Request, RequestType, Shaped, CallType
    <2>7. req' \in [Clients -> Seq(RequestType)] /\ \A d \in Clients : Len(req'[d]) <= ReqCap
      BY <1>0, <1>5, <2>5, <2>6, Queued
    <2>8. Types'  BY <1>0, <1>1, <1>5, <2>4, <2>7 DEF Types, line, daemon, actor
    <2>9. ClientSide'
      <3>1. ASSUME NEW d \in Clients  PROVE Handles(d)'
        <4>1. \A i \in pending[d] : i \in Ids => calls'[d][i].state \in {"filed", "sent"}
          BY <1>2, <2>2, <2>4 DEF Handles, Only
        <4>2. \A i \in held[d] : i \in Ids /\ calls'[d][i] = calls[d][i]
          BY <1>0, <1>4, <2>4 DEF Only, Types
        <4>. QED  BY <1>1, <1>2, <1>5, <4>1, <4>2 DEF Handles
      <3>. QED  BY <1>0, <1>1, <3>1 DEF ClientSide, line
    <2>10. /\ \A d \in Clients : d # c => calls'[d] = calls[d] /\ held'[d] = held[d]
           /\ \A i \in Ids : i # id => calls'[c][i] = calls[c][i]
      BY <1>1, <2>4 DEF Only
    <2>11. /\ \A i \in Ids : calls[c][i].state \in {"sent", "failed"} =>
                  calls'[c][i].state \in {"sent", "failed"}
           /\ \A i \in Ids : calls'[c][i].state \in {"unused", "filed"} =>
                  calls[c][i].state \in {"unused", "filed"}
           /\ \A i \in Ids : i \in held'[c] \/ calls'[c][i].state = "answered" =>
                  /\ i \in held[c] \/ calls[c][i].state = "answered"
                  /\ calls'[c][i].answer = calls[c][i].answer
      BY <1>1, <2>2, <2>4, <2>10
    <2>12. req' = [req EXCEPT ![c] = Append(@, r)]  BY <1>5, <2>5
    <2>. QED  BY <1>1, <2>2, <2>4, <2>6, <2>8, <2>9, <2>10, <2>11, <2>12, PutStep
  <1>6. CASE /\ pending' = [pending EXCEPT ![c] = @ \ {id}]
             /\ calls' = [calls EXCEPT ![c][id].state = "failed"]
             /\ UNCHANGED req
    <2>1. PICK x : x = [calls[c][id] EXCEPT !.state = "failed"]  OBVIOUS
    <2>2. x \in CallType /\ x.state = "failed"  BY <1>3, <2>1, CallFields
    <2>3. Changed(calls, calls', c, id, x)  BY <1>6, <2>1 DEF Changed
    <2>4. calls' \in CallTable /\ Only(calls, calls', c, id) /\ calls'[c][id] = x
      BY <1>0, <2>2, <2>3, CallEntry DEF Types
    <2>5. Types'  BY <1>0, <1>1, <1>6, <2>4 DEF Types, line, daemon, actor
    <2>6. ClientSide'
      <3>1. ASSUME NEW d \in Clients  PROVE Handles(d)'
        <4>1. \A i \in pending'[d] : i \in Ids => calls'[d][i].state \in {"filed", "sent"}
          BY <1>0, <1>2, <1>6, <2>4 DEF Handles, Only, Types
        <4>2. \A i \in held[d] : i \in Ids /\ calls'[d][i] = calls[d][i]
          BY <1>0, <1>4, <2>4 DEF Only, Types
        <4>. QED  BY <1>1, <1>2, <4>1, <4>2 DEF Handles
      <3>. QED  BY <1>0, <1>1, <3>1 DEF ClientSide, line
    <2>. QED  BY <1>1, <1>4, <1>6, <2>2, <2>4, <2>5, <2>6, CallStep
  <1>. QED  BY <1>5, <1>6 DEF SendRequest

LEMMA KeptByCallFails ==
    ASSUME IInv, NEW c \in Clients, NEW id \in Ids, CallFails(c, id)
    PROVE  IInv'
  <1>0. Types /\ ClientSide  BY DEF IInv
  <1>1. /\ calls[c][id].state = "sent" /\ id \notin pending[c]
        /\ calls' = [calls EXCEPT ![c][id].state = "failed"]
        /\ UNCHANGED <<pending, sockets, held, req, line, daemon, actor, got, carried>>
    BY DEF CallFails
  <1>2. \A d \in Clients : Handles(d)  BY <1>0 DEF ClientSide
  <1>3. id \notin held[c]  BY <1>1, <1>2 DEF Handles
  <1>4. PICK x : x = [calls[c][id] EXCEPT !.state = "failed"]  OBVIOUS
  <1>5. x \in CallType /\ x.state = "failed"
    <2>1. calls[c][id] \in CallType  BY <1>0 DEF Types, CallTable
    <2>. QED  BY <1>4, <2>1, CallFields
  <1>6. Changed(calls, calls', c, id, x)  BY <1>1, <1>4 DEF Changed
  <1>7. calls' \in CallTable /\ Only(calls, calls', c, id) /\ calls'[c][id] = x
    BY <1>0, <1>5, <1>6, CallEntry DEF Types
  <1>8. Types'  BY <1>0, <1>1, <1>7 DEF Types, line, daemon, actor
  <1>9. ClientSide'
    <2>1. ASSUME NEW d \in Clients  PROVE Handles(d)'
      <3>1. \A i \in pending[d] : i \in Ids => calls'[d][i].state \in {"filed", "sent"}
        BY <1>1, <1>2, <1>7 DEF Handles, Only
      <3>2. \A i \in held[d] : i \in Ids /\ calls'[d][i] = calls[d][i]
        BY <1>0, <1>3, <1>7 DEF Only, Types
      <3>. QED  BY <1>1, <1>2, <3>1, <3>2 DEF Handles
    <2>. QED  BY <1>0, <1>1, <2>1 DEF ClientSide, line
  <1>. QED  BY <1>1, <1>3, <1>5, <1>7, <1>8, <1>9, CallStep

LEMMA KeptByCallReturns ==
    ASSUME IInv, NEW c \in Clients, NEW id \in Ids, CallReturns(c, id)
    PROVE  IInv'
  <1>0. Types /\ ClientSide  BY DEF IInv
  <1>. DEFINE s   == calls[c][id].answer
              end == IF s = InUse THEN "failed" ELSE "ended"
  <1>1. /\ calls[c][id].state = "answered"
        /\ calls' = [calls EXCEPT ![c][id].state = end]
        /\ UNCHANGED <<pending, req, line, daemon, actor, got, carried>>
    BY DEF CallReturns
  <1>2. \/ /\ s \in Socks
           /\ sockets' = [sockets EXCEPT ![c][s] = id] /\ held' = [held EXCEPT ![c] = @ \cup {id}]
        \/ UNCHANGED <<sockets, held>>
    BY DEF CallReturns
  <1>3. \A d \in Clients : Handles(d)  BY <1>0 DEF ClientSide
  <1>4. id \notin held[c] /\ id \notin pending[c]  BY <1>1, <1>3 DEF Handles
  <1>5. PICK x : x = [calls[c][id] EXCEPT !.state = end]  OBVIOUS
  <1>6. x \in CallType /\ x.state = end /\ x.answer = s
    <2>1. calls[c][id] \in CallType  BY <1>0 DEF Types, CallTable
    <2>2. end \in {"failed", "ended"}  OBVIOUS
    <2>. HIDE DEF end, s
    <2>3. x \in CallType /\ x.state = end /\ x.answer = calls[c][id].answer
      BY <1>5, <2>1, <2>2 DEF CallType
    <2>. QED  BY <2>3 DEF s
  <1>7. Changed(calls, calls', c, id, x)  BY <1>1, <1>5 DEF Changed
  <1>8. calls' \in CallTable /\ Only(calls, calls', c, id) /\ calls'[c][id] = x
    BY <1>0, <1>6, <1>7, CallEntry DEF Types
  <1>9. /\ sockets' \in OpenTable /\ held' \in [Clients -> SUBSET Ids]
        /\ \A d \in Clients : d # c => sockets'[d] = sockets[d] /\ held'[d] = held[d]
        /\ \A n \in Socks : sockets'[c][n] = sockets[c][n] \/ (n = s /\ sockets'[c][n] = id /\ id \in held'[c])
        /\ \A i \in held'[c] : i \in held[c] \/ (i = id /\ s \in Socks)
        /\ \A i \in held[c] : i \in held'[c]
    <2>. HIDE DEF s
    <2>1. sockets \in [Clients -> [Socks -> Ids \cup {0}]] /\ held \in [Clients -> SUBSET Ids]
      BY <1>0 DEF Types, OpenTable
    <2>2. CASE /\ s \in Socks
               /\ sockets' = [sockets EXCEPT ![c][s] = id] /\ held' = [held EXCEPT ![c] = @ \cup {id}]
      <3>1. held' \in [Clients -> SUBSET Ids]  BY <2>1, <2>2
      <3>2. sockets' \in [Clients -> [Socks -> Ids \cup {0}]]  BY <2>1, <2>2
      <3>3. /\ \A d \in Clients : d # c => sockets'[d] = sockets[d] /\ held'[d] = held[d]
            /\ \A i \in held'[c] : i \in held[c] \/ (i = id /\ s \in Socks)
            /\ \A i \in held[c] : i \in held'[c]
            /\ id \in held'[c]
        BY <2>1, <2>2
      <3>4. \A n \in Socks : sockets'[c][n] = sockets[c][n] \/ (n = s /\ sockets'[c][n] = id)
        BY <2>1, <2>2
      <3>. QED  BY <3>1, <3>2, <3>3, <3>4 DEF OpenTable
    <2>3. CASE UNCHANGED <<sockets, held>>  BY <2>1, <2>3 DEF OpenTable
    <2>. QED  BY <1>2, <2>2, <2>3
  <1>. HIDE DEF s
  <1>10. Types'  BY <1>0, <1>1, <1>8, <1>9 DEF Types, line, daemon, actor
  <1>11. ClientSide'
    <2>1. ASSUME NEW d \in Clients, d # c  PROVE Handles(d)'
      BY <1>1, <1>3, <1>8, <1>9, <2>1 DEF Handles, Only
    <2>2. Handles(c)'
      <3>1. \A i \in Ids : i # id => calls'[c][i] = calls[c][i]  BY <1>8 DEF Only
      <3>2. \A i \in pending'[c] : i \in Ids => calls'[c][i].state \in {"filed", "sent"}
        BY <1>1, <1>3, <1>4, <3>1 DEF Handles
      <3>3. \A i \in held'[c] : calls'[c][i].state = "ended" /\ calls'[c][i].answer \in Socks
        <4>1. ASSUME NEW i \in held'[c], i # id
              PROVE  calls'[c][i].state = "ended" /\ calls'[c][i].answer \in Socks
          <5>1. i \in held[c] /\ i \in Ids  BY <1>9, <4>1
          <5>. QED  BY <1>3, <3>1, <4>1, <5>1 DEF Handles
        <4>2. id \in held'[c] => s \in Socks /\ s # InUse  BY <1>4, <1>9, Numbers
        <4>3. id \in held'[c] => calls'[c][id].state = "ended" /\ calls'[c][id].answer \in Socks
          BY <1>6, <1>8, <4>2
        <4>. QED  BY <4>1, <4>3
      <3>4. ASSUME NEW n \in Socks, sockets'[c][n] # 0
            PROVE  sockets'[c][n] \in held'[c] /\ calls'[c][sockets'[c][n]].answer = n
        <4>1. CASE sockets'[c][n] = sockets[c][n]
          <5>1. sockets[c][n] \in held[c] /\ calls[c][sockets[c][n]].answer = n
            BY <1>3, <3>4, <4>1 DEF Handles
          <5>. QED  BY <1>0, <1>4, <1>9, <3>1, <4>1, <5>1 DEF Types
        <4>2. CASE n = s /\ sockets'[c][n] = id /\ id \in held'[c]
          BY <1>6, <1>8, <4>2
        <4>. QED  BY <1>9, <4>1, <4>2
      <3>. QED  BY <3>2, <3>3, <3>4 DEF Handles
    <2>. QED  BY <1>0, <1>1, <2>1, <2>2 DEF ClientSide, line
  <1>12. calls'[c][id].state \in {"failed", "ended"} /\ calls'[c][id].answer = calls[c][id].answer
    BY <1>6, <1>8 DEF s
  <1>13. \A i \in held'[c] : i \in held[c] \/ (i = id /\ calls[c][i].state = "answered")
    BY <1>1, <1>9
  <1>. QED  BY <1>1, <1>8, <1>9, <1>10, <1>11, <1>12, <1>13, CallStep

LEMMA KeptByDropSocket ==
    ASSUME IInv, NEW c \in Clients, NEW id \in Ids, DropSocket(c, id)
    PROVE  IInv'
  <1>0. Types /\ ClientSide  BY DEF IInv
  <1>. DEFINE s == calls[c][id].answer
  <1>1. /\ id \in held[c]
        /\ held' = [held EXCEPT ![c] = @ \ {id}] /\ sockets' = [sockets EXCEPT ![c][s] = 0]
        /\ UNCHANGED <<calls, pending, line, daemon, actor, got, carried>>
        /\ \/ Len(req[c]) < ReqCap /\ req' = [req EXCEPT ![c] = Append(@, Request(0, "Close", s, id))]
           \/ UNCHANGED req
    BY DEF DropSocket
  <1>2. \A d \in Clients : Handles(d)  BY <1>0 DEF ClientSide
  <1>3. s \in Socks /\ calls[c][id].state = "ended"  BY <1>1, <1>2 DEF Handles
  <1>4. /\ held' \in [Clients -> SUBSET Ids] /\ sockets' \in OpenTable
        /\ \A d \in Clients : d # c => sockets'[d] = sockets[d] /\ held'[d] = held[d]
        /\ held'[c] = held[c] \ {id}
        /\ sockets'[c][s] = 0 /\ \A n \in Socks : n # s => sockets'[c][n] = sockets[c][n]
    <2>. HIDE DEF s
    <2>1. sockets \in [Clients -> [Socks -> Ids \cup {0}]] /\ held \in [Clients -> SUBSET Ids]
      BY <1>0 DEF Types, OpenTable
    <2>2. held' \in [Clients -> SUBSET Ids] /\ held'[c] = held[c] \ {id}
          /\ \A d \in Clients : d # c => held'[d] = held[d]
      BY <1>1, <2>1
    <2>3. /\ sockets' \in [Clients -> [Socks -> Ids \cup {0}]]
          /\ sockets'[c][s] = 0 /\ \A n \in Socks : n # s => sockets'[c][n] = sockets[c][n]
          /\ \A d \in Clients : d # c => sockets'[d] = sockets[d]
      BY <1>1, <1>3, <2>1
    <2>. QED  BY <2>2, <2>3 DEF OpenTable
  <1>5. \A d \in Clients : Handles(d)'
    <2>1. ASSUME NEW d \in Clients, d # c  PROVE Handles(d)'
      BY <1>1, <1>2, <1>4, <2>1 DEF Handles
    <2>2. Handles(c)'
      <3>1. ASSUME NEW n \in Socks, sockets'[c][n] # 0
            PROVE  sockets'[c][n] \in held'[c] /\ calls'[c][sockets'[c][n]].answer = n
        <4>1. n # s /\ sockets'[c][n] = sockets[c][n]  BY <1>4, <3>1
        <4>2. sockets[c][n] \in held[c] /\ calls[c][sockets[c][n]].answer = n
          BY <1>2, <3>1, <4>1 DEF Handles
        <4>. QED  BY <1>1, <1>4, <4>1, <4>2
      <3>. QED  BY <1>1, <1>2, <1>4, <3>1 DEF Handles
    <2>. QED  BY <2>1, <2>2
  <1>6. ClientSide'  BY <1>0, <1>1, <1>5 DEF ClientSide, line
  <1>7. /\ Only(calls, calls', c, id) /\ \A d \in Clients : d # c => held'[d] = held[d]
        /\ \A i \in held'[c] : i \in held[c]
        /\ id \notin held'[c] /\ calls'[c][id].state = "ended" /\ calls' = calls
    BY <1>1, <1>3, <1>4 DEF Only
  <1>8. CASE UNCHANGED req
    <2>1. Types'  BY <1>0, <1>1, <1>4, <1>8 DEF Types, line, daemon, actor
    <2>. QED  BY <1>1, <1>3, <1>6, <1>7, <1>8, <2>1, CallStep
  <1>9. CASE Len(req[c]) < ReqCap /\ req' = [req EXCEPT ![c] = Append(@, Request(0, "Close", s, id))]
    <2>1. PICK r : r = Request(0, "Close", s, id)  OBVIOUS
    <2>2. r \in RequestType /\ r.id = 0 /\ r.kind = "Close" /\ r.sock = s /\ r.from = id
      BY <1>3, <2>1 DEF Request, RequestType, Shaped
    <2>3. req' = [req EXCEPT ![c] = Append(@, r)]  BY <1>9, <2>1
    <2>4. req' \in [Clients -> Seq(RequestType)] /\ \A d \in Clients : Len(req'[d]) <= ReqCap
      BY <1>0, <1>9, <2>2, <2>3, Queued
    <2>5. Types'  BY <1>0, <1>1, <1>4, <2>4 DEF Types, line, daemon, actor
    <2>6. r.id \notin Ids /\ calls[c][r.from].answer = r.sock /\ r.from \in held[c]
      BY <1>1, <2>2, Numbers
    <2>. QED  BY <1>1, <1>6, <1>7, <2>2, <2>3, <2>5, <2>6, PutStep
  <1>. QED  BY <1>1, <1>8, <1>9

LEMMA KeptBySendDatagram ==
    ASSUME IInv, NEW c \in Clients, NEW id \in Ids, SendDatagram(c, id)
    PROVE  IInv'
  <1>0. Types /\ ClientSide  BY DEF IInv
  <1>1. PICK r : r = Request(0, "Send", calls[c][id].answer, id)  OBVIOUS
  <1>2. /\ id \in held[c] /\ Len(req[c]) < ReqCap /\ req' = [req EXCEPT ![c] = Append(@, r)]
        /\ UNCHANGED <<calls, pending, sockets, held, line, daemon, actor, got, carried>>
    BY <1>1 DEF SendDatagram
  <1>3. calls[c][id].answer \in Socks  BY <1>0, <1>2 DEF ClientSide, Handles
  <1>4. r \in RequestType /\ r.id = 0 /\ r.kind = "Send" /\ r.sock = calls[c][id].answer /\ r.from = id
    BY <1>1, <1>3 DEF Request, RequestType, Shaped
  <1>5. req' \in [Clients -> Seq(RequestType)] /\ \A d \in Clients : Len(req'[d]) <= ReqCap
    BY <1>0, <1>2, <1>4, Queued
  <1>6. Types'  BY <1>0, <1>2, <1>5 DEF Types, line, daemon, actor
  <1>7. ClientSide'  BY <1>0, <1>2 DEF ClientSide, Handles, line
  <1>8. r.id \notin Ids  BY <1>4, Numbers
  <1>. QED  BY <1>2, <1>4, <1>6, <1>7, <1>8, PutStep

LEMMA KeptByKeepAlive ==
    ASSUME IInv, NEW c \in Clients, KeepAlive(c)
    PROVE  IInv'
  <1>0. Types /\ ClientSide  BY DEF IInv
  <1>1. PICK r : r = Request(Ping, "Query", 0, 0)  OBVIOUS
  <1>2. /\ req[c] = <<>> /\ req' = [req EXCEPT ![c] = Append(@, r)]
        /\ pending' = [pending EXCEPT ![c] = @ \cup {Ping}]
        /\ UNCHANGED <<calls, sockets, held, line, daemon, actor, got, carried>>
    BY <1>1 DEF KeepAlive
  <1>3. r \in RequestType /\ r.id = Ping /\ r.kind = "Query"
    BY <1>1, Numbers DEF Request, RequestType, Shaped
  <1>4. Len(req[c]) < ReqCap  BY <1>2, Numbers
  <1>5. req' \in [Clients -> Seq(RequestType)] /\ \A d \in Clients : Len(req'[d]) <= ReqCap
    BY <1>0, <1>2, <1>3, <1>4, Queued
  <1>6. Types'  BY <1>0, <1>2, <1>5 DEF Types, line, daemon, actor
  <1>7. ClientSide'
    <2>1. \A d \in Clients : \A i \in pending'[d] : i \in Ids => i \in pending[d]
      BY <1>0, <1>2, Numbers DEF Types
    <2>. QED  BY <1>0, <1>2, <2>1 DEF ClientSide, Handles, line
  <1>8. r.id \notin Ids  BY <1>3, Numbers
  <1>. QED  BY <1>2, <1>3, <1>6, <1>7, <1>8, PutStep

-----------------------------------------------------------------------------
(* The client's connection *)

\* What the queues carry, the numbers and the handles stay: the tasks that stop, the program
\* that stops its stack.
LEMMA QuietStep ==
    ASSUME IInv, Types', ClientSide', UNCHANGED <<calls, held, line, req, daemon, actor, got, carried>>
    PROVE  IInv'
  <1>0. Commands /\ Registered /\ Streams /\ OwnTraffic  BY DEF IInv
  <1>1. Commands' /\ Registered'  BY <1>0, DaemonSame
  <1>2. Streams'  BY <1>0 DEF Streams, View, line, daemon
  <1>3. OwnTraffic'  BY <1>0 DEF OwnTraffic
  <1>. QED  BY <1>1, <1>2, <1>3 DEF IInv

LEMMA KeptByReaderStops ==
    ASSUME IInv, NEW c \in Clients, ReaderStops(c) \/ Shutdown(c)
    PROVE  IInv'
  <1>0. Types /\ ClientSide  BY DEF IInv
  <1>1. UNCHANGED <<calls, pending, sockets, held, req, line, daemon, actor, got, carried>>
    BY DEF ReaderStops, Shutdown
  <1>2. Types'  BY <1>0, <1>1 DEF Types, line, daemon, actor
  <1>3. ClientSide'  BY <1>0, <1>1 DEF ClientSide, Handles, line
  <1>. QED  BY <1>1, <1>2, <1>3, QuietStep

LEMMA KeptByFailPending ==
    ASSUME IInv, NEW c \in Clients, FailPending(c)
    PROVE  IInv'
  <1>0. Types /\ ClientSide  BY DEF IInv
  <1>1. /\ pending' = [pending EXCEPT ![c] = {}] /\ sockets' = [sockets EXCEPT ![c] = [s \in Socks |-> 0]]
        /\ UNCHANGED <<calls, held, req, line, daemon, actor, got, carried>>
    BY DEF FailPending
  <1>2. /\ \A d \in Clients : d # c => sockets'[d] = sockets[d] /\ pending'[d] = pending[d]
        /\ pending'[c] = {} /\ \A s \in Socks : sockets'[c][s] = 0
        /\ sockets' \in OpenTable /\ pending' \in [Clients -> SUBSET (Ids \cup {Ping})]
    BY <1>0, <1>1 DEF Types, OpenTable
  <1>3. Types'  BY <1>0, <1>1, <1>2 DEF Types, line, daemon, actor
  <1>4. ClientSide'
    <2>1. ASSUME NEW d \in Clients, d # c  PROVE Handles(d)'
      BY <1>0, <1>1, <1>2, <2>1 DEF ClientSide, Handles
    <2>2. Handles(c)'  BY <1>0, <1>1, <1>2 DEF ClientSide, Handles
    <2>. QED  BY <1>0, <1>1, <2>1, <2>2 DEF ClientSide, line
  <1>. QED  BY <1>1, <1>3, <1>4, QuietStep

\* A request goes from the channel to the line: it is as far on its way as before.
LEMMA KeptByWrite ==
    ASSUME IInv, NEW c \in Clients, Write(c)
    PROVE  IInv'
  <1>0. Types /\ Commands /\ Registered /\ ClientSide /\ Streams /\ OwnTraffic  BY DEF IInv
  <1>1. /\ req[c] # <<>> /\ ~broken[c] /\ req' = [req EXCEPT ![c] = Tail(@)]
        /\ \/ up' = [up EXCEPT ![c] = Append(@, Head(req[c]))]
           \/ c \in Udp /\ up' = up
        /\ UNCHANGED <<calls, pending, sockets, held, down, broken, daemon, actor, got, carried>>
    BY DEF Write
  <1>2. PICK q \in Seq(RequestType) : q = req[c] /\ q # <<>> /\ Len(q) <= ReqCap
    BY <1>0, <1>1 DEF Types
  <1>3. Tail(q) \in Seq(RequestType) /\ Head(q) \in RequestType /\ Len(Tail(q)) <= ReqCap
    BY <1>2, TailIs, Numbers
  <1>4. \A d \in Clients : req'[d] = IF d = c THEN Tail(q) ELSE req[d]  BY <1>0, <1>1, <1>2 DEF Types
  <1>5. PICK p \in Seq(RequestType) : p = up[c]  BY <1>0 DEF Types
  <1>6. Append(p, Head(q)) \in Seq(RequestType)  BY <1>3, AppendIs
  <1>7. \A d \in Clients : d # c => up'[d] = up[d]  BY <1>0, <1>1 DEF Types
  <1>8. up' = up \/ up'[c] = Append(p, Head(q))  BY <1>0, <1>1, <1>2, <1>5 DEF Types
  <1>9. up' \in [Clients -> Seq(RequestType)]  BY <1>0, <1>1, <1>2, <1>5, <1>6 DEF Types
  <1>10. req' \in [Clients -> Seq(RequestType)] /\ \A d \in Clients : Len(req'[d]) <= ReqCap
    BY <1>0, <1>1, <1>2, <1>3, <1>4 DEF Types
  <1>11. Types'  BY <1>0, <1>1, <1>9, <1>10 DEF Types, daemon, actor
  <1>12. Commands' /\ Registered'  BY <1>0, <1>1, DaemonSame
  <1>13. ClientSide'  BY <1>0, <1>1, <1>7 DEF ClientSide, Handles
  <1>14. Streams'
    <2>1. ASSUME NEW d \in Clients, d # c  PROVE View(d)' = View(d) /\ broken'[d] = broken[d]
      BY <1>1, <1>4, <1>7, <2>1 DEF View, daemon
    <2>2. ASSUME c \notin Udp, ~broken'[c]  PROVE StreamInv(View(c))'
      <3>1. up' = [up EXCEPT ![c] = Append(@, Head(req[c]))]  BY <1>1, <2>2
      <3>2. up'[c] = Append(p, Head(q))  BY <1>0, <1>2, <1>5, <3>1 DEF Types
      <3>3. Append(p, Head(q)) \o Tail(q) = p \o q  BY <1>2, MoveOver
      <3>4. up'[c] \o req'[c] = up[c] \o req[c]  BY <1>2, <1>4, <1>5, <3>2, <3>3
      <3>5. View(c)' = View(c)  BY <1>1, <3>4 DEF View, daemon
      <3>6. StreamInv(View(c))  BY <1>0, <1>1, <2>2 DEF Streams
      <3>. QED  BY <3>5, <3>6
    <2>. QED  BY <1>0, <2>1, <2>2, OthersSame
  <1>15. OwnTraffic'  BY <1>0, <1>1 DEF OwnTraffic
  <1>. QED  BY <1>11, <1>12, <1>13, <1>14, <1>15 DEF IInv

LEMMA KeptByWriterStops ==
    ASSUME IInv, NEW c \in Clients, WriterStops(c)
    PROVE  IInv'
  <1>0. Types /\ Commands /\ Registered /\ ClientSide /\ Streams /\ OwnTraffic  BY DEF IInv
  <1>1. /\ req' = [req EXCEPT ![c] = <<>>]
        /\ UNCHANGED <<calls, pending, sockets, held, line, daemon, actor, got, carried>>
    BY DEF WriterStops
  <1>2. <<>> \in Seq(RequestType) /\ Len(<<>>) <= ReqCap  BY Numbers
  <1>3. \A d \in Clients : req'[d] = IF d = c THEN <<>> ELSE req[d]  BY <1>0, <1>1 DEF Types
  <1>4. req' \in [Clients -> Seq(RequestType)] /\ \A d \in Clients : Len(req'[d]) <= ReqCap
    BY <1>0, <1>1, <1>2, <1>3 DEF Types
  <1>5. Types'  BY <1>0, <1>1, <1>4 DEF Types, line, daemon, actor
  <1>6. Commands' /\ Registered'  BY <1>0, <1>1, DaemonSame
  <1>7. ClientSide'  BY <1>0, <1>1 DEF ClientSide, Handles, line
  <1>8. Streams'
    <2>1. ASSUME NEW d \in Clients, d # c  PROVE View(d)' = View(d) /\ broken'[d] = broken[d]
      BY <1>1, <1>3, <2>1 DEF View, line, daemon
    <2>2. ASSUME c \notin Udp, ~broken'[c]  PROVE StreamInv(View(c))'
      <3>1. PICK v : v = View(c)  OBVIOUS
      <3>2. PICK w : w = View(c)'  OBVIOUS
      <3>3. StreamInv(v)  BY <1>0, <1>1, <2>2, <3>1 DEF Streams, line
      <3>4. /\ v \in ViewType
            /\ v.owner = c /\ v.way = up[c] \o req[c] /\ v.down = down[c]
            /\ v.calls = calls[c] /\ v.held = held[c] /\ v.session = session[c]
            /\ v.asked = asked[c] /\ v.granted = granted[c] /\ v.open = open[c]
            /\ v.pump = pump[c]
        BY <1>0, <3>1, ViewIs
      <3>5. /\ w \in ViewType
            /\ w.owner = c /\ w.way = up'[c] \o req'[c] /\ w.down = down'[c]
            /\ w.calls = calls'[c] /\ w.held = held'[c] /\ w.session = session'[c]
            /\ w.asked = asked'[c] /\ w.granted = granted'[c] /\ w.open = open'[c]
            /\ w.pump = pump'[c]
        BY <1>5, <3>2, ViewPrimed
      <3>6. /\ w.owner = v.owner /\ w.down = v.down /\ w.calls = v.calls /\ w.held = v.held
            /\ w.session = v.session /\ w.asked = v.asked /\ w.granted = v.granted
            /\ w.open = v.open /\ w.pump = v.pump
        BY <1>1, <3>4, <3>5 DEF line, daemon
      <3>7. PICK p \in Seq(RequestType), q \in Seq(RequestType) : p = up[c] /\ q = req[c]
        BY <1>0 DEF Types
      <3>8. w.way = p /\ v.way = p \o q
        <4>1. p \o <<>> = p  BY <3>7, ConcatEmptySeq
        <4>2. req'[c] = <<>> /\ up'[c] = p  BY <1>1, <1>3, <3>7 DEF line
        <4>. QED  BY <3>4, <3>5, <3>7, <4>1, <4>2
      <3>9. Shorter(v, w, 0, 0)
        <4>1. /\ Len(p) \in Nat /\ Len(q) \in Nat /\ DOMAIN (p \o q) = 1 .. Len(p) + Len(q)
              /\ \A i \in 1 .. Len(p) : (p \o q)[i] = p[i]
          BY ConcatIs
        <4>2. DOMAIN p = 1 .. Len(p)  OBVIOUS
        <4>3. \A i \in DOMAIN p : i + 0 \in DOMAIN (p \o q) /\ p[i] = (p \o q)[i + 0]
          BY <4>1, <4>2
        <4>4. \A k \in DOMAIN v.down : k + 0 = k
          <5>1. v.down \in Seq(MessageType)  BY <3>4 DEF ViewType
          <5>. QED  BY <5>1, Positions
        <4>. QED  BY <3>6, <3>8, <4>3, <4>4 DEF Shorter
      <3>10. Fades(v, w)  BY <3>6 DEF Fades
      <3>11. /\ \A id \in Ids : Underway(v, id) => Underway(w, id)
             /\ \A h \in Ids, s \in Socks : Told(w, h, s) => Told(v, h, s)
        BY <3>6 DEF Underway, Told
      <3>12. 0 \in Nat  OBVIOUS
      <3>13. StreamInv(w)
        BY <3>3, <3>4, <3>5, <3>6, <3>9, <3>10, <3>11, <3>12, Shrinks
      <3>. QED  BY <3>2, <3>13
    <2>. QED  BY <1>0, <2>1, <2>2, OthersSame
  <1>9. OwnTraffic'  BY <1>0, <1>1 DEF OwnTraffic
  <1>. QED  BY <1>5, <1>6, <1>7, <1>8, <1>9 DEF IInv

LEMMA KeptByCut ==
    ASSUME IInv, NEW c \in Clients, Cut(c)
    PROVE  IInv'
  <1>0. Types /\ Commands /\ Registered /\ ClientSide /\ Streams /\ OwnTraffic  BY DEF IInv
  <1>1. /\ broken' = [broken EXCEPT ![c] = TRUE]
        /\ up' = [up EXCEPT ![c] = <<>>] /\ down' = [down EXCEPT ![c] = <<>>]
        /\ UNCHANGED <<client, daemon, actor, got, carried>>
    BY DEF Cut
  <1>2. /\ broken'[c] /\ up'[c] = <<>> /\ down'[c] = <<>>
        /\ \A d \in Clients : d # c => broken'[d] = broken[d] /\ up'[d] = up[d] /\ down'[d] = down[d]
    BY <1>0, <1>1 DEF Types
  <1>3. up' \in [Clients -> Seq(RequestType)] /\ down' \in [Clients -> Seq(MessageType)]
        /\ broken' \in [Clients -> BOOLEAN]
    BY <1>0, <1>1 DEF Types
  <1>4. Types'  BY <1>0, <1>1, <1>3 DEF Types, client, daemon, actor
  <1>5. Commands' /\ Registered'  BY <1>0, <1>1, DaemonSame
  <1>6. ClientSide'
    <2>1. ASSUME NEW d \in Clients  PROVE Handles(d)'  BY <1>0, <1>1 DEF ClientSide, Handles, client
    <2>2. ASSUME NEW d \in Clients, broken'[d]  PROVE up'[d] = <<>>
      <3>1. CASE d = c  BY <1>2, <3>1
      <3>2. CASE d # c  BY <1>0, <1>2, <2>2, <3>2 DEF ClientSide
      <3>. QED  BY <3>1, <3>2
    <2>. QED  BY <2>1, <2>2 DEF ClientSide
  <1>7. Streams'
    <2>1. ASSUME NEW d \in Clients, d # c  PROVE View(d)' = View(d) /\ broken'[d] = broken[d]
      BY <1>1, <1>2, <2>1 DEF View, client, daemon
    <2>. QED  BY <1>0, <1>2, <2>1, OthersSame
  <1>8. OwnTraffic'  BY <1>0, <1>1 DEF OwnTraffic
  <1>. QED  BY <1>4, <1>5, <1>6, <1>7, <1>8 DEF IInv

\* A message is taken off the line: what a client on a stream then knows of its sockets.
LEMMA MessageTaken ==
    ASSUME IInv, Types', ClientSide', NEW c \in Clients, NEW i \in DOMAIN down[c],
           c \notin Udp => i = 1,
           down' = [down EXCEPT ![c] = RemoveAt(@, i)],
           UNCHANGED <<held, req, up, broken, daemon, actor, carried>>,
           NEW m, m = down[c][i],
           \/ calls' = calls
           \/ /\ m.kind = "Reply" /\ m.id \in Ids /\ Only(calls, calls', c, m.id)
              /\ m.id \notin held[c]
              /\ calls'[c][m.id].state = "answered" /\ calls'[c][m.id].answer = m.sock
    PROVE  Streams'
  <1>0. Types /\ Streams  BY DEF IInv
  <1>1. ASSUME NEW d \in Clients, d # c  PROVE View(d)' = View(d) /\ broken'[d] = broken[d]
    BY <1>0, <1>1 DEF View, daemon, Types, Only
  <1>2. ASSUME c \notin Udp, ~broken'[c]  PROVE StreamInv(View(c))'
    <2>1. PICK v : v = View(c)  OBVIOUS
    <2>2. PICK w : w = View(c)'  OBVIOUS
    <2>3. StreamInv(v)  BY <1>0, <1>2, <2>1 DEF Streams
    <2>4. /\ v \in ViewType
          /\ v.owner = c /\ v.way = up[c] \o req[c] /\ v.down = down[c]
          /\ v.calls = calls[c] /\ v.held = held[c] /\ v.session = session[c]
          /\ v.asked = asked[c] /\ v.granted = granted[c] /\ v.open = open[c]
          /\ v.pump = pump[c]
      BY <1>0, <2>1, ViewIs
    <2>5. /\ w \in ViewType
          /\ w.owner = c /\ w.way = up'[c] \o req'[c] /\ w.down = down'[c]
          /\ w.calls = calls'[c] /\ w.held = held'[c] /\ w.session = session'[c]
          /\ w.asked = asked'[c] /\ w.granted = granted'[c] /\ w.open = open'[c]
          /\ w.pump = pump'[c]
      BY <2>2, ViewPrimed
    <2>6. /\ w.owner = v.owner /\ w.way = v.way /\ w.held = v.held
          /\ w.session = v.session /\ w.asked = v.asked /\ w.granted = v.granted
          /\ w.open = v.open /\ w.pump = v.pump
      BY <2>4, <2>5 DEF daemon
    <2>7. PICK q \in Seq(MessageType) : q = down[c] /\ q # <<>>
      BY <1>0, <1>2 DEF Types
    <2>8. w.down = Tail(q)
      <3>1. RemoveAt(q, 1) = Tail(q)  BY <2>7, TakenFirst
      <3>2. down'[c] = RemoveAt(q, i) /\ i = 1  BY <1>0, <1>2, <2>7 DEF Types
      <3>. QED  BY <2>5, <3>1, <3>2
    <2>9. /\ DOMAIN q = 1 .. Len(q) /\ DOMAIN Tail(q) = 1 .. Len(q) - 1 /\ Len(q) \in Nat
          /\ \A k \in 1 .. Len(q) - 1 : k + 1 \in DOMAIN q /\ Tail(q)[k] = q[k + 1]
      BY <2>7, TailIs
    <2>10. Shorter(v, w, 0, 1)
      <3>1. \A k \in DOMAIN v.way : k + 0 = k
        <4>1. v.way \in Seq(RequestType)  BY <2>4 DEF ViewType
        <4>. QED  BY <4>1, Positions
      <3>2. \A k \in DOMAIN Tail(q) : k + 1 \in DOMAIN q /\ Tail(q)[k] = q[k + 1]  BY <2>9
      <3>. QED  BY <2>4, <2>6, <2>7, <2>8, <3>1, <3>2 DEF Shorter
    <2>11. Fades(v, w)  BY <2>6 DEF Fades
    <2>12. m.kind = "Reply" => 1 \in RepliesTo(v, m.id) /\ v.down[1] = m
      BY <1>2, <2>4 DEF RepliesTo
    <2>13. 0 \in Nat /\ 1 \in Nat /\ 1 <= 1  OBVIOUS
    <2>14. CASE calls' = calls
      <3>1. w.calls = v.calls  BY <2>4, <2>5, <2>14
      <3>2. /\ \A id \in Ids : Underway(v, id) => Underway(w, id)
            /\ \A h \in Ids, s \in Socks : Told(w, h, s) => Told(v, h, s)
        BY <2>6, <3>1 DEF Underway, Told
      <3>3. StreamInv(w)  BY <2>3, <2>4, <2>5, <2>6, <2>10, <2>11, <2>13, <3>1, <3>2, Shrinks
      <3>. QED  BY <2>2, <3>3
    <2>15. CASE /\ m.kind = "Reply" /\ m.id \in Ids /\ Only(calls, calls', c, m.id)
                /\ m.id \notin held[c]
                /\ calls'[c][m.id].state = "answered" /\ calls'[c][m.id].answer = m.sock
      <3>1. \A id \in Ids : id # m.id => w.calls[id] = v.calls[id]  BY <2>4, <2>5, <2>15 DEF Only
      <3>2. w.calls[m.id].state = "answered" /\ w.calls[m.id].answer = m.sock  BY <2>5, <2>15
      <3>3. \A id \in Ids : Underway(v, id) => Underway(w, id) \/ \E k \in RepliesTo(v, id) : k <= 1
        BY <2>12, <2>13, <2>15, <3>1 DEF Underway
      <3>4. \A id \in Ids : w.calls[id].state \in {"unused", "filed"} =>
                v.calls[id].state \in {"unused", "filed"}
        BY <3>1, <3>2
      <3>5. ASSUME NEW h \in Ids, NEW s \in Socks, Told(w, h, s)
            PROVE  Told(v, h, s) \/ \E k \in RepliesTo(v, h) : k <= 1 /\ v.down[k].sock = s
        <4>1. CASE h = m.id
          <5>1. m.sock = s  BY <3>2, <3>5, <4>1 DEF Told
          <5>. QED  BY <2>12, <2>13, <2>15, <4>1, <5>1
        <4>2. CASE h # m.id  BY <2>6, <3>1, <3>5, <4>2 DEF Told
        <4>. QED  BY <4>1, <4>2
      <3>6. StreamInv(w)
        BY <2>3, <2>4, <2>5, <2>6, <2>10, <2>11, <2>13, <3>3, <3>4, <3>5, Shrinks
      <3>. QED  BY <2>2, <3>6
    <2>. QED  BY <2>14, <2>15
  <1>. QED  BY <1>0, <1>1, <1>2, OthersSame

LEMMA KeptByRead ==
    ASSUME IInv, NEW c \in Clients, Read(c)
    PROVE  IInv'
  <1>0. Types /\ Commands /\ Registered /\ ClientSide /\ Streams /\ OwnTraffic  BY DEF IInv
  <1>1. PICK i \in Arrivals(c, down[c]) :
           /\ down' = [down EXCEPT ![c] = RemoveAt(@, i)]
           /\ \/ down[c][i].kind = "Reply" /\ DispatchReply(c, down[c][i])
              \/ down[c][i].kind = "Datagram" /\ DispatchDatagram(c, down[c][i])
    BY DEF Read
  <1>2. PICK m : m = down[c][i]  OBVIOUS
  <1>3. UNCHANGED <<sockets, held, req, up, broken, daemon, actor, carried>> /\ ~broken[c]
    BY DEF Read
  <1>4. i \in DOMAIN down[c] /\ (c \notin Udp => i = 1)  BY DEF Arrivals
  <1>5. down' \in [Clients -> Seq(MessageType)] /\ m \in MessageType
    <2>1. down \in [Clients -> Seq(MessageType)]  BY <1>0 DEF Types
    <2>2. PICK q \in Seq(MessageType) : q = down[c]  BY <2>1
    <2>3. RemoveAt(q, i) \in Seq(MessageType) /\ q[i] \in MessageType  BY <1>4, <2>2, RemoveType
    <2>4. down' = [down EXCEPT ![c] = RemoveAt(q, i)]  BY <1>1, <2>2
    <2>. QED  BY <1>2, <2>1, <2>2, <2>3, <2>4
  <1>6. \A d \in Clients : Handles(d)  BY <1>0 DEF ClientSide
  <1>7. Commands' /\ Registered'  BY <1>0, <1>3, DaemonSame
  <1>8. CASE m.kind = "Reply" /\ DispatchReply(c, m)
    <2>1. /\ pending' = [pending EXCEPT ![c] = @ \ {m.id}]
          /\ got' = got
          /\ \/ calls' = calls
             \/ /\ m.id \in pending[c] /\ m.id # Ping
                /\ calls' = [calls EXCEPT ![c][m.id].state = "answered", ![c][m.id].answer = m.sock]
      BY <1>8 DEF DispatchReply
    <2>2. /\ pending' \in [Clients -> SUBSET (Ids \cup {Ping})]
          /\ \A d \in Clients : d # c => pending'[d] = pending[d]
          /\ pending'[c] = pending[c] \ {m.id}
      BY <1>0, <2>1 DEF Types
    <2>3. OwnTraffic'  BY <1>0, <1>3, <2>1 DEF OwnTraffic
    <2>4. CASE calls' = calls
      <3>1. Types'  BY <1>0, <1>3, <1>5, <2>2, <2>4 DEF Types, daemon, actor
      <3>2. ClientSide'
        <4>1. \A d \in Clients : \A k \in pending'[d] : k \in pending[d]  BY <2>2
        <4>. QED  BY <1>0, <1>3, <2>4, <4>1 DEF ClientSide, Handles
      <3>3. Streams'  BY <1>1, <1>2, <1>3, <1>4, <2>4, <3>1, <3>2, MessageTaken
      <3>. QED  BY <1>7, <2>3, <3>1, <3>2, <3>3 DEF IInv
    <2>5. CASE /\ m.id \in pending[c] /\ m.id # Ping
               /\ calls' = [calls EXCEPT ![c][m.id].state = "answered", ![c][m.id].answer = m.sock]
      <3>1. PICK id \in Ids : id = m.id /\ id \in pending[c]  BY <1>0, <2>5 DEF Types
      <3>2. PICK n \in Socks \cup {0, InUse} : n = m.sock  BY <1>5 DEF MessageType
      <3>3. PICK x : x = [calls[c][id] EXCEPT !.state = "answered", !.answer = n]  OBVIOUS
      <3>4. calls[c][id] \in CallType  BY <1>0 DEF Types, CallTable
      <3>5. x \in CallType /\ x.state = "answered" /\ x.answer = n  BY <3>3, <3>4 DEF CallType
      <3>6. Changed(calls, calls', c, id, x)
        <4>1. calls \in [Clients -> [Ids -> CallType]]  BY <1>0 DEF Types, CallTable
        <4>2. calls' = [calls EXCEPT ![c][id].state = "answered", ![c][id].answer = n]
          BY <2>5, <3>1, <3>2
        <4>3. calls' = [calls EXCEPT ![c][id] = x]  BY <3>3, <4>1, <4>2
        <4>. QED  BY <4>3 DEF Changed
      <3>7. calls' \in CallTable /\ Only(calls, calls', c, id) /\ calls'[c][id] = x
        BY <1>0, <3>5, <3>6, CallEntry DEF Types
      <3>8. id \notin held[c]  BY <1>6, <3>1 DEF Handles
      <3>9. Types'  BY <1>0, <1>3, <1>5, <2>2, <3>7 DEF Types, daemon, actor
      <3>10. ClientSide'
        <4>1. ASSUME NEW d \in Clients  PROVE Handles(d)'
          <5>1. \A k \in pending'[d] : k \in Ids => calls'[d][k].state \in {"filed", "sent"}
            BY <1>6, <2>2, <3>1, <3>7 DEF Handles, Only
          <5>2. \A k \in held[d] : k \in Ids /\ calls'[d][k] = calls[d][k]
            BY <1>0, <3>7, <3>8 DEF Only, Types
          <5>. QED  BY <1>3, <1>6, <5>1, <5>2 DEF Handles
        <4>. QED  BY <1>0, <1>3, <4>1 DEF ClientSide
      <3>11. Streams'
        <4>1. /\ m.kind = "Reply" /\ m.id \in Ids /\ Only(calls, calls', c, m.id)
              /\ m.id \notin held[c]
              /\ calls'[c][m.id].state = "answered" /\ calls'[c][m.id].answer = m.sock
          BY <1>8, <3>1, <3>2, <3>5, <3>7, <3>8
        <4>. QED  BY <1>1, <1>2, <1>3, <1>4, <3>9, <3>10, <4>1, MessageTaken
      <3>. QED  BY <1>7, <2>3, <3>9, <3>10, <3>11 DEF IInv
    <2>. QED  BY <2>1, <2>4, <2>5
  <1>9. CASE m.kind = "Datagram" /\ DispatchDatagram(c, m)
    <2>1. /\ UNCHANGED <<calls, pending>>
          /\ \/ sockets[c][m.sock] # 0 /\ got' = got \cup {<<<<c, sockets[c][m.sock]>>, m.from>>}
             \/ got' = got
      BY <1>9 DEF DispatchDatagram
    <2>2. Types'  BY <1>0, <1>3, <1>5, <2>1 DEF Types, daemon, actor
    <2>3. ClientSide'  BY <1>0, <1>3, <2>1 DEF ClientSide, Handles
    <2>4. Streams'  BY <1>1, <1>2, <1>3, <1>4, <2>1, <2>2, <2>3, MessageTaken
    <2>5. ASSUME c \notin Udp, sockets[c][m.sock] # 0  PROVE m.from = <<c, sockets[c][m.sock]>>
      <3>1. PICK v : v = View(c)  OBVIOUS
      <3>2. StreamInv(v)  BY <1>0, <1>3, <2>5, <3>1 DEF Streams
      <3>3. v.owner = c /\ v.down = down[c] /\ v.calls = calls[c] /\ v.held = held[c]
        BY <1>0, <3>1, ViewIs
      <3>4. i \in DOMAIN v.down /\ v.down[i] = m  BY <1>2, <1>4, <3>3
      <3>5. m.sock \in Socks  BY <1>9, <3>2, <3>4 DEF StreamInv, Ordered
      <3>6. PICK h : h = sockets[c][m.sock]  OBVIOUS
      <3>7. h \in held[c] /\ calls[c][h].answer = m.sock /\ h \in Ids
        BY <1>0, <1>6, <2>5, <3>5, <3>6 DEF Handles, Types
      <3>8. Told(v, h, m.sock)  BY <3>3, <3>7 DEF Told
      <3>9. m.from = <<v.owner, h>>  BY <1>9, <3>2, <3>4, <3>7, <3>8 DEF StreamInv, Ordered
      <3>. QED  BY <3>3, <3>6, <3>9
    <2>6. OwnTraffic'
      <3>1. ASSUME NEW pair \in got' \cup carried', pair[1][1] \notin Udp  PROVE pair[1] = pair[2]
        <4>1. CASE pair \in got \cup carried  BY <1>0, <3>1, <4>1 DEF OwnTraffic
        <4>2. CASE pair = <<<<c, sockets[c][m.sock]>>, m.from>> /\ sockets[c][m.sock] # 0
          <5>1. c \notin Udp  BY <3>1, <4>2
          <5>. QED  BY <2>5, <4>2, <5>1
        <4>. QED  BY <1>3, <2>1, <3>1, <4>1, <4>2
      <3>. QED  BY <3>1 DEF OwnTraffic
    <2>. QED  BY <1>7, <2>2, <2>3, <2>4, <2>6 DEF IInv
  <1>. QED  BY <1>1, <1>2, <1>8, <1>9

-----------------------------------------------------------------------------
(* The pumps of a socket, and the session that drops them *)

LEMMA RegisteredFades ==
    ASSUME Registered, ddp' = ddp,
           \A d \in Clients, i \in Ids :
               /\ pump'[d][i].sock = pump[d][i].sock
               /\ pump'[d][i].state \in Unfinished => pump[d][i].state \in Unfinished
    PROVE  Registered'
  BY DEF Registered, Filed, Unfinished

\* One more command, but none that opens a socket.
LEMMA CommandsGrow ==
    ASSUME Types, Commands, NEW m \in CommandType, m.kind # "NewSocket", Len(cmds) < CmdCap,
           cmds' = Append(cmds, m), UNCHANGED <<session, asked, granted>>
    PROVE  Commands' /\ cmds' \in Seq(CommandType) /\ Len(cmds') <= CmdCap
  <1>1. PICK q \in Seq(CommandType) : q = cmds  BY DEF Types
  <1>2. /\ Append(q, m) \in Seq(CommandType) /\ Len(q) \in Nat /\ Len(Append(q, m)) = Len(q) + 1
        /\ DOMAIN q = 1 .. Len(q) /\ DOMAIN Append(q, m) = 1 .. Len(q) + 1
        /\ \A i \in 1 .. Len(q) : Append(q, m)[i] = q[i]
        /\ Append(q, m)[Len(q) + 1] = m
    BY AppendIs
  <1>3. cmds' = Append(q, m)  BY <1>1
  <1>4. \A i \in DOMAIN cmds' : cmds'[i].kind = "NewSocket" => i \in DOMAIN cmds /\ cmds'[i] = cmds[i]
    BY <1>1, <1>2, <1>3
  <1>5. Commands'  BY <1>4 DEF Commands
  <1>. QED  BY <1>1, <1>2, <1>3, <1>5, Numbers

\* A session that has no socket to wait for.
LEMMA CommandsStay ==
    ASSUME Types, Commands, NEW c \in Clients, cmds' = cmds,
           session[c] # "opening" \/ granted[c] # 0,
           \A d \in Clients : d # c =>
               session'[d] = session[d] /\ asked'[d] = asked[d] /\ granted'[d] = granted[d],
           session'[c] # "opening", granted'[c] = 0
    PROVE  Commands'
  <1>1. ASSUME NEW i \in DOMAIN cmds, cmds[i].kind = "NewSocket"
        PROVE  cmds[i].from[1] # c /\ cmds[i].from[1] \in Clients
    <2>1. cmds[i] \in CommandType  BY DEF Types
    <2>2. cmds[i].from \in Clients \X Ids  BY <1>1, <2>1 DEF CommandType
    <2>. QED  BY <1>1, <2>2 DEF Commands
  <1>. QED  BY <1>1 DEF Commands

\* The pumps of c, and perhaps its session, come to their ends.
LEMMA FadeStep ==
    ASSUME IInv, Types', NEW c \in Clients, UNCHANGED <<client, line>>,
           \A d \in Clients : d # c =>
               /\ session'[d] = session[d] /\ asked'[d] = asked[d] /\ granted'[d] = granted[d]
               /\ open'[d] = open[d] /\ pump'[d] = pump[d],
           session'[c] # "none" =>
               /\ session'[c] = session[c] /\ asked'[c] = asked[c] /\ granted'[c] = granted[c]
               /\ open'[c] = open[c],
           \A i \in Ids :
               /\ pump'[c][i].sock = pump[c][i].sock
               /\ pump'[c][i].state = "none" <=> pump[c][i].state = "none"
               /\ pump'[c][i].state \in Unfinished => pump[c][i].state \in Unfinished
               /\ session'[c] # "none" /\ ~broken[c] /\ pump[c][i].state = "live" =>
                     pump'[c][i].state = "live"
    PROVE  ClientSide' /\ Streams'
  <1>0. Types /\ ClientSide /\ Streams  BY DEF IInv
  <1>1. ClientSide'  BY <1>0, ClientsSame DEF line
  <1>2. ASSUME NEW d \in Clients, d # c  PROVE View(d)' = View(d) /\ broken'[d] = broken[d]
    BY <1>2 DEF View, line, client
  <1>3. ASSUME c \notin Udp, ~broken'[c]  PROVE StreamInv(View(c))'
    <2>1. PICK v : v = View(c)  OBVIOUS
    <2>2. PICK w : w = View(c)'  OBVIOUS
    <2>3. StreamInv(v) /\ ~broken[c]  BY <1>0, <1>3, <2>1 DEF Streams, line
    <2>4. /\ v \in ViewType
          /\ v.owner = c /\ v.way = up[c] \o req[c] /\ v.down = down[c]
          /\ v.calls = calls[c] /\ v.held = held[c] /\ v.session = session[c]
          /\ v.asked = asked[c] /\ v.granted = granted[c] /\ v.open = open[c]
          /\ v.pump = pump[c]
      BY <1>0, <2>1, ViewIs
    <2>5. /\ w \in ViewType
          /\ w.owner = c /\ w.way = up'[c] \o req'[c] /\ w.down = down'[c]
          /\ w.calls = calls'[c] /\ w.held = held'[c] /\ w.session = session'[c]
          /\ w.asked = asked'[c] /\ w.granted = granted'[c] /\ w.open = open'[c]
          /\ w.pump = pump'[c]
      BY <2>2, ViewPrimed
    <2>6. SameQueues(v, w)  BY <2>4, <2>5 DEF SameQueues, line, client
    <2>7. Fades(v, w)  BY <2>3, <2>4, <2>5 DEF Fades
    <2>8. w.session # "none" =>
              w.session = v.session /\ w.asked = v.asked /\ w.granted = v.granted /\ w.open = v.open
      BY <2>4, <2>5
    <2>9. StreamInv(w)  BY <2>3, <2>4, <2>5, <2>6, <2>7, <2>8, PumpsFade
    <2>. QED  BY <2>2, <2>9
  <1>4. Streams'  BY <1>0, <1>2, <1>3, OthersSame
  <1>. QED  BY <1>1, <1>4

\* One pump of c comes closer to its end.
LEMMA PumpStep ==
    ASSUME IInv, Types', NEW c \in Clients, NEW id \in Ids, UNCHANGED <<client, line>>,
           UNCHANGED <<session, asked, granted, open, ddp>>,
           Only(pump, pump', c, id),
           /\ pump'[c][id].sock = pump[c][id].sock
           /\ pump'[c][id].state = "none" <=> pump[c][id].state = "none"
           /\ pump'[c][id].state \in Unfinished => pump[c][id].state \in Unfinished
           /\ ~broken[c] /\ pump[c][id].state = "live" => pump'[c][id].state = "live"
    PROVE  ClientSide' /\ Streams' /\ Registered'
  <1>1. /\ \A d \in Clients : d # c => pump'[d] = pump[d]
        /\ \A i \in Ids : i # id => pump'[c][i] = pump[c][i]
    BY DEF Only
  <1>2. \A i \in Ids :
            /\ pump'[c][i].sock = pump[c][i].sock
            /\ pump'[c][i].state = "none" <=> pump[c][i].state = "none"
            /\ pump'[c][i].state \in Unfinished => pump[c][i].state \in Unfinished
            /\ session'[c] # "none" /\ ~broken[c] /\ pump[c][i].state = "live" =>
                  pump'[c][i].state = "live"
    BY <1>1
  <1>3. ClientSide' /\ Streams'  BY <1>1, <1>2, FadeStep
  <1>4. \A d \in Clients, i \in Ids :
            /\ pump'[d][i].sock = pump[d][i].sock
            /\ pump'[d][i].state \in Unfinished => pump[d][i].state \in Unfinished
    BY <1>1, <1>2
  <1>5. Registered'  BY <1>4, RegisteredFades DEF IInv
  <1>. QED  BY <1>3, <1>5

LEMMA KeptByPumpStops ==
    ASSUME IInv, NEW c \in Clients, NEW id \in Ids, PumpStops(c, id)
    PROVE  IInv'
  <1>0. Types /\ Commands /\ OwnTraffic /\ Registered  BY DEF IInv
  <1>1. /\ \/ pump[c][id].state = "cancelled"
           \/ pump[c][id].state = "live" /\ broken[c]
        /\ pump' = [pump EXCEPT ![c][id].state = "dropping"]
        /\ UNCHANGED <<client, line, session, asked, granted, open, ddp, got, carried>>
    BY DEF PumpStops
  <1>2. PICK m : m = Command("Deregister", pump[c][id].sock, Nobody)  OBVIOUS
  <1>3. \/ Len(cmds) < CmdCap /\ cmds' = Append(cmds, m)
        \/ cmds' = cmds
    BY <1>2 DEF PumpStops
  <1>4. m \in CommandType /\ m.kind = "Deregister"
    <2>1. pump[c][id].sock \in Socks  BY <1>0, <1>1 DEF Registered, Filed
    <2>. QED  BY <1>2, <2>1 DEF Command, CommandType, Owner
  <1>5. Commands' /\ cmds' \in Seq(CommandType) /\ Len(cmds') <= CmdCap
    <2>1. CASE cmds' = cmds  BY <1>0, <1>1, <2>1 DEF Commands, Types
    <2>2. CASE Len(cmds) < CmdCap /\ cmds' = Append(cmds, m)
      BY <1>0, <1>1, <1>4, <2>2, CommandsGrow
    <2>. QED  BY <1>3, <2>1, <2>2
  <1>6. PICK x : x = [pump[c][id] EXCEPT !.state = "dropping"]  OBVIOUS
  <1>7. x \in PumpType /\ x.state = "dropping" /\ x.sock = pump[c][id].sock
    <2>1. pump[c][id] \in PumpType  BY <1>0 DEF Types, PumpTable
    <2>. QED  BY <1>6, <2>1 DEF PumpType
  <1>8. Changed(pump, pump', c, id, x)  BY <1>1, <1>6 DEF Changed
  <1>9. pump' \in PumpTable /\ Only(pump, pump', c, id) /\ pump'[c][id] = x
    BY <1>0, <1>7, <1>8, PumpEntry DEF Types
  <1>10. Types'  BY <1>0, <1>1, <1>5, <1>9 DEF Types, client, line
  <1>11. ClientSide' /\ Streams' /\ Registered'
    BY <1>1, <1>7, <1>9, <1>10, PumpStep DEF Unfinished
  <1>12. OwnTraffic'  BY <1>0, <1>1 DEF OwnTraffic
  <1>. QED  BY <1>5, <1>10, <1>11, <1>12 DEF IInv

LEMMA KeptByDropped ==
    ASSUME IInv, NEW c \in Clients, NEW id \in Ids, Dropped(c, id)
    PROVE  IInv'
  <1>0. Types /\ Commands /\ OwnTraffic  BY DEF IInv
  <1>1. /\ pump[c][id].state = "dropping"
        /\ pump' = [pump EXCEPT ![c][id].state = "gone", ![c][id].rx = 0]
        /\ UNCHANGED <<client, line, session, asked, granted, open, actor, got, carried>>
    BY DEF Dropped
  <1>2. PICK x : x = [pump[c][id] EXCEPT !.state = "gone", !.rx = 0]  OBVIOUS
  <1>3. x \in PumpType /\ x.state = "gone" /\ x.sock = pump[c][id].sock
    <2>1. pump[c][id] \in PumpType  BY <1>0 DEF Types, PumpTable
    <2>2. 0 \in 0 .. SockCap  BY Numbers
    <2>. QED  BY <1>2, <2>1, <2>2 DEF PumpType
  <1>4. Changed(pump, pump', c, id, x)
    <2>1. pump \in [Clients -> [Ids -> PumpType]]  BY <1>0 DEF Types, PumpTable
    <2>2. pump' = [pump EXCEPT ![c][id] = x]  BY <1>1, <1>2, <2>1
    <2>. QED  BY <2>2 DEF Changed
  <1>5. pump' \in PumpTable /\ Only(pump, pump', c, id) /\ pump'[c][id] = x
    BY <1>0, <1>3, <1>4, PumpEntry DEF Types
  <1>6. Types'  BY <1>0, <1>1, <1>5 DEF Types, client, line, actor
  <1>7. Commands'  BY <1>0, <1>1 DEF Commands, actor
  <1>8. ClientSide' /\ Streams' /\ Registered'
    BY <1>1, <1>3, <1>5, <1>6, PumpStep DEF Unfinished, actor
  <1>9. OwnTraffic'  BY <1>0, <1>1 DEF OwnTraffic
  <1>. QED  BY <1>6, <1>7, <1>8, <1>9 DEF IInv

LEMMA KeptBySendOut ==
    ASSUME IInv, NEW c \in Clients, NEW id \in Ids, SendOut(c, id)
    PROVE  IInv'
  <1>0. Types /\ Commands /\ OwnTraffic  BY DEF IInv
  <1>1. /\ pump[c][id].out > 0
        /\ UNCHANGED <<client, line, session, asked, granted, open, ddp, got, carried>>
    BY DEF SendOut
  <1>2. PICK m : m = Command("Send", pump[c][id].sock, <<c, id>>)  OBVIOUS
  <1>3. \/ /\ Len(cmds) < CmdCap /\ cmds' = Append(cmds, m)
           /\ pump' = [pump EXCEPT ![c][id].out = @ - 1]
        \/ pump' = [pump EXCEPT ![c][id].out = 0] /\ cmds' = cmds
    BY <1>2 DEF SendOut
  <1>4. pump[c][id] \in PumpType  BY <1>0 DEF Types, PumpTable
  <1>5. m \in CommandType /\ m.kind = "Send"
    BY <1>2, <1>4 DEF Command, CommandType, Owner, PumpType
  <1>6. Commands' /\ cmds' \in Seq(CommandType) /\ Len(cmds') <= CmdCap
    <2>1. CASE cmds' = cmds  BY <1>0, <1>1, <2>1 DEF Commands, Types
    <2>2. CASE Len(cmds) < CmdCap /\ cmds' = Append(cmds, m)
      BY <1>0, <1>1, <1>5, <2>2, CommandsGrow
    <2>. QED  BY <1>3, <2>1, <2>2
  <1>7. PICK n \in 0 .. SockCap : pump' = [pump EXCEPT ![c][id].out = n]
    <2>1. pump[c][id].out - 1 \in 0 .. SockCap /\ 0 \in 0 .. SockCap  BY <1>1, <1>4, Numbers DEF PumpType
    <2>. QED  BY <1>3, <2>1
  <1>8. PICK x : x = [pump[c][id] EXCEPT !.out = n]  OBVIOUS
  <1>9. x \in PumpType /\ x.state = pump[c][id].state /\ x.sock = pump[c][id].sock
    BY <1>4, <1>8 DEF PumpType
  <1>10. Changed(pump, pump', c, id, x)  BY <1>7, <1>8 DEF Changed
  <1>11. pump' \in PumpTable /\ Only(pump, pump', c, id) /\ pump'[c][id] = x
    BY <1>0, <1>9, <1>10, PumpEntry DEF Types
  <1>12. Types'  BY <1>0, <1>1, <1>6, <1>11 DEF Types, client, line
  <1>13. ClientSide' /\ Streams' /\ Registered'
    BY <1>1, <1>9, <1>11, <1>12, PumpStep
  <1>14. OwnTraffic'  BY <1>0, <1>1 DEF OwnTraffic
  <1>. QED  BY <1>6, <1>12, <1>13, <1>14 DEF IInv

LEMMA CancelledIs ==
    ASSUME NEW p \in PumpType
    PROVE  /\ Cancelled(p) \in PumpType /\ Cancelled(p).sock = p.sock
           /\ Cancelled(p).state = "none" <=> p.state = "none"
           /\ Cancelled(p).state \in Unfinished <=> p.state \in Unfinished
  BY DEF Cancelled, PumpType, Unfinished

LEMMA KeptByDrop ==
    ASSUME IInv, NEW c \in Clients, session[c] = "live", Drop(c)
    PROVE  IInv'
  <1>0. Types /\ Commands /\ Registered /\ OwnTraffic  BY DEF IInv
  <1>1. /\ session' = [session EXCEPT ![c] = "none"]
        /\ open' = [open EXCEPT ![c] = [s \in Socks |-> 0]]
        /\ pump' = [pump EXCEPT ![c] = [id \in Ids |->
                        IF \E s \in Socks : open[c][s] = id THEN Cancelled(@[id]) ELSE @[id]]]
        /\ UNCHANGED <<client, line, asked, granted, actor, got, carried>>
    BY DEF Drop
  <1>2. /\ session' \in [Clients -> {"none", "live", "opening"}] /\ session'[c] = "none"
        /\ \A d \in Clients : d # c => session'[d] = session[d]
    BY <1>0, <1>1 DEF Types
  <1>3. open' \in OpenTable /\ \A d \in Clients : d # c => open'[d] = open[d]
    BY <1>0, <1>1 DEF Types, OpenTable
  <1>4. ASSUME NEW i \in Ids
        PROVE  /\ pump'[c][i] \in PumpType /\ pump'[c][i].sock = pump[c][i].sock
               /\ pump'[c][i].state = "none" <=> pump[c][i].state = "none"
               /\ pump'[c][i].state \in Unfinished <=> pump[c][i].state \in Unfinished
    <2>1. pump \in [Clients -> [Ids -> PumpType]]  BY <1>0 DEF Types, PumpTable
    <2>2. PICK p \in PumpType : p = pump[c][i]  BY <2>1
    <2>3. pump'[c][i] = Cancelled(p) \/ pump'[c][i] = p  BY <1>1, <2>1, <2>2
    <2>. QED  BY <2>2, <2>3, CancelledIs
  <1>5. \A d \in Clients : d # c => pump'[d] = pump[d]  BY <1>0, <1>1 DEF Types, PumpTable
  <1>6. pump' \in PumpTable
    <2>1. pump \in [Clients -> [Ids -> PumpType]]  BY <1>0 DEF Types, PumpTable
    <2>2. pump' = [pump EXCEPT ![c] = pump'[c]] /\ pump'[c] = [i \in Ids |-> pump'[c][i]]
      BY <1>1, <2>1
    <2>3. pump'[c] \in [Ids -> PumpType]  BY <1>4, <2>2
    <2>. QED  BY <2>1, <2>2, <2>3 DEF PumpTable
  <1>7. Types'  BY <1>0, <1>1, <1>2, <1>3, <1>6 DEF Types, client, line, actor
  <1>8. granted[c] = 0  BY <1>0 DEF Commands
  <1>9. Commands'  BY <1>0, <1>1, <1>2, <1>8, CommandsStay DEF actor
  <1>10. ClientSide' /\ Streams'  BY <1>1, <1>2, <1>3, <1>4, <1>5, <1>7, FadeStep
  <1>11. Registered'  BY <1>0, <1>1, <1>4, <1>5, RegisteredFades DEF actor
  <1>12. OwnTraffic'  BY <1>0, <1>1 DEF OwnTraffic
  <1>. QED  BY <1>7, <1>9, <1>10, <1>11, <1>12 DEF IInv

-----------------------------------------------------------------------------
(* The DDP actor *)

LEMMA KeptByReceive ==
    ASSUME IInv, NEW s \in Socks, Receive(s)
    PROVE  IInv'
  <1>0. Types /\ Commands /\ Registered /\ ClientSide /\ Streams /\ OwnTraffic  BY DEF IInv
  <1>1. PICK m : m = Command("Received", s, Nobody)  OBVIOUS
  <1>2. /\ Len(cmds) < CmdCap /\ cmds' = Append(cmds, m)
        /\ UNCHANGED <<client, line, daemon, ddp, got, carried>>
    BY <1>1 DEF Receive
  <1>3. m \in CommandType /\ m.kind = "Received"  BY <1>1 DEF Command, CommandType, Owner
  <1>4. Commands' /\ cmds' \in Seq(CommandType) /\ Len(cmds') <= CmdCap
    BY <1>0, <1>2, <1>3, CommandsGrow DEF daemon
  <1>5. Types'  BY <1>0, <1>2, <1>4 DEF Types, client, line, daemon
  <1>6. ClientSide'  BY <1>0, <1>2, ClientsSame DEF line
  <1>7. Streams'  BY <1>0, <1>2 DEF Streams, View, client, line, daemon
  <1>8. Registered'  BY <1>0, <1>2 DEF Registered, Filed, daemon
  <1>9. OwnTraffic'  BY <1>0, <1>2 DEF OwnTraffic
  <1>. QED  BY <1>4, <1>5, <1>6, <1>7, <1>8, <1>9 DEF IInv

\* The next command is taken.
LEMMA CommandTaken ==
    ASSUME Types, cmds # <<>>, cmds' = Tail(cmds)
    PROVE  /\ Head(cmds) \in CommandType /\ Head(cmds) = cmds[1] /\ 1 \in DOMAIN cmds
           /\ cmds' \in Seq(CommandType) /\ Len(cmds') <= CmdCap
           /\ \A i \in DOMAIN cmds' : /\ i \in Nat /\ i > 0 /\ i + 1 \in DOMAIN cmds
                                      /\ cmds'[i] = cmds[i + 1]
  <1>1. PICK q \in Seq(CommandType) : q = cmds /\ Len(q) <= CmdCap  BY DEF Types
  <1>2. /\ Tail(q) \in Seq(CommandType) /\ Head(q) \in CommandType /\ Head(q) = q[1] /\ 1 \in DOMAIN q
        /\ Len(q) \in Nat /\ DOMAIN Tail(q) = 1 .. Len(q) - 1 /\ Len(Tail(q)) = Len(q) - 1
        /\ \A i \in 1 .. Len(q) - 1 : i + 1 \in DOMAIN q /\ Tail(q)[i] = q[i + 1]
    BY <1>1, TailIs
  <1>3. cmds' = Tail(q)  BY <1>1
  <1>. QED  BY <1>1, <1>2, <1>3, Numbers

\* It opened no socket: what is known of those that do stands.
LEMMA CommandsLessOne ==
    ASSUME Types, Commands, cmds # <<>>, cmds' = Tail(cmds), UNCHANGED <<session, asked, granted>>
    PROVE  Commands'
  <1>1. \A i \in DOMAIN cmds' : i \in Nat /\ i > 0 /\ i + 1 \in DOMAIN cmds /\ cmds'[i] = cmds[i + 1]
    BY CommandTaken
  <1>2. ASSUME NEW i \in DOMAIN cmds', cmds'[i].kind = "NewSocket"
        PROVE  /\ session[cmds'[i].from[1]] = "opening" /\ granted[cmds'[i].from[1]] = 0
               /\ asked[cmds'[i].from[1]] = cmds'[i].from[2]
               /\ \A j \in DOMAIN cmds' :
                     cmds'[j].kind = "NewSocket" /\ cmds'[j].from[1] = cmds'[i].from[1] => j = i
    <2>1. i + 1 \in DOMAIN cmds /\ cmds'[i] = cmds[i + 1]  BY <1>1
    <2>2. /\ session[cmds'[i].from[1]] = "opening" /\ granted[cmds'[i].from[1]] = 0
          /\ asked[cmds'[i].from[1]] = cmds'[i].from[2]
          /\ \A j \in DOMAIN cmds :
                cmds[j].kind = "NewSocket" /\ cmds[j].from[1] = cmds'[i].from[1] => j = i + 1
      BY <1>2, <2>1 DEF Commands
    <2>3. ASSUME NEW j \in DOMAIN cmds', cmds'[j].kind = "NewSocket", cmds'[j].from[1] = cmds'[i].from[1]
          PROVE  j = i
      <3>1. j + 1 = i + 1  BY <1>1, <2>2, <2>3
      <3>. QED  BY <1>1, <3>1
    <2>. QED  BY <2>2, <2>3
  <1>3. /\ \A c \in Clients : session[c] # "opening" => granted[c] = 0
        /\ \A c \in Clients : session[c] = "opening" => asked[c] \in Ids
    BY DEF Commands
  <1>. QED  BY <1>2, <1>3 DEF Commands

\* Only a socket whose owner has dropped it leaves the table.
LEMMA RegisteredStays ==
    ASSUME Registered, \A s \in Socks : ddp'[s] = ddp[s] \/ Closed(s),
           \A d \in Clients, i \in Ids :
               pump'[d][i].sock = pump[d][i].sock /\ pump'[d][i].state = pump[d][i].state
    PROVE  Registered'
  <1>1. ASSUME NEW d \in Clients, NEW i \in Ids,
               pump[d][i].state \in {"live", "cancelled", "dropping"}
        PROVE  pump[d][i].sock \in Socks /\ ddp'[pump[d][i].sock] = <<d, i>>
    <2>1. pump[d][i].sock \in Socks /\ ddp[pump[d][i].sock] = <<d, i>>
      BY <1>1 DEF Registered, Filed
    <2>2. ~Closed(pump[d][i].sock)  BY <1>1, <2>1 DEF Closed
    <2>. QED  BY <2>1, <2>2
  <1>. QED  BY <1>1 DEF Registered, Filed

\* The rest of the invariant, when DDP has taken a command that leaves the pumps alone.
LEMMA TableStep ==
    ASSUME IInv, cmds # <<>>, cmds' = Tail(cmds),
           UNCHANGED <<client, line, daemon, got, carried>>,
           ddp' \in [Socks -> Owner], \A s \in Socks : ddp'[s] = ddp[s] \/ Closed(s)
    PROVE  IInv'
  <1>0. Types /\ Commands /\ Registered /\ ClientSide /\ Streams /\ OwnTraffic  BY DEF IInv
  <1>1. cmds' \in Seq(CommandType) /\ Len(cmds') <= CmdCap  BY <1>0, CommandTaken
  <1>2. Types'  BY <1>0, <1>1 DEF Types, client, line, daemon
  <1>3. Commands'  BY <1>0, CommandsLessOne DEF daemon
  <1>4. Registered'  BY <1>0, RegisteredStays DEF daemon
  <1>5. ClientSide'  BY <1>0, ClientsSame DEF line
  <1>6. Streams'  BY <1>0 DEF Streams, View, client, line, daemon
  <1>7. OwnTraffic'  BY <1>0 DEF OwnTraffic
  <1>. QED  BY <1>2, <1>3, <1>4, <1>5, <1>6, <1>7 DEF IInv

LEMMA KeptByHandlePacket ==
    ASSUME IInv, NEW s \in Socks, HandlePacket(s), cmds # <<>>, cmds' = Tail(cmds),
           UNCHANGED <<client, line, session, asked, granted, open, got, carried>>
    PROVE  IInv'
  <1>0. Types /\ Commands /\ Registered /\ OwnTraffic  BY DEF IInv
  <1>1. /\ ddp' \in [Socks -> Owner]
        /\ \A n \in Socks : ddp'[n] = ddp[n] \/ Closed(n)
    <2>1. ddp \in [Socks -> Owner] /\ Nobody \in Owner  BY <1>0 DEF Types, Owner
    <2>2. ddp' = ddp \/ (Closed(s) /\ ddp' = [ddp EXCEPT ![s] = Nobody])  BY DEF HandlePacket
    <2>. QED  BY <2>1, <2>2
  <1>2. CASE pump' = pump
    <2>1. UNCHANGED daemon  BY <1>2 DEF daemon
    <2>. QED  BY <1>1, <2>1, TableStep
  <1>3. CASE /\ ddp[s] # Nobody /\ pump[ddp[s][1]][ddp[s][2]].rx < SockCap
             /\ pump' = [pump EXCEPT ![ddp[s][1]][ddp[s][2]].rx = @ + 1]
    <2>1. ddp[s] \in Clients \X Ids  BY <1>0, <1>3 DEF Types, Owner
    <2>2. PICK c \in Clients, id \in Ids : c = ddp[s][1] /\ id = ddp[s][2]  BY <2>1
    <2>3. pump[c][id] \in PumpType  BY <1>0 DEF Types, PumpTable
    <2>4. PICK n \in 0 .. SockCap : n = pump[c][id].rx + 1
      <3>1. PICK n \in 0 .. SockCap : n = pump[c][id].rx  BY <2>3 DEF PumpType
      <3>2. n < SockCap  BY <1>3, <2>2, <3>1
      <3>3. n + 1 \in 0 .. SockCap  BY <3>2, Numbers
      <3>. QED  BY <3>1, <3>3
    <2>5. pump' = [pump EXCEPT ![c][id].rx = n]  BY <1>3, <2>2, <2>4
    <2>6. PICK x : x = [pump[c][id] EXCEPT !.rx = n]  OBVIOUS
    <2>7. x \in PumpType /\ x.state = pump[c][id].state /\ x.sock = pump[c][id].sock
      BY <2>3, <2>6 DEF PumpType
    <2>8. Changed(pump, pump', c, id, x)  BY <2>5, <2>6 DEF Changed
    <2>9. pump' \in PumpTable /\ Only(pump, pump', c, id) /\ pump'[c][id] = x
      BY <1>0, <2>7, <2>8, PumpEntry DEF Types
    <2>10. cmds' \in Seq(CommandType) /\ Len(cmds') <= CmdCap  BY <1>0, CommandTaken
    <2>11. Types'  BY <1>0, <1>1, <2>9, <2>10 DEF Types, client, line
    <2>12. Commands'  BY <1>0, CommandsLessOne
    <2>13. \A d \in Clients, i \in Ids :
               pump'[d][i].sock = pump[d][i].sock /\ pump'[d][i].state = pump[d][i].state
      BY <2>7, <2>9 DEF Only
    <2>14. Registered'  BY <1>0, <1>1, <2>13, RegisteredStays
    <2>15. \A d \in Clients : d # c => pump'[d] = pump[d]  BY <2>9 DEF Only
    <2>16. ClientSide' /\ Streams'  BY <2>11, <2>13, <2>15, FadeStep
    <2>17. OwnTraffic'  BY <1>0 DEF OwnTraffic
    <2>. QED  BY <2>11, <2>12, <2>14, <2>16, <2>17 DEF IInv
  <1>. QED  BY <1>2, <1>3 DEF HandlePacket

\* new_sock: the number it hands out has no socket left that its owner has yet to drop.
LEMMA KeptByNewSock ==
    ASSUME IInv, cmds # <<>>, cmds' = Tail(cmds), Head(cmds).kind = "NewSocket",
           NewSock(Head(cmds).from, Head(cmds).sock),
           UNCHANGED <<client, line, session, asked, open, got, carried>>
    PROVE  IInv'
  <1>0. Types /\ Commands /\ Registered /\ ClientSide /\ Streams /\ OwnTraffic  BY DEF IInv
  <1>1. /\ Head(cmds) \in CommandType /\ Head(cmds) = cmds[1] /\ 1 \in DOMAIN cmds
        /\ cmds' \in Seq(CommandType) /\ Len(cmds') <= CmdCap
        /\ \A i \in DOMAIN cmds' : i \in Nat /\ i > 0 /\ i + 1 \in DOMAIN cmds /\ cmds'[i] = cmds[i + 1]
    BY <1>0, CommandTaken
  <1>2. PICK c \in Clients, id \in Ids : Head(cmds).from = <<c, id>>
    BY <1>1 DEF CommandType
  <1>3. /\ session[c] = "opening" /\ granted[c] = 0 /\ asked[c] = id
        /\ \A j \in DOMAIN cmds : cmds[j].kind = "NewSocket" /\ cmds[j].from[1] = c => j = 1
    BY <1>0, <1>1, <1>2 DEF Commands
  <1>4. PICK want \in Socks \cup {0} : want = Head(cmds).sock  BY <1>1 DEF CommandType
  <1>5. PICK s \in Offers(want) :
           /\ granted' = [granted EXCEPT ![c] = s]
           /\ s = InUse => ddp' = Reaped /\ pump' = pump
           /\ s # InUse =>
                 /\ ddp' = [Reaped EXCEPT ![s] = <<c, id>>]
                 /\ pump' = [pump EXCEPT ![c][id] = [sock |-> s, state |-> "live", rx |-> 0, out |-> 0]]
    <2>1. NewSock(<<c, id>>, want)  BY <1>2, <1>4
    <2>2. <<c, id>>[1] = c /\ <<c, id>>[2] = id  OBVIOUS
    <2>. QED  BY <2>1, <2>2 DEF NewSock
  <1>6. s \in Socks \cup {InUse} /\ (s # InUse => Reaped[s] = Nobody)  BY <1>4, <1>5 DEF Offers
  <1>7. ASSUME NEW d \in Clients, NEW i \in Ids, pump[d][i].state \in {"live", "cancelled", "dropping"}
        PROVE  pump[d][i].sock \in Socks /\ Reaped[pump[d][i].sock] = <<d, i>> /\ pump[d][i].sock # s
    <2>1. pump[d][i].sock \in Socks /\ ddp[pump[d][i].sock] = <<d, i>>
      BY <1>0, <1>7 DEF Registered, Filed
    <2>2. ~Closed(pump[d][i].sock)  BY <1>7, <2>1 DEF Closed
    <2>3. Reaped[pump[d][i].sock] = <<d, i>>  BY <2>1, <2>2 DEF Reaped
    <2>4. <<d, i>> # Nobody  BY DEF Nobody
    <2>. QED  BY <1>6, <2>1, <2>3, <2>4, Numbers
  <1>8. PICK x : x = [sock |-> s, state |-> "live", rx |-> 0, out |-> 0]  OBVIOUS
  <1>9. s # InUse => x \in PumpType /\ x.state = "live" /\ x.sock = s
    <2>1. 0 \in 0 .. SockCap  BY Numbers
    <2>. QED  BY <1>6, <1>8, <2>1 DEF PumpType
  <1>10. s # InUse => Changed(pump, pump', c, id, x)  BY <1>5, <1>8 DEF Changed
  <1>11. /\ pump' \in PumpTable
         /\ s # InUse => Only(pump, pump', c, id) /\ pump'[c][id] = x
    BY <1>0, <1>5, <1>9, <1>10, PumpEntry DEF Types
  <1>12. Reaped \in [Socks -> Owner] /\ <<c, id>> \in Owner  BY <1>0 DEF Reaped, Types, Owner
  <1>13. ddp' \in [Socks -> Owner]  BY <1>5, <1>6, <1>12
  <1>14. /\ granted' \in [Clients -> Socks \cup {0, InUse}] /\ granted'[c] = s
         /\ \A d \in Clients : d # c => granted'[d] = granted[d]
    BY <1>0, <1>5, <1>6 DEF Types
  <1>15. Types'  BY <1>0, <1>1, <1>11, <1>13, <1>14 DEF Types, client, line
  <1>16. Commands'
    <2>1. ASSUME NEW i \in DOMAIN cmds', cmds'[i].kind = "NewSocket"
          PROVE  /\ session[cmds'[i].from[1]] = "opening" /\ granted'[cmds'[i].from[1]] = 0
                 /\ asked[cmds'[i].from[1]] = cmds'[i].from[2]
                 /\ \A j \in DOMAIN cmds' :
                       cmds'[j].kind = "NewSocket" /\ cmds'[j].from[1] = cmds'[i].from[1] => j = i
      <3>1. i + 1 \in DOMAIN cmds /\ cmds'[i] = cmds[i + 1] /\ i \in Nat /\ i > 0  BY <1>1
      <3>2. /\ session[cmds'[i].from[1]] = "opening" /\ granted[cmds'[i].from[1]] = 0
            /\ asked[cmds'[i].from[1]] = cmds'[i].from[2]
            /\ \A j \in DOMAIN cmds :
                  cmds[j].kind = "NewSocket" /\ cmds[j].from[1] = cmds'[i].from[1] => j = i + 1
        BY <1>0, <2>1, <3>1 DEF Commands
      <3>3. cmds'[i].from[1] # c
        <4>1. i + 1 # 1  BY <3>1
        <4>. QED  BY <1>3, <2>1, <3>1, <4>1
      <3>4. cmds'[i] \in CommandType  BY <1>1
      <3>5. cmds'[i].from[1] \in Clients
        <4>1. cmds'[i].from \in Clients \X Ids  BY <2>1, <3>4 DEF CommandType
        <4>. QED  BY <4>1
      <3>6. ASSUME NEW j \in DOMAIN cmds', cmds'[j].kind = "NewSocket", cmds'[j].from[1] = cmds'[i].from[1]
            PROVE  j = i
        <4>1. j + 1 = i + 1  BY <1>1, <3>2, <3>6
        <4>. QED  BY <1>1, <4>1
      <3>. QED  BY <1>14, <3>2, <3>3, <3>5, <3>6
    <2>2. \A d \in Clients : session[d] # "opening" => granted'[d] = 0
      BY <1>0, <1>3, <1>14 DEF Commands
    <2>3. \A d \in Clients : session[d] = "opening" => asked[d] \in Ids  BY <1>0 DEF Commands
    <2>. QED  BY <2>1, <2>2, <2>3 DEF Commands
  <1>17. Registered'
    <2>1. ASSUME NEW d \in Clients, NEW i \in Ids, pump'[d][i].state \in {"live", "cancelled", "dropping"}
          PROVE  pump'[d][i].sock \in Socks /\ ddp'[pump'[d][i].sock] = <<d, i>>
      <3>1. CASE s = InUse  BY <1>5, <1>7, <2>1, <3>1
      <3>2. CASE s # InUse /\ d = c /\ i = id
        BY <1>5, <1>6, <1>9, <1>11, <1>12, <3>2
      <3>3. CASE s # InUse /\ (d # c \/ i # id)
        <4>1. pump'[d][i] = pump[d][i]  BY <1>11, <3>3 DEF Only
        <4>2. pump[d][i].sock \in Socks /\ Reaped[pump[d][i].sock] = <<d, i>> /\ pump[d][i].sock # s
          BY <1>7, <2>1, <4>1
        <4>. QED  BY <1>5, <1>12, <3>3, <4>1, <4>2
      <3>. QED  BY <3>1, <3>2, <3>3
    <2>. QED  BY <2>1 DEF Registered, Filed
  <1>18. ClientSide'  BY <1>0, ClientsSame DEF line
  <1>19. Streams'
    <2>1. ASSUME NEW d \in Clients, d # c  PROVE View(d)' = View(d) /\ broken'[d] = broken[d]
      BY <1>5, <1>11, <1>14, <2>1 DEF View, client, line, Only
    <2>2. ASSUME c \notin Udp, ~broken'[c]  PROVE StreamInv(View(c))'
      <3>1. PICK v : v = View(c)  OBVIOUS
      <3>2. PICK w : w = View(c)'  OBVIOUS
      <3>3. StreamInv(v)  BY <1>0, <2>2, <3>1 DEF Streams, line
      <3>4. /\ v \in ViewType
            /\ v.owner = c /\ v.way = up[c] \o req[c] /\ v.down = down[c]
            /\ v.calls = calls[c] /\ v.held = held[c] /\ v.session = session[c]
            /\ v.asked = asked[c] /\ v.granted = granted[c] /\ v.open = open[c]
            /\ v.pump = pump[c]
        BY <1>0, <3>1, ViewIs
      <3>5. /\ w \in ViewType
            /\ w.owner = c /\ w.way = up'[c] \o req'[c] /\ w.down = down'[c]
            /\ w.calls = calls'[c] /\ w.held = held'[c] /\ w.session = session'[c]
            /\ w.asked = asked'[c] /\ w.granted = granted'[c] /\ w.open = open'[c]
            /\ w.pump = pump'[c]
        BY <1>15, <3>2, ViewPrimed
      <3>6. SameQueues(v, w)  BY <3>4, <3>5 DEF SameQueues, line, client
      <3>7. /\ v.session = "opening" /\ v.granted = 0 /\ w.session = "opening" /\ w.asked = v.asked
            /\ w.open = v.open /\ w.granted = s /\ v.asked = id
        BY <1>3, <1>14, <3>4, <3>5
      <3>8. /\ s = InUse => w.pump = v.pump
            /\ s # InUse => w.pump = [v.pump EXCEPT ![v.asked] =
                                         [sock |-> s, state |-> "live", rx |-> 0, out |-> 0]]
        <4>1. pump \in [Clients -> [Ids -> PumpType]]  BY <1>0 DEF Types, PumpTable
        <4>. QED  BY <1>5, <3>4, <3>5, <3>7, <4>1
      <3>9. \A f \in Ids : v.pump[f].state \in Unfinished => v.pump[f].sock # s
        BY <1>7, <3>4 DEF Unfinished
      <3>10. StreamInv(w)
        BY <1>6, <3>3, <3>4, <3>5, <3>6, <3>7, <3>8, <3>9, Numbers, Grows
      <3>. QED  BY <3>2, <3>10
    <2>. QED  BY <1>0, <2>1, <2>2, OthersSame
  <1>20. OwnTraffic'  BY <1>0 DEF OwnTraffic
  <1>. QED  BY <1>15, <1>16, <1>17, <1>18, <1>19, <1>20 DEF IInv

LEMMA KeptByDdp ==
    ASSUME IInv, Ddp
    PROVE  IInv'
  <1>0. Types  BY DEF IInv
  <1>. DEFINE m == Head(cmds)
  <1>1. /\ cmds # <<>> /\ cmds' = Tail(cmds)
        /\ UNCHANGED <<client, line, session, asked, open, got, carried>>
    BY DEF Ddp
  <1>2. m \in CommandType  BY <1>0, <1>1, CommandTaken
  <1>3. CASE m.kind = "NewSocket" /\ NewSock(m.from, m.sock)  BY <1>1, <1>3, KeptByNewSock
  <1>4. CASE m.kind = "Received" /\ HandlePacket(m.sock) /\ UNCHANGED granted
    <2>1. m.sock \in Socks  BY <1>2, <1>4 DEF CommandType
    <2>. QED  BY <1>1, <1>4, <2>1, KeptByHandlePacket
  <1>5. CASE m.kind = "Deregister" /\ ddp' = Deregister(m.sock) /\ UNCHANGED <<pump, granted>>
    <2>1. PICK s \in Socks : s = m.sock  BY <1>2, <1>5 DEF CommandType
    <2>2. ddp \in [Socks -> Owner] /\ Nobody \in Owner  BY <1>0 DEF Types, Owner
    <2>3. ddp' = ddp \/ (Closed(s) /\ ddp' = [ddp EXCEPT ![s] = Nobody])
      BY <1>5, <2>1 DEF Deregister
    <2>4. ddp' \in [Socks -> Owner] /\ \A n \in Socks : ddp'[n] = ddp[n] \/ Closed(n)
      BY <2>2, <2>3
    <2>5. UNCHANGED daemon  BY <1>1, <1>5 DEF daemon
    <2>. QED  BY <1>1, <2>4, <2>5, TableStep
  <1>6. CASE UNCHANGED <<ddp, pump, granted>>
    <2>1. ddp' \in [Socks -> Owner] /\ \A n \in Socks : ddp'[n] = ddp[n]  BY <1>0, <1>6 DEF Types
    <2>2. UNCHANGED daemon  BY <1>1, <1>6 DEF daemon
    <2>. QED  BY <1>1, <2>1, <2>2, TableStep
  <1>. QED  BY <1>3, <1>4, <1>5, <1>6 DEF Ddp

-----------------------------------------------------------------------------
(* Messages to the client *)

\* What a session or a pump sends: on a stream it goes behind the rest.
LEMMA MessageSent ==
    ASSUME Types, NEW c \in Clients, NEW m \in MessageType, Answer(c, m)
    PROVE  /\ down' \in [Clients -> Seq(MessageType)]
           /\ \A d \in Clients : d # c => down'[d] = down[d]
           /\ c \notin Udp /\ ~broken[c] => down'[c] = Append(down[c], m)
  <1>1. down \in [Clients -> Seq(MessageType)]  BY DEF Types
  <1>2. PICK q \in Seq(MessageType) : q = down[c]  BY <1>1
  <1>3. Append(q, m) \in Seq(MessageType)  BY <1>2, AppendIs
  <1>4. /\ \/ down' = [down EXCEPT ![c] = q]
           \/ down' = [down EXCEPT ![c] = Append(q, m)]
           \/ down' = down
        /\ c \notin Udp /\ ~broken[c] => down' = [down EXCEPT ![c] = Append(q, m)]
    BY <1>2 DEF Answer
  <1>. QED  BY <1>1, <1>2, <1>3, <1>4

LEMMA KeptByForward ==
    ASSUME IInv, NEW c \in Clients, NEW id \in Ids, Forward(c, id)
    PROVE  IInv'
  <1>0. Types /\ Commands /\ Registered /\ ClientSide /\ Streams /\ OwnTraffic  BY DEF IInv
  <1>1. PICK m : m = Datagram(pump[c][id].sock, <<c, id>>)  OBVIOUS
  <1>2. /\ pump[c][id].state \in {"live", "cancelled"} /\ pump[c][id].rx > 0 /\ ~broken[c]
        /\ pump' = [pump EXCEPT ![c][id].rx = @ - 1]
        /\ Answer(c, m)
        /\ UNCHANGED <<client, up, broken, session, asked, granted, open, actor, got, carried>>
    BY <1>1 DEF Forward
  <1>3. pump[c][id] \in PumpType  BY <1>0 DEF Types, PumpTable
  <1>4. PICK n \in 0 .. SockCap : n = pump[c][id].rx - 1
    <2>1. PICK n \in 0 .. SockCap : n = pump[c][id].rx  BY <1>3 DEF PumpType
    <2>2. n > 0  BY <1>2, <2>1
    <2>3. n - 1 \in 0 .. SockCap  BY <2>2, Numbers
    <2>. QED  BY <2>1, <2>3
  <1>5. pump' = [pump EXCEPT ![c][id].rx = n]  BY <1>2, <1>4
  <1>6. PICK x : x = [pump[c][id] EXCEPT !.rx = n]  OBVIOUS
  <1>7. x \in PumpType /\ x.state = pump[c][id].state /\ x.sock = pump[c][id].sock
    BY <1>3, <1>6 DEF PumpType
  <1>8. Changed(pump, pump', c, id, x)  BY <1>5, <1>6 DEF Changed
  <1>9. pump' \in PumpTable /\ Only(pump, pump', c, id) /\ pump'[c][id] = x
    BY <1>0, <1>7, <1>8, PumpEntry DEF Types
  <1>10. pump[c][id].sock \in Socks  BY <1>0, <1>2 DEF Registered, Filed
  <1>11. /\ m \in MessageType /\ m.kind = "Datagram" /\ m.sock = pump[c][id].sock
         /\ m.from = <<c, id>>
    BY <1>1, <1>10 DEF Datagram, MessageType, Owner
  <1>12. /\ down' \in [Clients -> Seq(MessageType)]
         /\ \A d \in Clients : d # c => down'[d] = down[d]
         /\ c \notin Udp => down'[c] = Append(down[c], m)
    BY <1>0, <1>2, <1>11, MessageSent
  <1>13. Types'  BY <1>0, <1>2, <1>9, <1>12 DEF Types, client, actor
  <1>14. Commands'  BY <1>0, <1>2 DEF Commands, actor
  <1>15. \A d \in Clients, i \in Ids :
             pump'[d][i].sock = pump[d][i].sock /\ pump'[d][i].state = pump[d][i].state
    BY <1>7, <1>9 DEF Only
  <1>16. Registered'  BY <1>0, <1>2, <1>15, RegisteredStays DEF actor
  <1>17. ClientSide'  BY <1>0, <1>2, ClientsSame
  <1>18. Streams'
    <2>1. ASSUME NEW d \in Clients, d # c  PROVE View(d)' = View(d) /\ broken'[d] = broken[d]
      BY <1>2, <1>9, <1>12, <2>1 DEF View, client, Only
    <2>2. ASSUME c \notin Udp, ~broken'[c]  PROVE StreamInv(View(c))'
      <3>1. PICK v : v = View(c)  OBVIOUS
      <3>2. PICK w : w = View(c)'  OBVIOUS
      <3>3. StreamInv(v)  BY <1>0, <1>2, <2>2, <3>1 DEF Streams
      <3>4. /\ v \in ViewType
            /\ v.owner = c /\ v.way = up[c] \o req[c] /\ v.down = down[c]
            /\ v.calls = calls[c] /\ v.held = held[c] /\ v.session = session[c]
            /\ v.asked = asked[c] /\ v.granted = granted[c] /\ v.open = open[c]
            /\ v.pump = pump[c]
        BY <1>0, <3>1, ViewIs
      <3>5. /\ w \in ViewType
            /\ w.owner = c /\ w.way = up'[c] \o req'[c] /\ w.down = down'[c]
            /\ w.calls = calls'[c] /\ w.held = held'[c] /\ w.session = session'[c]
            /\ w.asked = asked'[c] /\ w.granted = granted'[c] /\ w.open = open'[c]
            /\ w.pump = pump'[c]
        BY <1>13, <3>2, ViewPrimed
      <3>6. PICK u : u = [v EXCEPT !.pump = w.pump]  OBVIOUS
      <3>7. u \in ViewType /\ SameQueues(v, u) /\ u.session = v.session /\ u.asked = v.asked
            /\ u.granted = v.granted /\ u.open = v.open /\ u.pump = w.pump
        BY <3>4, <3>5, <3>6 DEF ViewType, SameQueues
      <3>8. Fades(v, u)  BY <1>15, <3>4, <3>5, <3>7 DEF Fades
      <3>9. StreamInv(u)  BY <3>3, <3>4, <3>7, <3>8, PumpsFade
      <3>10. Behind(u, w, m)
        BY <1>2, <1>11, <1>12, <2>2, <3>4, <3>5, <3>7 DEF Behind, SameQueues, client
      <3>11. /\ u.pump[id].state \in Unfinished /\ m.sock = u.pump[id].sock
             /\ m.from = <<u.owner, id>>
        BY <1>2, <1>11, <1>15, <3>4, <3>5, <3>7 DEF SameQueues, Unfinished
      <3>12. StreamInv(w)  BY <1>10, <1>11, <3>5, <3>7, <3>9, <3>10, <3>11, Forwards
      <3>. QED  BY <3>2, <3>12
    <2>. QED  BY <1>0, <2>1, <2>2, OthersSame
  <1>19. OwnTraffic'  BY <1>0, <1>2 DEF OwnTraffic
  <1>. QED  BY <1>13, <1>14, <1>16, <1>17, <1>18, <1>19 DEF IInv

\* The reply to OpenSocket leaves only when the socket is open under the number it carries.
LEMMA KeptByOpened ==
    ASSUME IInv, NEW c \in Clients, Opened(c)
    PROVE  IInv'
  <1>0. Types /\ Commands /\ Registered /\ ClientSide /\ Streams /\ OwnTraffic  BY DEF IInv
  <1>1. PICK id \in Ids \cup {0} : id = asked[c]  BY <1>0 DEF Types
  <1>2. PICK s \in Socks \cup {0, InUse} : s = granted[c]  BY <1>0 DEF Types
  <1>3. PICK m : m = Reply(id, s)  OBVIOUS
  <1>4. /\ session[c] = "opening" /\ s # 0
        /\ session' = [session EXCEPT ![c] = "live"]
        /\ asked' = [asked EXCEPT ![c] = 0] /\ granted' = [granted EXCEPT ![c] = 0]
        /\ open' = IF s = InUse THEN open ELSE [open EXCEPT ![c][s] = id]
        /\ Answer(c, m)
        /\ UNCHANGED <<client, up, broken, pump, actor, got, carried>>
    BY <1>1, <1>2, <1>3 DEF Opened
  <1>5. m \in MessageType /\ m.kind = "Reply" /\ m.id = id /\ m.sock = s
    BY <1>3 DEF Reply, MessageType, Owner
  <1>6. /\ down' \in [Clients -> Seq(MessageType)]
        /\ \A d \in Clients : d # c => down'[d] = down[d]
        /\ c \notin Udp /\ ~broken[c] => down'[c] = Append(down[c], m)
    BY <1>0, <1>4, <1>5, MessageSent
  <1>7. /\ session' \in [Clients -> {"none", "live", "opening"}] /\ session'[c] = "live"
        /\ asked' \in [Clients -> Ids \cup {0}] /\ asked'[c] = 0
        /\ granted' \in [Clients -> Socks \cup {0, InUse}] /\ granted'[c] = 0
        /\ \A d \in Clients : d # c =>
              session'[d] = session[d] /\ asked'[d] = asked[d] /\ granted'[d] = granted[d]
    BY <1>0, <1>4 DEF Types
  <1>8. /\ open' \in OpenTable /\ \A d \in Clients : d # c => open'[d] = open[d]
        /\ open'[c] = IF s = InUse THEN open[c] ELSE [open[c] EXCEPT ![s] = id]
    <2>1. open \in [Clients -> [Socks -> Ids \cup {0}]]  BY <1>0 DEF Types, OpenTable
    <2>2. CASE s = InUse  BY <1>4, <2>1, <2>2 DEF OpenTable
    <2>3. CASE s # InUse  BY <1>4, <2>1, <2>3 DEF OpenTable
    <2>. QED  BY <2>2, <2>3
  <1>9. Types'  BY <1>0, <1>4, <1>6, <1>7, <1>8 DEF Types, client, actor
  <1>10. Commands'  BY <1>0, <1>2, <1>4, <1>7, CommandsStay DEF actor
  <1>11. Registered'  BY <1>0, <1>4 DEF Registered, Filed, actor
  <1>12. ClientSide'  BY <1>0, <1>4, ClientsSame
  <1>13. Streams'
    <2>1. ASSUME NEW d \in Clients, d # c  PROVE View(d)' = View(d) /\ broken'[d] = broken[d]
      BY <1>4, <1>6, <1>7, <1>8, <2>1 DEF View, client
    <2>2. ASSUME c \notin Udp, ~broken'[c]  PROVE StreamInv(View(c))'
      <3>1. PICK v : v = View(c)  OBVIOUS
      <3>2. PICK w : w = View(c)'  OBVIOUS
      <3>3. StreamInv(v)  BY <1>0, <1>4, <2>2, <3>1 DEF Streams
      <3>4. /\ v \in ViewType
            /\ v.owner = c /\ v.way = up[c] \o req[c] /\ v.down = down[c]
            /\ v.calls = calls[c] /\ v.held = held[c] /\ v.session = session[c]
            /\ v.asked = asked[c] /\ v.granted = granted[c] /\ v.open = open[c]
            /\ v.pump = pump[c]
        BY <1>0, <3>1, ViewIs
      <3>5. /\ w \in ViewType
            /\ w.owner = c /\ w.way = up'[c] \o req'[c] /\ w.down = down'[c]
            /\ w.calls = calls'[c] /\ w.held = held'[c] /\ w.session = session'[c]
            /\ w.asked = asked'[c] /\ w.granted = granted'[c] /\ w.open = open'[c]
            /\ w.pump = pump'[c]
        BY <1>9, <3>2, ViewPrimed
      <3>6. PICK u : u = [w EXCEPT !.down = v.down]  OBVIOUS
      <3>7. /\ u \in ViewType /\ u.down = v.down /\ u.owner = w.owner /\ u.way = w.way
            /\ u.calls = w.calls /\ u.held = w.held /\ u.session = w.session /\ u.asked = w.asked
            /\ u.granted = w.granted /\ u.open = w.open /\ u.pump = w.pump
        BY <3>4, <3>5, <3>6 DEF ViewType
      <3>8. SameQueues(v, u)  BY <1>4, <3>4, <3>5, <3>7 DEF SameQueues, client
      <3>9. /\ v.session = "opening" /\ v.granted = s /\ v.asked = id /\ u.session = "live"
            /\ u.asked = 0 /\ u.granted = 0 /\ u.pump = v.pump
            /\ s = InUse => u.open = v.open
            /\ s # InUse => u.open = [v.open EXCEPT ![s] = id]
        BY <1>1, <1>2, <1>4, <1>7, <1>8, <3>4, <3>5, <3>7
      <3>10. \A f, g \in Ids : v.pump[f].state \in Unfinished /\ v.pump[g].state \in Unfinished
                               /\ v.pump[f].sock = v.pump[g].sock => f = g
        <4>1. ASSUME NEW f \in Ids, NEW g \in Ids, pump[c][f].state \in Unfinished,
                     pump[c][g].state \in Unfinished, pump[c][f].sock = pump[c][g].sock
              PROVE  f = g
          <5>1. ddp[pump[c][f].sock] = <<c, f>> /\ ddp[pump[c][g].sock] = <<c, g>>
            BY <1>0, <4>1 DEF Registered, Filed, Unfinished
          <5>. QED  BY <4>1, <5>1
        <4>. QED  BY <3>4, <4>1
      <3>11. /\ StreamInv(u) /\ Lone(u, id)
             /\ s \in Socks =>
                   /\ u.open[s] = id /\ \A i \in DOMAIN u.way : ~Closes(u.way[i], s)
                   /\ \A f \in Ids : f # id /\ u.pump[f].sock = s => u.pump[f].state \notin Unfinished
        BY <1>4, <3>3, <3>4, <3>7, <3>8, <3>9, <3>10, Numbers, Grants
      <3>12. Behind(u, w, m)
        BY <1>4, <1>5, <1>6, <2>2, <3>4, <3>5, <3>7 DEF Behind
      <3>13. StreamInv(w)  BY <1>5, <3>5, <3>7, <3>11, <3>12, Answers
      <3>. QED  BY <3>2, <3>13
    <2>. QED  BY <1>0, <2>1, <2>2, OthersSame
  <1>14. OwnTraffic'  BY <1>0, <1>4 DEF OwnTraffic
  <1>. QED  BY <1>9, <1>10, <1>11, <1>12, <1>13, <1>14 DEF IInv

-----------------------------------------------------------------------------
(* The session takes a request *)

Takes(c, i) ==
    /\ session[c] = "live" \/ (session[c] = "none" /\ c \in Udp)
    /\ i \in Arrivals(c, up[c]) /\ up' = [up EXCEPT ![c] = RemoveAt(@, i)]
    /\ UNCHANGED <<client, broken, granted, ddp, got>>

LEMMA RequestTaken ==
    ASSUME IInv, NEW c \in Clients, NEW i, Takes(c, i)
    PROVE  /\ up' \in [Clients -> Seq(RequestType)] /\ up[c][i] \in RequestType
           /\ \A d \in Clients : d # c => up'[d] = up[d]
           /\ ClientSide' /\ ~broken[c] /\ granted[c] = 0
           /\ c \notin Udp =>
                 /\ up[c] \o req[c] # <<>> /\ (up[c] \o req[c])[1] = up[c][i]
                 /\ up'[c] \o req'[c] = Tail(up[c] \o req[c])
                 /\ session[c] = "live" /\ StreamInv(View(c))
  <1>0. Types /\ Commands /\ ClientSide /\ Streams  BY DEF IInv
  <1>1. i \in DOMAIN up[c] /\ (c \notin Udp => i = 1)  BY DEF Takes, Arrivals
  <1>2. up \in [Clients -> Seq(RequestType)] /\ req \in [Clients -> Seq(RequestType)]  BY <1>0 DEF Types
  <1>3. PICK p \in Seq(RequestType), q \in Seq(RequestType) : p = up[c] /\ q = req[c]  BY <1>2
  <1>4. RemoveAt(p, i) \in Seq(RequestType) /\ p[i] \in RequestType  BY <1>1, <1>3, RemoveType
  <1>5. up' = [up EXCEPT ![c] = RemoveAt(p, i)]  BY <1>3 DEF Takes
  <1>6. /\ up' \in [Clients -> Seq(RequestType)] /\ up'[c] = RemoveAt(p, i)
        /\ \A d \in Clients : d # c => up'[d] = up[d]
    BY <1>2, <1>4, <1>5
  <1>7. p # <<>>  BY <1>1, <1>3
  <1>8. ~broken[c]  BY <1>0, <1>3, <1>7 DEF ClientSide
  <1>9. ClientSide'
    <2>1. UNCHANGED client /\ broken' = broken  BY DEF Takes
    <2>2. ASSUME NEW d \in Clients  PROVE Handles(d)'
      BY <1>0, <2>1 DEF ClientSide, Handles, client
    <2>3. ASSUME NEW d \in Clients, broken'[d]  PROVE up'[d] = <<>>
      <3>1. d # c /\ broken[d]  BY <1>8, <2>1, <2>3
      <3>. QED  BY <1>0, <1>6, <3>1 DEF ClientSide
    <2>. QED  BY <2>2, <2>3 DEF ClientSide
  <1>10. granted[c] = 0  BY <1>0 DEF Takes, Commands
  <1>11. ASSUME c \notin Udp
         PROVE  /\ up[c] \o req[c] # <<>> /\ (up[c] \o req[c])[1] = up[c][i]
                /\ up'[c] \o req'[c] = Tail(up[c] \o req[c])
                /\ session[c] = "live" /\ StreamInv(View(c))
    <2>1. i = 1  BY <1>1, <1>11
    <2>2. RemoveAt(p, 1) = Tail(p)  BY <1>7, TakenFirst
    <2>3. Tail(p) \o q = Tail(p \o q) /\ p \o q # <<>> /\ (p \o q)[1] = p[1]  BY <1>7, TakeFirst
    <2>4. req' = req  BY DEF Takes, client
    <2>5. session[c] = "live"  BY <1>11 DEF Takes
    <2>6. StreamInv(View(c))  BY <1>0, <1>8, <1>11 DEF Streams
    <2>. QED  BY <1>3, <1>6, <2>1, <2>2, <2>3, <2>4, <2>5, <2>6
  <1>. QED  BY <1>3, <1>4, <1>6, <1>8, <1>9, <1>10, <1>11

\* u is the view without the request r, and this is what is known of the request.
Remains(u, c, r) ==
    /\ StreamInv(u) /\ r \in RequestType /\ Shaped(r)
    /\ u.owner = c /\ u.way = up'[c] \o req'[c] /\ u.down = down[c] /\ u.calls = calls[c]
    /\ u.held = held[c] /\ u.session = "live" /\ u.asked = asked[c] /\ u.granted = 0
    /\ u.open = open[c] /\ u.pump = pump[c]
    /\ r.id \in Ids => Lone(u, r.id) /\ u.pump[r.id].state = "none"
    /\ r.kind \in {"Send", "Close"} => open[c][r.sock] = r.from
    /\ r.kind = "Close" =>
          /\ \A j \in DOMAIN u.way : u.way[j].kind \in {"Send", "Close"} => u.way[j].sock # r.sock
          /\ \A h \in Ids : ~Claims(u, h, r.sock)

LEMMA StreamTaken ==
    ASSUME IInv, NEW c \in Clients, c \notin Udp, NEW i, Takes(c, i)
    PROVE  \E u \in ViewType : Remains(u, c, up[c][i])
  <1>0. Types  BY DEF IInv
  <1>1. PICK u : u = [View(c) EXCEPT !.way = Tail(View(c).way)]  OBVIOUS
  <1>2. PICK r : r = up[c][i]  OBVIOUS
  <1>3. PICK v : v = View(c)  OBVIOUS
  <1>4. /\ up[c] \o req[c] # <<>> /\ (up[c] \o req[c])[1] = up[c][i]
        /\ up'[c] \o req'[c] = Tail(up[c] \o req[c])
        /\ session[c] = "live" /\ StreamInv(v) /\ granted[c] = 0
    BY <1>3, RequestTaken
  <1>5. /\ v \in ViewType
        /\ v.owner = c /\ v.way = up[c] \o req[c] /\ v.down = down[c]
        /\ v.calls = calls[c] /\ v.held = held[c] /\ v.session = session[c]
        /\ v.asked = asked[c] /\ v.granted = granted[c] /\ v.open = open[c]
        /\ v.pump = pump[c]
    BY <1>0, <1>3, ViewIs
  <1>6. Without(v, u, r) /\ v.way # <<>>  BY <1>1, <1>2, <1>3, <1>4, <1>5 DEF Without
  <1>7. /\ u \in ViewType /\ StreamInv(u) /\ r \in RequestType /\ Shaped(r)
        /\ r.id \in Ids => Lone(u, r.id) /\ u.pump[r.id].state = "none"
        /\ v.session # "none" /\ r.kind \in {"Send", "Close"} => v.open[r.sock] = r.from
        /\ v.session # "none" /\ r.kind = "Close" =>
              /\ \A j \in DOMAIN u.way : u.way[j].kind \in {"Send", "Close"} => u.way[j].sock # r.sock
              /\ \A h \in Ids : ~Claims(u, h, r.sock)
    BY <1>4, <1>5, <1>6, Taken
  <1>8. /\ u.way = Tail(v.way) /\ u.down = v.down /\ u.calls = v.calls /\ u.held = v.held
        /\ u.session = v.session /\ u.asked = v.asked /\ u.granted = v.granted /\ u.open = v.open
        /\ u.pump = v.pump /\ u.owner = v.owner
    BY <1>5, <1>6 DEF ViewType, Without
  <1>9. Remains(u, c, r)  BY <1>4, <1>5, <1>7, <1>8 DEF Remains
  <1>. QED  BY <1>2, <1>7, <1>9

\* What goes on with a session that is not opening a socket.
LEMMA SessionGoesOn ==
    ASSUME Types, Commands, NEW c \in Clients, session[c] # "opening",
           session' = [session EXCEPT ![c] = "live"], UNCHANGED <<asked, granted, cmds>>
    PROVE  /\ Commands' /\ session' \in [Clients -> {"none", "live", "opening"}]
           /\ session'[c] = "live" /\ \A d \in Clients : d # c => session'[d] = session[d]
  <1>1. /\ session' \in [Clients -> {"none", "live", "opening"}]
        /\ session'[c] = "live" /\ \A d \in Clients : d # c => session'[d] = session[d]
    BY DEF Types
  <1>2. granted[c] = 0  BY DEF Commands
  <1>. QED  BY <1>1, <1>2, CommandsStay

LEMMA KeptByHandleQuery ==
    ASSUME IInv, NEW c \in Clients, NEW i, Takes(c, i), HandleQuery(c, up[c][i])
    PROVE  IInv'
  <1>0. Types /\ Commands /\ Registered /\ ClientSide /\ Streams /\ OwnTraffic  BY DEF IInv
  <1>1. PICK r : r = up[c][i]  OBVIOUS
  <1>2. PICK m : m = Reply(r.id, 0)  OBVIOUS
  <1>3. /\ session' = [session EXCEPT ![c] = "live"] /\ Answer(c, m)
        /\ UNCHANGED <<asked, open, pump, carried, cmds>>
    BY <1>1, <1>2 DEF HandleQuery
  <1>4. /\ session[c] # "opening" /\ UNCHANGED <<client, broken, granted, ddp, got>>
    BY DEF Takes
  <1>5. /\ up' \in [Clients -> Seq(RequestType)] /\ r \in RequestType
        /\ \A d \in Clients : d # c => up'[d] = up[d]
        /\ ClientSide' /\ ~broken[c] /\ granted[c] = 0
    BY <1>1, RequestTaken
  <1>6. m \in MessageType /\ m.kind = "Reply" /\ m.id = r.id /\ m.sock = 0
    BY <1>2, <1>5 DEF Reply, MessageType, RequestType, Owner
  <1>7. /\ down' \in [Clients -> Seq(MessageType)]
        /\ \A d \in Clients : d # c => down'[d] = down[d]
        /\ c \notin Udp => down'[c] = Append(down[c], m)
    BY <1>0, <1>3, <1>5, <1>6, MessageSent
  <1>8. /\ Commands' /\ session' \in [Clients -> {"none", "live", "opening"}]
        /\ session'[c] = "live" /\ \A d \in Clients : d # c => session'[d] = session[d]
    BY <1>0, <1>3, <1>4, SessionGoesOn
  <1>9. Types'  BY <1>0, <1>3, <1>4, <1>5, <1>7, <1>8 DEF Types, client
  <1>10. Registered'  BY <1>0, <1>3, <1>4 DEF Registered, Filed
  <1>11. Streams'
    <2>1. ASSUME NEW d \in Clients, d # c  PROVE View(d)' = View(d) /\ broken'[d] = broken[d]
      BY <1>3, <1>4, <1>5, <1>7, <1>8, <2>1 DEF View, client
    <2>2. ASSUME c \notin Udp, ~broken'[c]  PROVE StreamInv(View(c))'
      <3>1. PICK u \in ViewType : Remains(u, c, r)  BY <1>1, <2>2, StreamTaken
      <3>2. PICK w : w = View(c)'  OBVIOUS
      <3>3. /\ u \in ViewType /\ StreamInv(u)
            /\ u.owner = c /\ u.way = up'[c] \o req'[c] /\ u.down = down[c] /\ u.calls = calls[c]
            /\ u.held = held[c] /\ u.session = "live" /\ u.asked = asked[c] /\ u.granted = 0
            /\ u.open = open[c] /\ u.pump = pump[c]
            /\ r.id \in Ids => Lone(u, r.id)
        BY <3>1 DEF Remains
      <3>4. /\ w \in ViewType
            /\ w.owner = c /\ w.way = up'[c] \o req'[c] /\ w.down = down'[c]
            /\ w.calls = calls'[c] /\ w.held = held'[c] /\ w.session = session'[c]
            /\ w.asked = asked'[c] /\ w.granted = granted'[c] /\ w.open = open'[c]
            /\ w.pump = pump'[c]
        BY <1>9, <3>2, ViewPrimed
      <3>5. Behind(u, w, m)
        BY <1>3, <1>4, <1>5, <1>6, <1>7, <1>8, <2>2, <3>3, <3>4 DEF Behind, client
      <3>6. m.sock \notin Socks  BY <1>6, Numbers
      <3>7. StreamInv(w)  BY <1>6, <3>3, <3>4, <3>5, <3>6, Answers
      <3>. QED  BY <3>2, <3>7
    <2>. QED  BY <1>0, <2>1, <2>2, OthersSame
  <1>12. OwnTraffic'  BY <1>0, <1>3, <1>4 DEF OwnTraffic
  <1>. QED  BY <1>5, <1>8, <1>9, <1>10, <1>11, <1>12 DEF IInv

LEMMA KeptByHandleOpen ==
    ASSUME IInv, NEW c \in Clients, NEW i, Takes(c, i), HandleOpen(c, up[c][i])
    PROVE  IInv'
  <1>0. Types /\ Commands /\ Registered /\ ClientSide /\ Streams /\ OwnTraffic  BY DEF IInv
  <1>1. PICK r : r = up[c][i]  OBVIOUS
  <1>2. PICK m : m = Command("NewSocket", r.sock, <<c, r.id>>)  OBVIOUS
  <1>3. /\ r.kind = "Open" /\ Len(cmds) < CmdCap /\ cmds' = Append(cmds, m)
        /\ session' = [session EXCEPT ![c] = "opening"] /\ asked' = [asked EXCEPT ![c] = r.id]
        /\ UNCHANGED <<open, pump, carried, down>>
    BY <1>1, <1>2 DEF HandleOpen
  <1>4. /\ session[c] # "opening" /\ UNCHANGED <<client, broken, granted, ddp, got>>
    BY DEF Takes
  <1>5. /\ up' \in [Clients -> Seq(RequestType)] /\ r \in RequestType
        /\ \A d \in Clients : d # c => up'[d] = up[d]
        /\ ClientSide' /\ ~broken[c] /\ granted[c] = 0
    BY <1>1, RequestTaken
  <1>6. PICK id \in Ids : id = r.id  BY <1>3, <1>5 DEF RequestType, Shaped
  <1>7. m \in CommandType /\ m.kind = "NewSocket" /\ m.from = <<c, id>> /\ m.from[1] = c /\ m.from[2] = id
    BY <1>2, <1>5, <1>6 DEF Command, CommandType, Owner, RequestType
  <1>8. /\ session' \in [Clients -> {"none", "live", "opening"}] /\ session'[c] = "opening"
        /\ asked' \in [Clients -> Ids \cup {0}] /\ asked'[c] = id
        /\ \A d \in Clients : d # c => session'[d] = session[d] /\ asked'[d] = asked[d]
    BY <1>0, <1>3, <1>6 DEF Types
  <1>9. PICK q \in Seq(CommandType) : q = cmds  BY <1>0 DEF Types
  <1>10. /\ Append(q, m) \in Seq(CommandType) /\ Len(q) \in Nat /\ Len(Append(q, m)) = Len(q) + 1
         /\ DOMAIN q = 1 .. Len(q) /\ DOMAIN Append(q, m) = 1 .. Len(q) + 1
         /\ \A k \in 1 .. Len(q) : Append(q, m)[k] = q[k]
         /\ Append(q, m)[Len(q) + 1] = m
    BY <1>7, AppendIs
  <1>11. cmds' = Append(q, m)  BY <1>3, <1>9
  <1>12. cmds' \in Seq(CommandType) /\ Len(cmds') <= CmdCap
    BY <1>3, <1>9, <1>10, <1>11, Numbers
  <1>13. Types'  BY <1>0, <1>3, <1>4, <1>5, <1>8, <1>12 DEF Types, client
  <1>14. Commands'
    <2>1. \A k \in DOMAIN cmds' :
              (k \in DOMAIN cmds /\ cmds'[k] = cmds[k]) \/ (k = Len(q) + 1 /\ cmds'[k] = m)
      BY <1>9, <1>10, <1>11
    <2>2. ASSUME NEW k \in DOMAIN cmds, cmds[k].kind = "NewSocket"
          PROVE  /\ cmds[k].from[1] # c
                 /\ session'[cmds[k].from[1]] = "opening" /\ granted'[cmds[k].from[1]] = 0
                 /\ asked'[cmds[k].from[1]] = cmds[k].from[2]
                 /\ \A j \in DOMAIN cmds :
                       cmds[j].kind = "NewSocket" /\ cmds[j].from[1] = cmds[k].from[1] => j = k
      <3>1. /\ session[cmds[k].from[1]] = "opening" /\ granted[cmds[k].from[1]] = 0
            /\ asked[cmds[k].from[1]] = cmds[k].from[2]
            /\ \A j \in DOMAIN cmds :
                  cmds[j].kind = "NewSocket" /\ cmds[j].from[1] = cmds[k].from[1] => j = k
        BY <1>0, <2>2 DEF Commands
      <3>2. cmds[k] \in CommandType  BY <1>9
      <3>3. cmds[k].from \in Clients \X Ids  BY <2>2, <3>2 DEF CommandType
      <3>4. cmds[k].from[1] \in Clients /\ cmds[k].from[1] # c  BY <1>4, <3>1, <3>3
      <3>. QED  BY <1>4, <1>8, <3>1, <3>4
    <2>3. ASSUME NEW k \in DOMAIN cmds', cmds'[k].kind = "NewSocket"
          PROVE  /\ session'[cmds'[k].from[1]] = "opening" /\ granted'[cmds'[k].from[1]] = 0
                 /\ asked'[cmds'[k].from[1]] = cmds'[k].from[2]
                 /\ \A j \in DOMAIN cmds' :
                       cmds'[j].kind = "NewSocket" /\ cmds'[j].from[1] = cmds'[k].from[1] => j = k
      <3>1. CASE k \in DOMAIN cmds /\ cmds'[k] = cmds[k]
        <4>1. /\ cmds[k].from[1] # c
              /\ session'[cmds[k].from[1]] = "opening" /\ granted'[cmds[k].from[1]] = 0
              /\ asked'[cmds[k].from[1]] = cmds[k].from[2]
              /\ \A j \in DOMAIN cmds :
                    cmds[j].kind = "NewSocket" /\ cmds[j].from[1] = cmds[k].from[1] => j = k
          BY <2>2, <2>3, <3>1
        <4>2. ASSUME NEW j \in DOMAIN cmds', cmds'[j].kind = "NewSocket",
                     cmds'[j].from[1] = cmds'[k].from[1]
              PROVE  j = k
          BY <1>7, <2>1, <3>1, <4>1, <4>2
        <4>. QED  BY <3>1, <4>1, <4>2
      <3>2. CASE k = Len(q) + 1 /\ cmds'[k] = m
        <4>1. ASSUME NEW j \in DOMAIN cmds', cmds'[j].kind = "NewSocket",
                     cmds'[j].from[1] = cmds'[k].from[1]
              PROVE  j = k
          BY <1>7, <2>1, <2>2, <3>2, <4>1
        <4>. QED  BY <1>4, <1>5, <1>7, <1>8, <3>2, <4>1
      <3>. QED  BY <2>1, <3>1, <3>2
    <2>4. \A d \in Clients : session'[d] # "opening" => granted'[d] = 0
      BY <1>0, <1>4, <1>8 DEF Commands
    <2>5. \A d \in Clients : session'[d] = "opening" => asked'[d] \in Ids
      BY <1>0, <1>8 DEF Commands
    <2>. QED  BY <2>3, <2>4, <2>5 DEF Commands
  <1>15. Registered'  BY <1>0, <1>3, <1>4 DEF Registered, Filed
  <1>16. Streams'
    <2>1. ASSUME NEW d \in Clients, d # c  PROVE View(d)' = View(d) /\ broken'[d] = broken[d]
      BY <1>3, <1>4, <1>5, <1>8, <2>1 DEF View, client
    <2>2. ASSUME c \notin Udp, ~broken'[c]  PROVE StreamInv(View(c))'
      <3>1. PICK u \in ViewType : Remains(u, c, r)  BY <1>1, <2>2, StreamTaken
      <3>2. PICK w : w = View(c)'  OBVIOUS
      <3>3. /\ u \in ViewType /\ StreamInv(u)
            /\ u.owner = c /\ u.way = up'[c] \o req'[c] /\ u.down = down[c] /\ u.calls = calls[c]
            /\ u.held = held[c] /\ u.session = "live" /\ u.asked = asked[c] /\ u.granted = 0
            /\ u.open = open[c] /\ u.pump = pump[c]
            /\ r.id \in Ids => Lone(u, r.id) /\ u.pump[r.id].state = "none"
        BY <3>1 DEF Remains
      <3>4. /\ w \in ViewType
            /\ w.owner = c /\ w.way = up'[c] \o req'[c] /\ w.down = down'[c]
            /\ w.calls = calls'[c] /\ w.held = held'[c] /\ w.session = session'[c]
            /\ w.asked = asked'[c] /\ w.granted = granted'[c] /\ w.open = open'[c]
            /\ w.pump = pump'[c]
        BY <1>13, <3>2, ViewPrimed
      <3>5. SameQueues(u, w)  BY <1>3, <1>4, <3>3, <3>4 DEF SameQueues, client
      <3>6. /\ Lone(u, id) /\ u.pump[id].state = "none" /\ w.session = "opening" /\ w.asked = id
            /\ w.granted = 0 /\ w.open = u.open /\ w.pump = u.pump
        BY <1>3, <1>4, <1>5, <1>6, <1>8, <3>3, <3>4
      <3>7. StreamInv(w)  BY <3>3, <3>4, <3>5, <3>6, Numbers, Begins
      <3>. QED  BY <3>2, <3>7
    <2>. QED  BY <1>0, <2>1, <2>2, OthersSame
  <1>17. OwnTraffic'  BY <1>0, <1>3, <1>4 DEF OwnTraffic
  <1>. QED  BY <1>5, <1>13, <1>14, <1>15, <1>16, <1>17 DEF IInv

LEMMA KeptByHandleClose ==
    ASSUME IInv, NEW c \in Clients, NEW i, Takes(c, i), HandleClose(c, up[c][i])
    PROVE  IInv'
  <1>0. Types /\ Commands /\ Registered /\ ClientSide /\ Streams /\ OwnTraffic  BY DEF IInv
  <1>1. PICK r : r = up[c][i]  OBVIOUS
  <1>2. /\ up' \in [Clients -> Seq(RequestType)] /\ r \in RequestType
        /\ \A d \in Clients : d # c => up'[d] = up[d]
        /\ ClientSide' /\ ~broken[c] /\ granted[c] = 0
    BY <1>1, RequestTaken
  <1>3. r.kind = "Close"  BY <1>1 DEF HandleClose
  <1>4. PICK s \in Socks : s = r.sock  BY <1>2, <1>3 DEF RequestType, Shaped
  <1>5. PICK id \in Ids \cup {0} : id = open[c][s]  BY <1>0 DEF Types, OpenTable
  <1>6. /\ session' = [session EXCEPT ![c] = "live"]
        /\ open' = [open EXCEPT ![c][s] = 0]
        /\ pump' = IF id = 0 THEN pump ELSE [pump EXCEPT ![c][id] = Cancelled(@)]
        /\ UNCHANGED <<asked, carried, cmds, down>>
    BY <1>1, <1>4, <1>5 DEF HandleClose
  <1>7. /\ session[c] # "opening" /\ UNCHANGED <<client, broken, granted, ddp, got>>
    BY DEF Takes
  <1>8. /\ Commands' /\ session' \in [Clients -> {"none", "live", "opening"}]
        /\ session'[c] = "live" /\ \A d \in Clients : d # c => session'[d] = session[d]
    BY <1>0, <1>6, <1>7, SessionGoesOn
  <1>9. /\ open' \in OpenTable /\ \A d \in Clients : d # c => open'[d] = open[d]
        /\ open'[c] = [open[c] EXCEPT ![s] = 0]
    BY <1>0, <1>6 DEF Types, OpenTable
  <1>10. /\ pump' \in PumpTable /\ \A d \in Clients : d # c => pump'[d] = pump[d]
         /\ \A f \in Ids : pump'[c][f] = IF f = id THEN Cancelled(pump[c][f]) ELSE pump[c][f]
         /\ \A d \in Clients, f \in Ids :
               /\ pump'[d][f].sock = pump[d][f].sock
               /\ pump'[d][f].state \in Unfinished => pump[d][f].state \in Unfinished
    <2>1. CASE id = 0  BY <1>0, <1>6, <2>1, Numbers DEF Types
    <2>2. CASE id \in Ids
      <3>1. PICK p \in PumpType : p = pump[c][id]  BY <1>0, <2>2 DEF Types, PumpTable
      <3>2. PICK x : x = Cancelled(p)  OBVIOUS
      <3>3. /\ x \in PumpType /\ x.sock = pump[c][id].sock
            /\ x.state \in Unfinished => pump[c][id].state \in Unfinished
        BY <3>1, <3>2, CancelledIs
      <3>4. pump' = [pump EXCEPT ![c][id] = x]
        <4>1. id # 0  BY <2>2, Numbers
        <4>2. pump \in [Clients -> [Ids -> PumpType]]  BY <1>0 DEF Types, PumpTable
        <4>3. pump' = [pump EXCEPT ![c][id] = Cancelled(pump[c][id])]  BY <1>6, <4>1, <4>2
        <4>. QED  BY <3>1, <3>2, <4>3
      <3>5. Changed(pump, pump', c, id, x)  BY <3>4 DEF Changed
      <3>6. pump' \in PumpTable /\ Only(pump, pump', c, id) /\ pump'[c][id] = x
        BY <1>0, <2>2, <3>3, <3>5, PumpEntry DEF Types
      <3>7. /\ \A d \in Clients : d # c => pump'[d] = pump[d]
            /\ \A d \in Clients, f \in Ids : d # c \/ f # id => pump'[d][f] = pump[d][f]
        BY <3>6 DEF Only
      <3>8. \A f \in Ids : pump'[c][f] = IF f = id THEN Cancelled(pump[c][f]) ELSE pump[c][f]
        BY <3>1, <3>2, <3>6, <3>7
      <3>9. \A d \in Clients, f \in Ids :
               /\ pump'[d][f].sock = pump[d][f].sock
               /\ pump'[d][f].state \in Unfinished => pump[d][f].state \in Unfinished
        BY <3>3, <3>6, <3>7
      <3>. QED  BY <3>6, <3>7, <3>8, <3>9
    <2>. QED  BY <2>1, <2>2
  <1>11. Types'  BY <1>0, <1>2, <1>6, <1>7, <1>8, <1>9, <1>10 DEF Types, client
  <1>12. Registered'  BY <1>0, <1>7, <1>10, RegisteredFades
  <1>13. Streams'
    <2>1. ASSUME NEW d \in Clients, d # c  PROVE View(d)' = View(d) /\ broken'[d] = broken[d]
      BY <1>2, <1>6, <1>7, <1>8, <1>9, <1>10, <2>1 DEF View, client
    <2>2. ASSUME c \notin Udp, ~broken'[c]  PROVE StreamInv(View(c))'
      <3>1. PICK u \in ViewType : Remains(u, c, r)  BY <1>1, <2>2, StreamTaken
      <3>2. PICK w : w = View(c)'  OBVIOUS
      <3>3. /\ StreamInv(u)
            /\ u.owner = c /\ u.way = up'[c] \o req'[c] /\ u.down = down[c] /\ u.calls = calls[c]
            /\ u.held = held[c] /\ u.session = "live" /\ u.asked = asked[c] /\ u.granted = 0
            /\ u.open = open[c] /\ u.pump = pump[c]
        BY <3>1 DEF Remains
      <3>4. /\ \A j \in DOMAIN u.way : u.way[j].kind \in {"Send", "Close"} => u.way[j].sock # s
            /\ \A h \in Ids : ~Claims(u, h, s)
        BY <1>3, <1>4, <3>1 DEF Remains
      <3>5. /\ w \in ViewType
            /\ w.owner = c /\ w.way = up'[c] \o req'[c] /\ w.down = down'[c]
            /\ w.calls = calls'[c] /\ w.held = held'[c] /\ w.session = session'[c]
            /\ w.asked = asked'[c] /\ w.granted = granted'[c] /\ w.open = open'[c]
            /\ w.pump = pump'[c]
        BY <1>11, <3>2, ViewPrimed
      <3>6. SameQueues(u, w)  BY <1>6, <1>7, <3>3, <3>5 DEF SameQueues, client
      <3>7. /\ w.session = "live" /\ w.asked = u.asked /\ w.granted = u.granted
            /\ w.open = [u.open EXCEPT ![s] = 0]
        BY <1>2, <1>6, <1>7, <1>8, <1>9, <3>3, <3>5
      <3>8. \A f \in Ids : w.pump[f] = IF f = u.open[s] THEN Cancelled(u.pump[f]) ELSE u.pump[f]
        BY <1>5, <1>10, <3>3, <3>5
      <3>9. StreamInv(w)  BY <3>3, <3>4, <3>5, <3>6, <3>7, <3>8, Numbers, Frees
      <3>. QED  BY <3>2, <3>9
    <2>. QED  BY <1>0, <2>1, <2>2, OthersSame
  <1>14. OwnTraffic'  BY <1>0, <1>6, <1>7 DEF OwnTraffic
  <1>. QED  BY <1>2, <1>8, <1>11, <1>12, <1>13, <1>14 DEF IInv

\* The socket that is open under the number is the one it was written to.
LEMMA KeptByHandleSend ==
    ASSUME IInv, NEW c \in Clients, NEW i, Takes(c, i), HandleSend(c, up[c][i])
    PROVE  IInv'
  <1>0. Types /\ Commands /\ Registered /\ ClientSide /\ Streams /\ OwnTraffic  BY DEF IInv
  <1>1. PICK r : r = up[c][i]  OBVIOUS
  <1>2. /\ up' \in [Clients -> Seq(RequestType)] /\ r \in RequestType
        /\ \A d \in Clients : d # c => up'[d] = up[d]
        /\ ClientSide' /\ ~broken[c] /\ granted[c] = 0
    BY <1>1, RequestTaken
  <1>3. r.kind = "Send"  BY <1>1 DEF HandleSend
  <1>4. PICK s \in Socks : s = r.sock  BY <1>2, <1>3 DEF RequestType, Shaped
  <1>5. PICK id \in Ids \cup {0} : id = open[c][s]  BY <1>0 DEF Types, OpenTable
  <1>6. /\ session' = [session EXCEPT ![c] = "live"]
        /\ \/ /\ id # 0 /\ pump[c][id].out < SockCap
              /\ pump' = [pump EXCEPT ![c][id].out = @ + 1]
              /\ carried' = carried \cup {<<<<c, r.from>>, <<c, id>>>>}
           \/ UNCHANGED <<pump, carried>>
        /\ UNCHANGED <<asked, open, cmds, down>>
    BY <1>1, <1>4, <1>5 DEF HandleSend
  <1>7. /\ session[c] # "opening" /\ UNCHANGED <<client, broken, granted, ddp, got>>
    BY DEF Takes
  <1>8. /\ Commands' /\ session' \in [Clients -> {"none", "live", "opening"}]
        /\ session'[c] = "live" /\ \A d \in Clients : d # c => session'[d] = session[d]
    BY <1>0, <1>6, <1>7, SessionGoesOn
  <1>9. /\ pump' \in PumpTable /\ \A d \in Clients : d # c => pump'[d] = pump[d]
        /\ \A d \in Clients, f \in Ids :
              pump'[d][f].sock = pump[d][f].sock /\ pump'[d][f].state = pump[d][f].state
    <2>1. CASE UNCHANGED pump  BY <1>0, <2>1 DEF Types
    <2>2. CASE id # 0 /\ pump[c][id].out < SockCap /\ pump' = [pump EXCEPT ![c][id].out = @ + 1]
      <3>1. id \in Ids  BY <2>2
      <3>2. pump[c][id] \in PumpType  BY <1>0, <3>1 DEF Types, PumpTable
      <3>3. PICK n \in 0 .. SockCap : n = pump[c][id].out + 1
        <4>1. PICK n \in 0 .. SockCap : n = pump[c][id].out  BY <3>2 DEF PumpType
        <4>2. n < SockCap  BY <2>2, <4>1
        <4>3. n + 1 \in 0 .. SockCap  BY <4>2, Numbers
        <4>. QED  BY <4>1, <4>3
      <3>4. pump' = [pump EXCEPT ![c][id].out = n]  BY <2>2, <3>3
      <3>5. PICK x : x = [pump[c][id] EXCEPT !.out = n]  OBVIOUS
      <3>6. x \in PumpType /\ x.state = pump[c][id].state /\ x.sock = pump[c][id].sock
        BY <3>2, <3>5 DEF PumpType
      <3>7. Changed(pump, pump', c, id, x)  BY <3>4, <3>5 DEF Changed
      <3>8. pump' \in PumpTable /\ Only(pump, pump', c, id) /\ pump'[c][id] = x
        BY <1>0, <3>1, <3>6, <3>7, PumpEntry DEF Types
      <3>. QED  BY <3>6, <3>8 DEF Only
    <2>. QED  BY <1>6, <2>1, <2>2
  <1>10. Types'  BY <1>0, <1>2, <1>6, <1>7, <1>8, <1>9 DEF Types, client
  <1>11. Registered'  BY <1>0, <1>7, <1>9, RegisteredStays
  <1>12. Streams'
    <2>1. ASSUME NEW d \in Clients, d # c  PROVE View(d)' = View(d) /\ broken'[d] = broken[d]
      BY <1>2, <1>6, <1>7, <1>8, <1>9, <2>1 DEF View, client
    <2>2. ASSUME c \notin Udp, ~broken'[c]  PROVE StreamInv(View(c))'
      <3>1. PICK u \in ViewType : Remains(u, c, r)  BY <1>1, <2>2, StreamTaken
      <3>2. PICK w : w = View(c)'  OBVIOUS
      <3>3. /\ StreamInv(u)
            /\ u.owner = c /\ u.way = up'[c] \o req'[c] /\ u.down = down[c] /\ u.calls = calls[c]
            /\ u.held = held[c] /\ u.session = "live" /\ u.asked = asked[c] /\ u.granted = 0
            /\ u.open = open[c] /\ u.pump = pump[c]
        BY <3>1 DEF Remains
      <3>4. /\ w \in ViewType
            /\ w.owner = c /\ w.way = up'[c] \o req'[c] /\ w.down = down'[c]
            /\ w.calls = calls'[c] /\ w.held = held'[c] /\ w.session = session'[c]
            /\ w.asked = asked'[c] /\ w.granted = granted'[c] /\ w.open = open'[c]
            /\ w.pump = pump'[c]
        BY <1>10, <3>2, ViewPrimed
      <3>5. SameQueues(u, w)  BY <1>6, <1>7, <3>3, <3>4 DEF SameQueues, client
      <3>6. /\ w.session = u.session /\ w.asked = u.asked /\ w.granted = u.granted /\ w.open = u.open
        BY <1>2, <1>6, <1>7, <1>8, <3>3, <3>4
      <3>7. Fades(u, w)  BY <1>9, <3>3, <3>4 DEF Fades
      <3>8. StreamInv(w)  BY <3>3, <3>4, <3>5, <3>6, <3>7, PumpsFade
      <3>. QED  BY <3>2, <3>8
    <2>. QED  BY <1>0, <2>1, <2>2, OthersSame
  <1>13. OwnTraffic'
    <2>1. ASSUME c \notin Udp  PROVE r.from = id
      <3>1. PICK u \in ViewType : Remains(u, c, r)  BY <1>1, <2>1, StreamTaken
      <3>. QED  BY <1>3, <1>4, <1>5, <3>1 DEF Remains
    <2>2. ASSUME NEW pair \in got' \cup carried', pair[1][1] \notin Udp  PROVE pair[1] = pair[2]
      <3>1. CASE pair \in got \cup carried  BY <1>0, <2>2, <3>1 DEF OwnTraffic
      <3>2. CASE pair = <<<<c, r.from>>, <<c, id>>>>
        <4>1. c \notin Udp  BY <2>2, <3>2
        <4>. QED  BY <2>1, <3>2, <4>1
      <3>. QED  BY <1>6, <1>7, <2>2, <3>1, <3>2
    <2>. QED  BY <2>2 DEF OwnTraffic
  <1>. QED  BY <1>2, <1>8, <1>10, <1>11, <1>12, <1>13 DEF IInv

LEMMA KeptByHandle ==
    ASSUME IInv, NEW c \in Clients, Handle(c)
    PROVE  IInv'
  <1>1. PICK i \in Arrivals(c, up[c]) :
           /\ up' = [up EXCEPT ![c] = RemoveAt(@, i)]
           /\ \/ HandleOpen(c, up[c][i])
              \/ HandleClose(c, up[c][i])
              \/ HandleSend(c, up[c][i])
              \/ HandleQuery(c, up[c][i])
    BY DEF Handle
  <1>2. Takes(c, i)  BY <1>1 DEF Takes, Handle
  <1>. QED
    BY <1>1, <1>2, KeptByHandleOpen, KeptByHandleClose, KeptByHandleSend, KeptByHandleQuery

-----------------------------------------------------------------------------
(* The theorems *)

LEMMA InitRight ==
    ASSUME Init
    PROVE  IInv
  <1>1. Types
    <2>1. calls \in CallTable
      <3>1. Unused \in CallType  BY DEF Unused, CallType, Dyn
      <3>. QED  BY <3>1 DEF Init, CallTable
    <2>2. pump \in PumpTable
      <3>1. NoPump \in PumpType  BY Numbers DEF NoPump, PumpType
      <3>. QED  BY <3>1 DEF Init, PumpTable
    <2>3. sockets \in OpenTable /\ open \in OpenTable  BY DEF Init, OpenTable
    <2>4. /\ req \in [Clients -> Seq(RequestType)] /\ up \in [Clients -> Seq(RequestType)]
          /\ down \in [Clients -> Seq(MessageType)] /\ cmds \in Seq(CommandType)
      BY DEF Init
    <2>5. (\A c \in Clients : Len(req[c]) <= ReqCap) /\ Len(cmds) <= CmdCap
      BY Numbers DEF Init
    <2>6. /\ pending \in [Clients -> SUBSET (Ids \cup {Ping})] /\ held \in [Clients -> SUBSET Ids]
          /\ broken \in [Clients -> BOOLEAN]
          /\ session \in [Clients -> {"none", "live", "opening"}] /\ asked \in [Clients -> Ids \cup {0}]
          /\ granted \in [Clients -> Socks \cup {0, InUse}] /\ ddp \in [Socks -> Owner]
      BY DEF Init, Owner
    <2>. QED  BY <2>1, <2>2, <2>3, <2>4, <2>5, <2>6 DEF Types
  <1>2. Commands
    <2>1. cmds = <<>> /\ \A c \in Clients : session[c] # "opening" /\ granted[c] = 0  BY DEF Init
    <2>. QED  BY <2>1 DEF Commands
  <1>3. \A c \in Clients, id \in Ids : pump[c][id].state = "none" /\ pump[c][id].sock = 0
    BY DEF Init, NoPump
  <1>4. Registered  BY <1>3 DEF Registered, Filed
  <1>5. ClientSide  BY DEF Init, ClientSide, Handles
  <1>6. ASSUME NEW c \in Clients \ Udp  PROVE StreamInv(View(c))
    <2>1. PICK v : v = View(c)  OBVIOUS
    <2>2. /\ v.owner = c /\ v.way = up[c] \o req[c] /\ v.down = down[c]
          /\ v.calls = calls[c] /\ v.held = held[c] /\ v.session = session[c]
          /\ v.asked = asked[c] /\ v.granted = granted[c] /\ v.open = open[c]
          /\ v.pump = pump[c]
      BY <1>1, <2>1, ViewIs
    <2>3. /\ v.way = <<>> /\ v.down = <<>> /\ v.session = "live" /\ v.held = {}
          /\ \A id \in Ids : v.calls[id].state = "unused" /\ v.pump[id].state = "none"
          /\ \A s \in Socks : v.open[s] = 0
      BY <1>3, <2>2 DEF Init, Unused
    <2>4. \A id \in Ids : RepliesTo(v, id) = {}  BY <2>3 DEF RepliesTo
    <2>5. OnePlace(v) /\ Opening(v) /\ Opens(v) /\ Sent(v) /\ Ordered(v)
      BY <2>3, <2>4 DEF OnePlace, Opening, Opens, Sent, Ordered
    <2>6. Claimed(v)  BY <2>3, <2>4 DEF Claimed, Claims, Told
    <2>. QED  BY <2>1, <2>5, <2>6 DEF StreamInv
  <1>7. Streams  BY <1>6 DEF Streams
  <1>8. OwnTraffic  BY DEF Init, OwnTraffic
  <1>. QED  BY <1>1, <1>2, <1>4, <1>5, <1>7, <1>8 DEF IInv

LEMMA Stutters ==
    ASSUME IInv, UNCHANGED vars
    PROVE  IInv'
  <1>0. Types /\ ClientSide  BY DEF IInv
  <1>1. UNCHANGED <<client, line, daemon, actor, got, carried>>  BY DEF vars
  <1>2. Types'  BY <1>0, <1>1 DEF Types, client, line, daemon, actor
  <1>3. ClientSide'  BY <1>0, <1>1, ClientsSame DEF line
  <1>. QED  BY <1>1, <1>2, <1>3, QuietStep DEF client

LEMMA StepKeeps ==
    ASSUME IInv, [Next]_vars
    PROVE  IInv'
  <1>1. CASE Ddp  BY <1>1, KeptByDdp
  <1>2. CASE \E s \in Socks : Receive(s)  BY <1>2, KeptByReceive
  <1>3. ASSUME NEW c \in Clients, Tasks(c)  PROVE IInv'
    <2>1. CASE Write(c) \/ WriterStops(c) \/ Read(c) \/ ReaderStops(c) \/ FailPending(c)
      BY <2>1, KeptByWrite, KeptByWriterStops, KeptByRead, KeptByReaderStops, KeptByFailPending
    <2>2. CASE Handle(c) \/ Opened(c)  BY <2>2, KeptByHandle, KeptByOpened
    <2>3. CASE SessionEnds(c) \/ Expire(c)
      <3>1. session[c] = "live" /\ Drop(c)  BY <2>3 DEF SessionEnds, Expire
      <3>. QED  BY <3>1, KeptByDrop
    <2>4. CASE \E id \in Ids : SendRequest(c, id) \/ CallFails(c, id) \/ CallReturns(c, id)
      BY <2>4, KeptBySendRequest, KeptByCallFails, KeptByCallReturns
    <2>5. CASE \E id \in Ids : \/ Forward(c, id) \/ PumpStops(c, id)
                               \/ Dropped(c, id) \/ SendOut(c, id)
      BY <2>5, KeptByForward, KeptByPumpStops, KeptByDropped, KeptBySendOut
    <2>. QED  BY <1>3, <2>1, <2>2, <2>3, <2>4, <2>5 DEF Tasks
  <1>4. ASSUME NEW c \in Clients, Programs(c)  PROVE IInv'
    <2>1. CASE \E want \in Wants[c] : Call(c, "Open", want)
      <3>1. Wants[c] \subseteq Socks \cup {Dyn}  BY DaemonAssumption, Numbers
      <3>. QED  BY <2>1, <3>1, KeptByCall
    <2>2. CASE Call(c, "Query", Dyn)  BY <2>2, KeptByCall
    <2>3. CASE \E id \in Ids : DropSocket(c, id) \/ SendDatagram(c, id)
      BY <2>3, KeptByDropSocket, KeptBySendDatagram
    <2>4. CASE Shutdown(c) \/ KeepAlive(c) \/ Cut(c)
      BY <2>4, KeptByReaderStops, KeptByKeepAlive, KeptByCut
    <2>. QED  BY <1>4, <2>1, <2>2, <2>3, <2>4 DEF Programs
  <1>5. CASE UNCHANGED vars  BY <1>5, Stutters
  <1>. QED  BY <1>1, <1>2, <1>3, <1>4, <1>5 DEF Next

LEMMA Inductive == Spec => []IInv
  <1>1. Init => IInv  BY InitRight
  <1>2. IInv /\ [Next]_vars => IInv'  BY StepKeeps
  <1>. QED  BY <1>1, <1>2, PTL DEF Spec

\* The tables and queues keep their shapes and their bounds: no channel holds more than its
\* capacity, and every entry of a table is one that its user can interpret.
THEOREM TypesRight == Spec => []TypeOK
  <1>1. IInv => TypeOK  BY TypesAre DEF IInv
  <1>. QED  BY <1>1, Inductive, PTL

\* The DDP actor's table has, under the number of a socket whose inbound pump still runs, that
\* socket: a late Deregister, the reaping in new_sock and the removal of a dead sender in
\* handle_packet never take a live owner out, and new_sock never overwrites one.
THEOREM LiveRegistered == Spec => []LiveIsRegistered
  <1>1. IInv => LiveIsRegistered  BY DEF IInv, Registered, Filed, LiveIsRegistered
  <1>. QED  BY <1>1, Inductive, PTL

\* On a stream, dispatch() hands a datagram only to the handle of the socket it was accepted
\* for, and send_datagram sends what was written to a handle only through its own socket, however
\* often the number changes hands.
THEOREM TrafficIsOwn == Spec => []OwnTraffic
  <1>1. IInv => OwnTraffic  BY DEF IInv
  <1>. QED  BY <1>1, Inductive, PTL
=============================================================================
