----------------------------- MODULE LocalTalk -----------------------------
(***************************************************************************)
(* A LocalTalk cable with a desktop host on a TashTalk adapter, an embedded  *)
(* node and a router: how the two get their node numbers, how the adapter    *)
(* follows the host's, and NBP lookups and AEP echoes from the host.         *)
(*                                                                           *)
(* The cable carries one frame at a time, so sending and hearing a frame is  *)
(* one step.  The router, the adapter's engine and the cable are external.   *)
(* A frame names the call it belongs to (of), which no handler looks at.     *)
(***************************************************************************)
EXTENDS RouteTable, FiniteSets

CONSTANTS Nodes,       \* node numbers to draw from
          Net,         \* the cable's network number, known to the router
          RouterNode,
          DefaultProbes, \* Acquisition::DEFAULT_PROBES
          OutCap,      \* frames the outbound channel holds
          SockCap,     \* datagrams the sockets of NBP and AEP hold
          TidMod,      \* 256, the values of next_tid
          MaxCalls,    \* bound on lookups and echoes
          MaxEvents    \* bound on broadcasts, losses, an expired router, unplugging, set addresses and names

ASSUME LocalTalkNodes == 255 \notin Nodes /\ RouterNode \notin Nodes \cup {255} /\ 0 \notin Nodes
ASSUME LocalTalkBounds ==
    /\ {Net, DefaultProbes, OutCap, SockCap, TidMod} \subseteq Nat \ {0}
    /\ {MaxCalls, MaxEvents} \subseteq Nat

VARIABLES m,       \* the embedded node: candidate, probes sent, node (0: none), network, router, outbox
          d,       \* the host: node and network, whether settled, what it knows of the router
          tash,    \* the adapter's task, the node it is programmed with, an address change not seen yet
          up,      \* the outbound loop has seen the adapter ready
          outq,    \* frames for the outbound loop
          enq,     \* the number of an enquiry the addressing actor has not looked at (0: none)
          inq,     \* datagrams of NBP and AEP
          fwd,     \* lookups the router forwards
          names,   \* the nodes with a registered name
          tid, pending, echoes,   \* next_tid, pending_lookups, pending echo requests
          calls,
          events,
          forced,    \* history: the host took a number the other node held or was probing
          unheard,   \* history: enquiries for the host's number that it did not answer, in this burst
          swallowed, \* history: an address change was marked as seen and not programmed
          spoilt,    \* history: calls with a reason not to be answered
          crossed    \* history: calls credited with an answer to another

ids  == 1..MaxCalls
node == <<m, d, tash, names, forced, unheard, swallowed>>
net  == <<up, outq, enq, inq, fwd>>
acts == <<tid, pending, echoes, calls, spoilt, crossed>>
vars == <<node, net, acts, events>>

NoCall == 0
Idle == [kind |-> "none", st |-> "idle", to |-> <<0, 0>>, data |-> 0, expects |-> {}, found |-> {}]

Init ==
    /\ m \in [cand : Nodes, probes : {0}, node : {0}, net : {0}, routed : {FALSE}, out : {<<>>}]
    /\ d = [node |-> CHOOSE n \in Nodes : TRUE, net |-> 0, settled |-> FALSE, heard |-> "no"]   \* drawn at random: one is as good as another
    /\ tash = [st |-> "closed", bits |-> 0, fresh |-> FALSE]
    /\ up = FALSE
    /\ outq = <<[kind |-> "enq", dst |-> d.node, src |-> d.node]>>
    /\ enq = 0 /\ inq = <<>> /\ fwd = {}
    /\ names = {"m", "d"}
    /\ tid = 0 /\ pending = [t \in 0..TidMod-1 |-> NoCall] /\ echoes = <<>>
    /\ calls = [i \in ids |-> Idle]
    /\ events = 0 /\ forced = FALSE /\ unheard = 0 /\ swallowed = FALSE /\ spoilt = {} /\ crossed = {}

Spend == events < MaxEvents /\ events' = events + 1
Active == {i \in ids : calls[i].st \in {"called", "pending"}}
Spoil == spoilt' = spoilt \cup Active

-----------------------------------------------------------------------------
(* What a node makes of a frame. *)

Ddp(dst, src, network, body) == [kind |-> "ddp", dst |-> dst, src |-> src, net |-> network, body |-> body]

\* The embedded node sends short headers, which have no network number, until it has heard a router.
SendDdp(n, to, body) ==
    IF to[2] = n.node THEN n
    ELSE [n EXCEPT !.out = Append(@, Ddp(to[2], n.node, IF n.routed THEN n.net ELSE 0, body))]

\* Its names are in zone "*", and a lookup that names the zone does not match them.
NbpHandlePacket(n, b) ==
    IF "m" \in names /\ b.zone = "*"
    THEN SendDdp(n, b.at, [op |-> "reply", of |-> b.of, tid |-> b.tid, at |-> <<n.net, n.node>>, who |-> "m"]) ELSE n

AepRespond(n, f) == SendDdp(n, <<f.net, f.src>>, [op |-> "echoed", of |-> f.body.of, data |-> f.body.data])

Dispatch(n, f) ==
    IF f.dst \notin {255, n.node} THEN n
    ELSE IF f.body.op = "lkup" THEN NbpHandlePacket(n, f.body)
    ELSE IF f.body.op = "echo" THEN AepRespond(n, f) ELSE n

OnAck(n, src) ==
    IF n.node = 0 /\ n.cand = src THEN {[n EXCEPT !.cand = c, !.probes = 0] : c \in Nodes \ {src}} ELSE {n}

\* Stack::handle_frame; its own engine answers enquiries for it.
HandleFrame(n, f) ==
    IF f.kind = "ack" THEN OnAck(n, f.src)
    ELSE IF f.kind = "ddp" /\ n.node # 0 /\ f.src # n.node THEN {Dispatch(n, f)} ELSE {n}

\* The host: the adapter takes what is for its node bits, DDP what is for the address.
Heard(f) == tash.st = "online" /\ f.dst \in {255, tash.bits} /\ f.dst \in {255, d.node}
Received(q, f) == IF Heard(f) /\ Len(q) < SockCap THEN Append(q, f) ELSE q
Overrun(f) == Heard(f) /\ Len(inq) >= SockCap

-----------------------------------------------------------------------------
(* The embedded node: probing, and its runner. *)

PollEager ==
    /\ m.node = 0
    /\ IF m.probes < DefaultProbes - 1
       THEN LET heard == tash.st = "online" /\ tash.bits = m.cand IN
            \/ /\ m' \in OnAck([m EXCEPT !.probes = @ + 1], IF heard THEN m.cand ELSE 0)
               /\ enq' = IF heard THEN m.cand ELSE enq
               /\ unheard' = IF heard \/ m.cand # d.node THEN 0 ELSE unheard + 1
               /\ UNCHANGED events
            \/ /\ heard /\ Spend
               /\ m' = [m EXCEPT !.probes = @ + 1]
               /\ unheard' = IF m.cand # d.node THEN 0 ELSE unheard + 1
               /\ UNCHANGED enq
       ELSE /\ m' = [m EXCEPT !.node = m.cand, !.probes = 0]
            /\ unheard' = IF m.cand = d.node THEN unheard ELSE 0
            /\ UNCHANGED <<enq, events>>
    /\ UNCHANGED <<d, tash, names, forced, swallowed, up, outq, inq, fwd, acts>>

\* Enquiries, each answered by the engine of the adapter if it holds the number, or lost; when the
\* whole burst was not answered the number is claimed.
Poll ==
    /\ m.node = 0
    /\ IF m.probes < DefaultProbes
       THEN LET heard == tash.st = "online" /\ tash.bits = m.cand IN
            \/ /\ m' \in OnAck([m EXCEPT !.probes = @ + 1], IF heard THEN m.cand ELSE 0)
               /\ enq' = IF heard THEN m.cand ELSE enq
               /\ unheard' = IF heard \/ m.cand # d.node THEN 0 ELSE unheard + 1
               /\ UNCHANGED events
            \/ /\ heard /\ Spend
               /\ m' = [m EXCEPT !.probes = @ + 1]
               /\ unheard' = IF m.cand # d.node THEN 0 ELSE unheard + 1
               /\ UNCHANGED enq
       ELSE /\ m' = [m EXCEPT !.node = m.cand, !.probes = 0]
            /\ unheard' = IF m.cand = d.node THEN unheard ELSE 0
            /\ UNCHANGED <<enq, events>>
    /\ UNCHANGED <<d, tash, names, forced, swallowed, up, outq, inq, fwd, acts>>

\* The runner puts the next frame of the outbox on the cable.
Transmit ==
    /\ m.out # <<>>
    /\ m' = [m EXCEPT !.out = Tail(@)]
    /\ \/ /\ inq' = Received(inq, Head(m.out))
          /\ IF Overrun(Head(m.out)) \/ ~Heard(Head(m.out)) THEN Spoil ELSE UNCHANGED spoilt
          /\ UNCHANGED events
       \/ Spend /\ Spoil /\ UNCHANGED inq
    /\ UNCHANGED <<d, tash, names, forced, unheard, swallowed, up, outq, enq, fwd, tid, pending, echoes, calls, crossed>>

-----------------------------------------------------------------------------
(* The host: its address and its adapter. *)

\* The address is settled 10 ms after the enquiry was queued.  The adapter's task waits for it
\* before it lets the outbound loop start, so no answer can have come.
Confirm ==
    /\ ~d.settled
    /\ d' = [d EXCEPT !.settled = TRUE]
    /\ tash' = [tash EXCEPT !.fresh = TRUE]
    /\ forced' = (d.node \in {m.node, m.cand})
    /\ UNCHANGED <<m, names, unheard, swallowed, net, acts, events>>

\* A client of the daemon sets the address, without a probe.
SetAddr ==
    /\ d.settled /\ Spend
    /\ \E n \in Nodes \ {d.node} :
        /\ d' = [d EXCEPT !.node = n]
        /\ forced' = (n \in {m.node, m.cand})
    /\ tash' = [tash EXCEPT !.fresh = TRUE]
    /\ unheard' = 0
    /\ Spoil
    /\ UNCHANGED <<m, names, swallowed, net, tid, pending, echoes, calls, crossed>>

OpenSerial ==
    /\ tash.st = "closed"
    /\ tash' = [tash EXCEPT !.st = "opened"]
    /\ UNCHANGED <<m, d, names, forced, unheard, swallowed, net, acts, events>>

\* reset, set_features, then the node bits of the address the actor returns.
SetNodeIds ==
    /\ tash.st = "opened" /\ d.settled
    /\ tash' = [tash EXCEPT !.st = "programmed", !.bits = d.node]
    /\ UNCHANGED <<m, d, names, forced, unheard, swallowed, net, acts, events>>

\* Changes so far are marked as seen, and the outbound loop may send.
Online ==
    /\ tash.st = "programmed"
    /\ tash' = [tash EXCEPT !.st = "online", !.fresh = FALSE]
    /\ swallowed' = (tash.bits # d.node)
    /\ up' = TRUE
    /\ UNCHANGED <<m, d, names, forced, unheard, outq, enq, inq, fwd, acts, events>>

AddrChangedBusy ==
    /\ tash.st = "online" /\ tash.fresh
    /\ tash' = [tash EXCEPT !.bits = IF outq = <<>> THEN d.node ELSE @, !.fresh = FALSE]
    /\ UNCHANGED <<m, d, names, forced, unheard, swallowed, net, acts, events>>

AddrChanged ==
    /\ tash.st = "online" /\ tash.fresh
    /\ tash' = [tash EXCEPT !.bits = d.node, !.fresh = FALSE]
    /\ swallowed' = FALSE
    /\ UNCHANGED <<m, d, names, forced, unheard, net, acts, events>>

Unplug ==
    /\ tash.st # "closed" /\ Spend
    /\ tash' = [tash EXCEPT !.st = "closed", !.bits = 0]
    /\ swallowed' = FALSE
    /\ Spoil
    /\ UNCHANGED <<m, d, names, forced, unheard, net, tid, pending, echoes, calls, crossed>>

\* The actor answers an enquiry for its address too.
AnswerEnq ==
    /\ enq # 0 /\ enq' = 0
    /\ IF enq # d.node THEN UNCHANGED outq
       ELSE Len(outq) < OutCap /\ outq' = Append(outq, [kind |-> "ack", dst |-> enq, src |-> enq])
    /\ UNCHANGED <<node, up, inq, fwd, acts, events>>

\* The outbound loop: a frame is dropped while the adapter is away.  The router takes a request
\* addressed to it and forwards the lookup.
Outbound ==
    /\ up /\ outq # <<>>
    /\ outq' = Tail(outq)
    /\ LET f == Head(outq) IN
       \/ /\ tash.st = "online"
          /\ m' \in HandleFrame(m, f)
          /\ unheard' = IF m'.cand = m.cand THEN unheard ELSE 0
          /\ fwd' = IF f.dst = RouterNode THEN fwd \cup {f.body} ELSE fwd
          /\ UNCHANGED <<spoilt, events>>
       \/ tash.st = "online" /\ f.kind = "ddp" /\ Spend /\ Spoil /\ UNCHANGED <<m, unheard, fwd>>
       \/ tash.st # "online" /\ Spoil /\ UNCHANGED <<m, unheard, fwd, events>>
    /\ UNCHANGED <<d, tash, names, forced, swallowed, up, enq, inq, tid, pending, echoes, calls, crossed>>

-----------------------------------------------------------------------------
(* The router. *)

\* An RTMP broadcast, which either node may miss; the host takes the network number on.
Broadcast ==
    /\ Spend /\ Spoil
    /\ \E by \in SUBSET {"m", "d"} \ {{}} :
        /\ m' = IF "m" \in by /\ m.node # 0 THEN [m EXCEPT !.routed = TRUE, !.net = Net] ELSE m
        /\ LET hears == "d" \in by /\ tash.st = "online" IN
           /\ d' = IF hears THEN [d EXCEPT !.net = Net, !.heard = "live"] ELSE d
           /\ tash' = IF hears /\ d.net # Net THEN [tash EXCEPT !.fresh = TRUE] ELSE tash
    /\ UNCHANGED <<names, forced, unheard, swallowed, net, tid, pending, echoes, calls, crossed>>

\* Its time to live is over, between calls.
ExpireRouter ==
    /\ d.heard = "live" /\ Active = {} /\ Spend
    /\ d' = [d EXCEPT !.heard = "expired"]
    /\ UNCHANGED <<m, tash, names, forced, unheard, swallowed, net, acts>>

\* The forwarded lookup names the zone.
Forward(b) ==
    LET f == Ddp(255, RouterNode, Net, [b EXCEPT !.op = "lkup", !.zone = "z"]) IN
    /\ b \in fwd /\ fwd' = fwd \ {b}
    /\ m' \in HandleFrame(m, f)
    /\ inq' = Received(inq, f)
    /\ IF Overrun(f) \/ ~Heard(f) THEN Spoil ELSE UNCHANGED spoilt
    /\ UNCHANGED <<d, tash, names, forced, unheard, swallowed, up, outq, enq, tid, pending, echoes, calls, crossed, events>>

-----------------------------------------------------------------------------
(* The host: NBP, AEP and DDP. *)

\* The host's routing table: the router it heard on its one cable.
Table ==
    IF d.heard = "no" THEN EmptyTable
    ELSE [NoteRouter(SetLocal(EmptyTable, "LT", <<Net, Net>>), <<Net, RouterNode>>, "LT") EXCEPT !.router.ttl = d.heard]

\* The link address of a destination: a router's for a network that is not the cable's.
NextHop(to) ==
    LET via == {h.hop : h \in RouteFor(Table, to[1])} \ {NoRouter} IN
    IF to[1] = 0 \/ via = {} THEN to[2] ELSE (CHOOSE h \in via : TRUE)[2]

\* send_ddp_to_node: the short header while no router is known.
Frame(to, body) == Ddp(NextHop(to), d.node, IF HasRouter(Table) THEN d.net ELSE 0, body)

ToSelfNever(to) == FALSE

ToSelf(to) == to[2] = d.node /\ to[1] \in {0, d.net}

\* handle_outbound: to the cable, or straight to a socket of the host.
HandleOutbound(q, to, body) ==
    IF ToSelf(to)
    THEN /\ inq' = IF Len(q) < SockCap THEN Append(q, Ddp(to[2], d.node, d.net, body)) ELSE q
         /\ UNCHANGED outq
    ELSE /\ Len(outq) < OutCap
         /\ outq' = Append(outq, Frame(to, body))
         /\ inq' = q

Fit == tash.st = "online" /\ ~tash.fresh /\ m.node # 0 /\ tash.bits = d.node /\ m.node # d.node

\* The programs make their calls one after the other, once the stack is assembled.
Fresh(i) == d.settled /\ calls[i].st = "idle" /\ \A j \in ids : j < i => calls[j].st # "idle"

CallLookup(i) ==
    /\ Fresh(i)
    /\ calls' = [calls EXCEPT ![i] = [Idle EXCEPT !.kind = "lookup", !.st = "called"]]
    /\ UNCHANGED <<node, net, tid, pending, echoes, spoilt, crossed, events>>

\* An echo to the other node, at an address found earlier; its data is another's or its own.
CallEcho(i) ==
    /\ Fresh(i)
    /\ m.node # 0 /\ up
    /\ \E p \in 1..i :
        calls' = [calls EXCEPT ![i] = [Idle EXCEPT !.kind = "echo", !.st = "called", !.to = <<m.net, m.node>>, !.data = p]]
    /\ UNCHANGED <<node, net, tid, pending, echoes, spoilt, crossed, events>>

NextTid == tid' = (tid + 1) % TidMod

\* A request to a router if one is known, else a broadcast.  A lookup whose number is in use takes
\* the place of the one that has it, whose caller gets an error.
HandleLookup(i) ==
    /\ calls[i].kind = "lookup" /\ calls[i].st = "called"
    /\ NextTid
    /\ LET routers == NbpDispatch(Table, "*")
           body == [op |-> IF routers = {} THEN "lkup" ELSE "brrq", of |-> i, tid |-> tid, at |-> <<d.net, d.node>>, zone |-> "*"]
       IN  /\ Len(outq) < OutCap
           /\ \/ routers = {} /\ outq' = Append(outq, [Frame(<<0, 0>>, body) EXCEPT !.dst = 255])
              \/ \E r \in routers : outq' = Append(outq, Frame(r, body))
           /\ calls' = [j \in ids |->
                CASE j = i -> [calls[i] EXCEPT !.st = "pending", !.expects = names \cap (IF routers = {} THEN {"m"} ELSE {"d"})]
                  [] j # i /\ j = pending[tid] -> [calls[j] EXCEPT !.st = "failed", !.found = {}]
                  [] OTHER -> calls[j]]
    /\ pending' = [pending EXCEPT ![tid] = i]
    /\ spoilt' = IF Fit THEN spoilt ELSE spoilt \cup {i}
    /\ UNCHANGED <<node, up, enq, inq, fwd, echoes, crossed, events>>

SendEcho(i) ==
    /\ calls[i].kind = "echo" /\ calls[i].st = "called"
    /\ HandleOutbound(inq, calls[i].to, [op |-> "echo", of |-> i, data |-> calls[i].data])
    /\ echoes' = Append(echoes, i)
    /\ calls' = [calls EXCEPT ![i].st = "pending", ![i].expects = {"m"}]
    /\ spoilt' = IF Fit /\ calls[i].to = <<m.net, m.node>> THEN spoilt ELSE spoilt \cup {i}
    /\ UNCHANGED <<node, up, enq, fwd, tid, pending, crossed, events>>

\* A reply is told by its transaction number only.
HandleReply ==
    /\ inq # <<>> /\ Head(inq).body.op = "reply"
    /\ inq' = Tail(inq)
    /\ LET b == Head(inq).body
           i == pending[b.tid] IN
       IF i = NoCall THEN UNCHANGED <<calls, crossed>>
       ELSE /\ calls' = [calls EXCEPT ![i].found = @ \cup {[at |-> b.at, who |-> b.who]}]
            /\ crossed' = IF b.of = i THEN crossed ELSE crossed \cup {i}
    /\ UNCHANGED <<node, up, outq, enq, fwd, tid, pending, echoes, spoilt, events>>

\* A lookup from the cable is answered at the address its tuple gives, which may be the host's own.
HandleLkUp ==
    /\ inq # <<>> /\ Head(inq).body.op = "lkup"
    /\ LET b == Head(inq).body IN
       IF "d" \in names
       THEN HandleOutbound(Tail(inq), b.at, [op |-> "reply", of |-> b.of, tid |-> b.tid, at |-> <<d.net, d.node>>, who |-> "d"])
       ELSE inq' = Tail(inq) /\ UNCHANGED outq
    /\ UNCHANGED <<node, up, enq, fwd, acts, events>>

\* The host answers echoes too, the only ones here being its own.
HandleEcho ==
    /\ inq # <<>> /\ Head(inq).body.op = "echo"
    /\ LET f == Head(inq) IN
       HandleOutbound(Tail(inq), <<f.net, f.src>>, [op |-> "echoed", of |-> f.body.of, data |-> f.body.data])
    /\ UNCHANGED <<node, up, enq, fwd, acts, events>>

Match(f) == {k \in DOMAIN echoes : calls[echoes[k]].to = <<f.net, f.src>> /\ calls[echoes[k]].data = f.body.data}

HandleEchoed ==
    /\ inq # <<>> /\ Head(inq).body.op = "echoed"
    /\ inq' = Tail(inq)
    /\ LET f == Head(inq)
           ks == Match(f) IN
       IF ks = {} THEN UNCHANGED <<calls, crossed, spoilt, echoes>>
       ELSE LET k == CHOOSE k \in ks : \A j \in ks : k <= j IN
            /\ calls' = [calls EXCEPT ![echoes[k]].st = "ok", ![echoes[k]].found = {[at |-> calls[echoes[k]].to, who |-> "m"]}]
            /\ crossed' = IF f.body.of = echoes[k] THEN crossed ELSE crossed \cup {echoes[k]}
            /\ spoilt' = IF f.body.of = echoes[k] THEN spoilt ELSE spoilt \cup {f.body.of}
            /\ echoes' = SubSeq(echoes, 1, k - 1) \o SubSeq(echoes, k + 1, Len(echoes))
    /\ UNCHANGED <<node, up, outq, enq, fwd, tid, pending, events>>

\* An answer of i is still on its way when its time is over.
Late(i) ==
    \/ \E s \in {outq, m.out, inq} : \E k \in DOMAIN s : s[k].kind = "ddp" /\ s[k].body.of = i
    \/ \E b \in fwd : b.of = i

CheckTimeoutsFound(i) ==
    /\ calls[i].st = "pending" /\ calls[i].found # {}
    /\ calls' = [calls EXCEPT ![i].st = IF calls[i].kind = "lookup" THEN "ok" ELSE "timeout"]
    /\ pending' = [t \in DOMAIN pending |-> IF pending[t] = i THEN NoCall ELSE pending[t]]
    /\ echoes' = SelectSeq(echoes, LAMBDA e : e # i)
    /\ spoilt' = IF Late(i) THEN spoilt \cup {i} ELSE spoilt
    /\ UNCHANGED <<node, net, tid, crossed, events>>

\* The sweeps for calls whose time is over: a lookup returns what was found.
CheckTimeouts(i) ==
    /\ calls[i].st = "pending"
    /\ calls' = [calls EXCEPT ![i].st = IF calls[i].kind = "lookup" THEN "ok" ELSE "timeout"]
    /\ pending' = [t \in DOMAIN pending |-> IF pending[t] = i THEN NoCall ELSE pending[t]]
    /\ echoes' = SelectSeq(echoes, LAMBDA e : e # i)
    /\ spoilt' = IF Late(i) THEN spoilt \cup {i} ELSE spoilt
    /\ UNCHANGED <<node, net, tid, crossed, events>>

\* A name is registered or withdrawn, before the calls.
Register(n) ==
    /\ \A i \in ids : calls[i].st = "idle"
    /\ Spend
    /\ names' = IF n \in names THEN names \ {n} ELSE names \cup {n}
    /\ UNCHANGED <<m, d, tash, forced, unheard, swallowed, net, acts>>

-----------------------------------------------------------------------------
NbpActor == HandleReply \/ HandleLkUp \/ \E i \in ids : HandleLookup(i) \/ (calls[i].kind = "lookup" /\ CheckTimeouts(i))
EchoActor == HandleEcho \/ HandleEchoed \/ \E i \in ids : SendEcho(i) \/ (calls[i].kind = "echo" /\ CheckTimeouts(i))

Next ==
    \/ Poll \/ Transmit
    \/ Confirm \/ SetAddr \/ OpenSerial \/ SetNodeIds \/ Online \/ AddrChanged \/ Unplug
    \/ AnswerEnq \/ Outbound
    \/ Broadcast \/ ExpireRouter \/ (\E b \in fwd : Forward(b))
    \/ NbpActor \/ EchoActor
    \/ \E i \in ids : CallLookup(i) \/ CallEcho(i)
    \/ \E n \in {"m", "d"} : Register(n)

Spec == Init /\ [][Next]_vars

\* The actors and the outbound loop run.
FairSpec == Spec /\ WF_vars(NbpActor) /\ WF_vars(EchoActor) /\ WF_vars(Outbound)

-----------------------------------------------------------------------------
\* The adapter listens for the host's address whenever no change of it is waiting to be programmed,
\* unless the change fell between the address being read and its being marked as seen.
NodeBits == tash.st = "online" /\ ~tash.fresh /\ ~swallowed => tash.bits = d.node

\* The embedded node settles on the host's number only when a whole burst of its enquiries went
\* unanswered, however many changes of candidate it made, or when the host took the number itself.
NodesUnique == m.node # 0 /\ m.node = d.node /\ d.settled => forced \/ unheard = DefaultProbes

\* A lookup finds the registered names that its way of asking can reach, and an echo is answered,
\* unless something happened to the cable, a node or a frame while it was under way.
Answered ==
    \A i \in ids \ spoilt :
        /\ calls[i].kind = "lookup" /\ calls[i].st = "ok" => calls[i].expects \subseteq {r.who : r \in calls[i].found}
        /\ calls[i].st # "timeout"

\* An answer is credited to the call it answers: unless two calls shared a transaction number, or
\* two echoes to a node their data (an address without its network number is another one to the actor).
OwnAnswers ==
    \A i \in crossed : \E j \in ids \ {i} :
        /\ calls[j].kind = calls[i].kind
        /\ calls[i].kind = "lookup" => TidMod < Cardinality({k \in ids : calls[k].kind = "lookup"})
        /\ calls[i].kind = "echo" => calls[i].data = calls[j].data /\ calls[i].to[2] = calls[j].to[2]

\* Together: a call that is answered gets its own answer, and all of it.
AnswersRight == Answered /\ OwnAnswers

\* Every call ends (their number is bounded), unless the adapter was never there: the outbound loop then takes nothing and
\* the full channel stops the actors.
CallsEnd == []<>(Active = {} \/ ~up)
=============================================================================
