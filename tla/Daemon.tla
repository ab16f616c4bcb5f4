------------------------------- MODULE Daemon -------------------------------
(***************************************************************************)
(* DDP sockets served to other processes: the remote client of             *)
(* tailtalk/src/remote.rs, the sessions and socket pumps of                *)
(* tailtalk-daemon/src/lib.rs, and the socket table of the DDP actor of    *)
(* tailtalk/src/ddp.rs that they all end in.                               *)
(*                                                                         *)
(* A client reaches its session over a Unix stream, or over UDP, which may *)
(* lose and reorder.  A socket is born of an OpenSocket request, and is    *)
(* named by that request wherever it goes: <<c, id>> is the handle in the  *)
(* client, the pair of pump tasks in the session, and the sender that the  *)
(* DDP actor files under the socket's number.  A datagram carries the name *)
(* of the socket it was accepted for, which no program sees: `got' and     *)
(* `carried' record where it ended up.  A client's receive queue that is   *)
(* full is a datagram that may be dropped.                                 *)
(***************************************************************************)
EXTENDS Integers, Sequences, FiniteSets, SequencesExt

CONSTANTS
    Clients,     \* processes with a connection to the daemon
    Udp,         \* those of them that speak UDP
    Socks,       \* socket numbers
    Wants,       \* Wants[c]: the numbers c asks for, Dyn for any
    MaxCalls,    \* bound: requests that want a reply, of all clients
    MaxUdpCalls, \* bound: those of one client on UDP
    MaxTraffic,  \* bound: datagrams from the network and from programs
    MaxFaults,   \* bound: UDP datagrams lost and connections ended
    ReqCap,      \* room in a client's req_tx channel (100 in the code)
    CmdCap,      \* room in the DDP actor's command channel (100)
    SockCap      \* room in a socket's receive and send queues (100)

ASSUME DaemonAssumption ==
    /\ IsFiniteSet(Clients) /\ Udp \subseteq Clients
    /\ IsFiniteSet(Socks) /\ Socks \subseteq Nat \ {0}
    /\ Wants \in [Clients -> SUBSET (Socks \cup {0})]
    /\ MaxCalls \in Nat /\ MaxUdpCalls \in Nat /\ MaxTraffic \in Nat /\ MaxFaults \in Nat
    /\ ReqCap \in Nat \ {0} /\ CmdCap \in Nat \ {0} /\ SockCap \in Nat \ {0}

VARIABLES
    \* in the client
    calls,     \* calls[c][id]: a request that waits for its reply; .late is history:
               \* it was filed when fail_pending had run
    pending,   \* pending[c]: the ids in Shared.pending
    sockets,   \* sockets[c][s]: the handle filed under s in Shared.sockets, or 0
    held,      \* held[c]: the DdpSockets the program holds
    req,       \* req[c]: req_tx
    writer,    \* writer[c]: the writer task runs, and req_rx with it
    reader,    \* reader[c]: "run", "closing" (before fail_pending), "done"
    closed,    \* closed[c]: the connection's cancellation token
    keepalive, \* keepalive[c]: udp_keepalive: "idle", "waiting" or "dead"
    \* between them
    up, down,  \* up[c], down[c]: what is on its way to the session, and back
    broken,    \* broken[c]: the stream is gone
    \* in the daemon
    session,   \* session[c]: its task: "none", "live", "opening"
    asked,     \* asked[c]: the request the session is opening a socket for
    granted,   \* granted[c]: what DDP answered: a number, InUse, or 0 for nothing yet
    open,      \* open[c][s]: Session.sockets, the id filed under s or 0
    pump,      \* pump[c][id]: the tasks and queues of one socket
    ddp,       \* ddp[s]: DdpProcessor.sockets
    cmds,      \* the DDP actor's command channel
    \* history
    got,       \* <<handle, socket>>: a datagram accepted for one reached the other
    carried,   \* <<handle, socket>>: a datagram of one went out through the other
    traffic, lost, cuts

client == <<calls, pending, sockets, held, req, writer, reader, closed, keepalive>>
line   == <<up, down, broken>>
daemon == <<session, asked, granted, open, pump>>
actor  == <<ddp, cmds>>
counts == <<traffic, lost, cuts>>
vars   == <<client, line, daemon, actor, got, carried, counts>>

Ids    == 1 .. MaxCalls
Ping   == MaxCalls + 1     \* the id of the ping on its way: there is one at a time
Dyn    == 0                \* no number asked for
InUse  == -1               \* AddrInUse
Nobody == <<>>             \* no sender filed

Unused  == [kind |-> "Open", want |-> Dyn, state |-> "unused", answer |-> 0,
            late |-> FALSE]
NoPump  == [sock |-> 0, state |-> "none", rx |-> 0, out |-> 0]

Init ==
    /\ calls = [c \in Clients |-> [id \in Ids |-> Unused]]
    /\ pending = [c \in Clients |-> {}]
    /\ sockets = [c \in Clients |-> [s \in Socks |-> 0]]
    /\ held = [c \in Clients |-> {}]
    /\ req = [c \in Clients |-> <<>>]
    /\ writer = [c \in Clients |-> TRUE] /\ reader = [c \in Clients |-> "run"]
    /\ closed = [c \in Clients |-> FALSE]
    /\ keepalive = [c \in Clients |-> IF c \in Udp THEN "idle" ELSE "dead"]
    /\ up = [c \in Clients |-> <<>>] /\ down = [c \in Clients |-> <<>>]
    /\ broken = [c \in Clients |-> FALSE]
    /\ session = [c \in Clients |-> IF c \in Udp THEN "none" ELSE "live"]
    /\ asked = [c \in Clients |-> 0] /\ granted = [c \in Clients |-> 0]
    /\ open = [c \in Clients |-> [s \in Socks |-> 0]]
    /\ pump = [c \in Clients |-> [id \in Ids |-> NoPump]]
    /\ ddp = [s \in Socks |-> Nobody] /\ cmds = <<>>
    /\ got = {} /\ carried = {}
    /\ traffic = 0 /\ lost = 0 /\ cuts = 0

Request(id, kind, s, from) == [id |-> id, kind |-> kind, sock |-> s, from |-> from]
Reply(id, answer)  == [kind |-> "Reply", id |-> id, sock |-> answer, from |-> Nobody]
Datagram(s, owner) == [kind |-> "Datagram", id |-> 0, sock |-> s, from |-> owner]
Command(kind, s, owner) == [kind |-> kind, sock |-> s, from |-> owner]

-----------------------------------------------------------------------------
(* The client's callers *)

\* request(): a new id, filed under pending before the request is sent.
Call(c, kind, want) ==
    \E id \in Ids :
        /\ Cardinality({x \in Clients \X Ids : calls[x[1]][x[2]].state # "unused"}) < MaxCalls
        /\ c \in Udp => id <= MaxUdpCalls
        /\ calls[c][id].state = "unused"
        /\ \A i \in 1 .. id - 1 : calls[c][i].state # "unused"
        /\ calls' = [calls EXCEPT ![c][id] =
                        [kind |-> kind, want |-> want, state |-> "filed", answer |-> 0,
                         late |-> reader[c] = "done"]]
        /\ pending' = [pending EXCEPT ![c] = @ \cup {id}]
        /\ UNCHANGED <<sockets, held, req, writer, reader, closed, keepalive,
                       line, daemon, actor, got, carried, counts>>

\* req_tx.send: waits for room, and fails once the writer has dropped its end.
SendRequest(c, id) ==
    /\ calls[c][id].state = "filed"
    /\ \/ /\ writer[c] /\ Len(req[c]) < ReqCap
          /\ req' = [req EXCEPT ![c] =
                        Append(@, Request(id, calls[c][id].kind, calls[c][id].want, 0))]
          /\ calls' = [calls EXCEPT ![c][id].state = "sent"]
          /\ UNCHANGED pending
       \/ /\ ~writer[c]
          /\ pending' = [pending EXCEPT ![c] = @ \ {id}]
          /\ calls' = [calls EXCEPT ![c][id].state = "failed"]
          /\ UNCHANGED req
    /\ UNCHANGED <<sockets, held, writer, reader, closed, keepalive,
                   line, daemon, actor, got, carried, counts>>

\* rx.await: the sender was dropped, by fail_pending.
CallFails(c, id) ==
    /\ calls[c][id].state = "sent" /\ id \notin pending[c]
    /\ calls' = [calls EXCEPT ![c][id].state = "failed"]
    /\ UNCHANGED <<pending, sockets, held, req, writer, reader, closed, keepalive,
                   line, daemon, actor, got, carried, counts>>

\* The caller wakes with its reply: open_socket files the handle only now.
CallReturns(c, id) ==
    LET call == calls[c][id]
        s    == call.answer
    IN  /\ call.state = "answered"
        /\ IF call.kind = "Open" /\ s \in Socks
             THEN /\ sockets' = [sockets EXCEPT ![c][s] = id]
                  /\ held' = [held EXCEPT ![c] = @ \cup {id}]
             ELSE UNCHANGED <<sockets, held>>
        /\ calls' = [calls EXCEPT ![c][id].state = IF s = InUse THEN "failed" ELSE "ended"]
        /\ UNCHANGED <<pending, req, writer, reader, closed, keepalive,
                       line, daemon, actor, got, carried, counts>>

\* DdpSocket::drop: close_socket takes the number out of the table, whoever is filed
\* under it, and CloseSocket is sent if there is room for it.
DropSocket(c, id) ==
    LET s == calls[c][id].answer
    IN  /\ id \in held[c]
        /\ held' = [held EXCEPT ![c] = @ \ {id}]
        /\ sockets' = [sockets EXCEPT ![c][s] = 0]
        /\ req' = IF writer[c] /\ Len(req[c]) < ReqCap
                  THEN [req EXCEPT ![c] = Append(@, Request(0, "Close", s, id))] ELSE req
        /\ UNCHANGED <<calls, pending, writer, reader, closed, keepalive,
                       line, daemon, actor, got, carried, counts>>

\* send_to on a remote socket: waits for room; the program keeps its handle meanwhile.
SendDatagram(c, id) ==
    /\ id \in held[c] /\ traffic < MaxTraffic
    /\ writer[c] /\ Len(req[c]) < ReqCap
    /\ req' = [req EXCEPT ![c] = Append(@, Request(0, "Send", calls[c][id].answer, id))]
    /\ traffic' = traffic + 1
    /\ UNCHANGED <<calls, pending, sockets, held, writer, reader, closed, keepalive,
                   line, daemon, actor, got, carried, lost, cuts>>

-----------------------------------------------------------------------------
(* The client's connection *)

\* The writer tasks: a request goes out.  A UDP datagram may be lost.
Write(c) ==
    /\ writer[c] /\ req[c] # <<>> /\ ~broken[c]
    /\ req' = [req EXCEPT ![c] = Tail(@)]
    /\ \/ up' = [up EXCEPT ![c] = Append(@, Head(req[c]))] /\ UNCHANGED lost
       \/ c \in Udp /\ lost + cuts < MaxFaults /\ lost' = lost + 1 /\ UNCHANGED up
    /\ UNCHANGED <<calls, pending, sockets, held, writer, reader, closed, keepalive,
                   down, broken, daemon, actor, got, carried, traffic, cuts>>

\* A write fails, or the token is cancelled: the writer cancels it and drops req_rx with
\* all that is queued.
WriterStops(c) ==
    /\ writer[c]
    /\ closed[c] \/ (broken[c] /\ req[c] # <<>>)
    /\ writer' = [writer EXCEPT ![c] = FALSE]
    /\ req' = [req EXCEPT ![c] = <<>>]
    /\ closed' = [closed EXCEPT ![c] = TRUE]
    /\ UNCHANGED <<calls, pending, sockets, held, reader, keepalive,
                   line, daemon, actor, got, carried, counts>>

\* Where the next message is: the head of a stream, any of the datagrams under way.
Arrivals(c, q) == IF c \in Udp THEN DOMAIN q ELSE {1} \cap DOMAIN q

\* dispatch() of a reply: whoever waits for that id, if anyone.
DispatchReply(c, m) ==
    /\ pending' = [pending EXCEPT ![c] = @ \ {m.id}]
    /\ IF m.id \notin pending[c] THEN UNCHANGED <<calls, keepalive>>
       ELSE IF m.id = Ping
            THEN keepalive' = [keepalive EXCEPT ![c] = "idle"] /\ UNCHANGED calls
            ELSE /\ calls' = [calls EXCEPT ![c][m.id].state = "answered",
                                           ![c][m.id].answer = m.sock]
                 /\ UNCHANGED keepalive
    /\ UNCHANGED got

\* dispatch() of a datagram: to the handle filed under the number, if its queue has room.
DispatchDatagram(c, m) ==
    /\ \/ sockets[c][m.sock] # 0 /\ got' = got \cup {<<<<c, sockets[c][m.sock]>>, m.from>>}
       \/ UNCHANGED got
    /\ UNCHANGED <<calls, pending, keepalive>>

\* The reader tasks.
Read(c) ==
    /\ reader[c] = "run" /\ ~broken[c]
    /\ \E i \in Arrivals(c, down[c]) :
        LET m == down[c][i]
        IN  /\ down' = [down EXCEPT ![c] = RemoveAt(@, i)]
            /\ \/ m.kind = "Reply" /\ DispatchReply(c, m)
               \/ m.kind = "Datagram" /\ DispatchDatagram(c, m)
    /\ UNCHANGED <<sockets, held, req, writer, reader, closed,
                   up, broken, daemon, actor, carried, counts>>

\* The daemon's end of a stream is gone, with all that could still write to it.
Ended(c) == c \notin Udp /\ session[c] = "none" /\ down[c] = <<>>
            /\ \A id \in Ids : pump[c][id].state \notin {"live", "cancelled"}

\* The stream ends, or the token is cancelled; the token comes before fail_pending.
ReaderStops(c) ==
    /\ reader[c] = "run"
    /\ closed[c] \/ broken[c] \/ Ended(c)
    /\ reader' = [reader EXCEPT ![c] = "closing"]
    /\ closed' = [closed EXCEPT ![c] = TRUE]
    /\ UNCHANGED <<calls, pending, sockets, held, req, writer, keepalive,
                   line, daemon, actor, got, carried, counts>>

\* Seeded fault: the requests in flight are left to wait.
FailSocketsOnly(c) ==
    /\ reader[c] = "closing"
    /\ reader' = [reader EXCEPT ![c] = "done"]
    /\ sockets' = [sockets EXCEPT ![c] = [s \in Socks |-> 0]]
    /\ UNCHANGED <<calls, pending, held, req, writer, closed, keepalive,
                   line, daemon, actor, got, carried, counts>>

\* fail_pending: whoever waits is failed, and every receive queue ends.
FailPending(c) ==
    /\ reader[c] = "closing"
    /\ reader' = [reader EXCEPT ![c] = "done"]
    /\ pending' = [pending EXCEPT ![c] = {}]
    /\ sockets' = [sockets EXCEPT ![c] = [s \in Socks |-> 0]]
    /\ keepalive' = [keepalive EXCEPT ![c] = IF Ping \in pending[c] THEN "dead" ELSE @]
    /\ UNCHANGED <<calls, held, req, writer, closed,
                   line, daemon, actor, got, carried, counts>>

\* shutdown(): the program stops its stack.
Shutdown(c) ==
    /\ ~closed[c] /\ lost + cuts < MaxFaults
    /\ closed' = [closed EXCEPT ![c] = TRUE]
    /\ cuts' = cuts + 1
    /\ UNCHANGED <<calls, pending, sockets, held, req, writer, reader, keepalive,
                   line, daemon, actor, got, carried, traffic, lost>>

\* udp_keepalive: a ping every 30 seconds, and the next only when it was answered.  By
\* then all that was under way has arrived.  Pings of a client without a socket are left
\* out: they keep nothing alive.
KeepAlive(c) ==
    /\ keepalive[c] = "idle" /\ ~closed[c] /\ held[c] # {}
    /\ writer[c] /\ req[c] = <<>> /\ up[c] = <<>> /\ down[c] = <<>>
    /\ keepalive' = [keepalive EXCEPT ![c] = "waiting"]
    /\ pending' = [pending EXCEPT ![c] = @ \cup {Ping}]
    /\ req' = [req EXCEPT ![c] = Append(@, Request(Ping, "Query", 0, 0))]
    /\ UNCHANGED <<calls, sockets, held, writer, reader, closed,
                   line, daemon, actor, got, carried, counts>>

\* The stream breaks.
Cut(c) ==
    /\ c \notin Udp /\ ~broken[c] /\ lost + cuts < MaxFaults
    /\ broken' = [broken EXCEPT ![c] = TRUE]
    /\ up' = [up EXCEPT ![c] = <<>>] /\ down' = [down EXCEPT ![c] = <<>>]
    /\ cuts' = cuts + 1
    /\ UNCHANGED <<client, daemon, actor, got, carried, traffic, lost>>

-----------------------------------------------------------------------------
(* The daemon's sessions *)

\* Dropping an OpenSocket cancels its pumps.
Cancelled(p) == IF p.state = "live" THEN [p EXCEPT !.state = "cancelled"] ELSE p

\* A message to the client: a UDP datagram may be lost on the way.
Answer(c, m) ==
    \/ down' = [down EXCEPT ![c] = IF broken[c] THEN @ ELSE Append(@, m)] /\ UNCHANGED lost
    \/ c \in Udp /\ lost + cuts < MaxFaults /\ lost' = lost + 1 /\ UNCHANGED down

\* open_socket, to where the session waits for the DDP actor.
HandleOpen(c, r) ==
    /\ r.kind = "Open" /\ Len(cmds) < CmdCap
    /\ cmds' = Append(cmds, Command("NewSocket", r.sock, <<c, r.id>>))
    /\ session' = [session EXCEPT ![c] = "opening"]
    /\ asked' = [asked EXCEPT ![c] = r.id]
    /\ UNCHANGED <<open, pump, carried, down, lost>>

\* CloseSocket: the socket filed under the number is dropped.
HandleClose(c, r) ==
    LET id == open[c][r.sock]
    IN  /\ r.kind = "Close"
        /\ session' = [session EXCEPT ![c] = "live"]
        /\ open' = [open EXCEPT ![c][r.sock] = 0]
        /\ pump' = IF id = 0 THEN pump ELSE [pump EXCEPT ![c][id] = Cancelled(@)]
        /\ UNCHANGED <<asked, carried, cmds, down, lost>>

\* send_datagram: to the socket's outbound pump, dropped when its queue is full.
HandleSend(c, r) ==
    LET id == open[c][r.sock]
    IN  /\ r.kind = "Send"
        /\ session' = [session EXCEPT ![c] = "live"]
        /\ IF id # 0 /\ pump[c][id].out < SockCap
             THEN /\ pump' = [pump EXCEPT ![c][id].out = @ + 1]
                  /\ carried' = carried \cup {<<<<c, r.from>>, <<c, id>>>>}
             ELSE UNCHANGED <<pump, carried>>
        /\ UNCHANGED <<asked, open, cmds, down, lost>>

\* The requests that are answered from what the daemon knows: interfaces, probes, pings.
HandleQuery(c, r) ==
    /\ r.kind = "Query"
    /\ session' = [session EXCEPT ![c] = "live"]
    /\ Answer(c, Reply(r.id, 0))
    /\ UNCHANGED <<asked, open, pump, carried, cmds>>

\* The session loops: a request is taken and handled.  The UDP server starts a session
\* for a peer it does not know.
Handle(c) ==
    /\ session[c] = "live" \/ (session[c] = "none" /\ c \in Udp)
    /\ \E i \in Arrivals(c, up[c]) :
        LET r == up[c][i]
        IN  /\ up' = [up EXCEPT ![c] = RemoveAt(@, i)]
            /\ \/ HandleOpen(c, r)
               \/ HandleClose(c, r)
               \/ HandleSend(c, r)
               \/ HandleQuery(c, r)
    /\ UNCHANGED <<client, broken, granted, ddp, got, traffic, cuts>>

\* open_socket, from where DDP has answered: the pumps start and the reply goes out.
Opened(c) ==
    LET id == asked[c]
        s  == granted[c]
    IN  /\ session[c] = "opening" /\ s # 0
        /\ session' = [session EXCEPT ![c] = "live"]
        /\ asked' = [asked EXCEPT ![c] = 0] /\ granted' = [granted EXCEPT ![c] = 0]
        /\ open' = IF s = InUse THEN open ELSE [open EXCEPT ![c][s] = id]
        /\ Answer(c, Reply(id, s))
        /\ UNCHANGED <<client, up, broken, pump, actor, got, carried, traffic, cuts>>

\* A session is dropped, and every socket it has open with it.
Drop(c) ==
    /\ session' = [session EXCEPT ![c] = "none"]
    /\ open' = [open EXCEPT ![c] = [s \in Socks |-> 0]]
    /\ pump' = [pump EXCEPT ![c] = [id \in Ids |->
                    IF \E s \in Socks : open[c][s] = id THEN Cancelled(@[id]) ELSE @[id]]]
    /\ UNCHANGED <<client, line, asked, granted, actor, got, carried, counts>>

\* run_unix_session: the client has hung up.
SessionEnds(c) ==
    /\ c \notin Udp /\ session[c] = "live"
    /\ broken[c] \/ (~writer[c] /\ up[c] = <<>>)
    /\ Drop(c)

\* Nothing more is to come from the client: the program is gone, or the task that would
\* have sent the next ping waits for the answer to one that was lost.
Silent(c) ==
    /\ up[c] = <<>> /\ req[c] = <<>>
    /\ \/ closed[c] \/ keepalive[c] = "dead"
       \/ /\ keepalive[c] = "waiting"
          /\ \A i \in DOMAIN down[c] : down[c][i].id # Ping

\* run_udp_server's sweep: five minutes without a word from the peer.
Expire(c) ==
    /\ c \in Udp /\ session[c] = "live" /\ Silent(c)
    /\ Drop(c)

-----------------------------------------------------------------------------
(* The pumps of a socket *)

\* socket_pump_inbound: the next packet goes to the client.  Cancelled, it may still
\* take one: the select is not biased.
Forward(c, id) ==
    /\ pump[c][id].state \in {"live", "cancelled"} /\ pump[c][id].rx > 0 /\ ~broken[c]
    /\ \E s \in Socks : open[c][s] = id \/ pump[c][id].state = "cancelled"
    /\ pump' = [pump EXCEPT ![c][id].rx = @ - 1]
    /\ Answer(c, Datagram(pump[c][id].sock, <<c, id>>))
    /\ UNCHANGED <<client, up, broken, session, asked, granted, open, actor, got, carried,
                   traffic, cuts>>

\* It ends, and drops its DdpSocket: drop() first sends Deregister, if there is room ...
PumpStops(c, id) ==
    /\ \/ pump[c][id].state = "cancelled"
       \/ pump[c][id].state = "live" /\ broken[c] /\ pump[c][id].rx > 0
    /\ pump' = [pump EXCEPT ![c][id].state = "dropping"]
    /\ cmds' = IF Len(cmds) < CmdCap
               THEN Append(cmds, Command("Deregister", pump[c][id].sock, Nobody)) ELSE cmds
    /\ UNCHANGED <<client, line, session, asked, granted, open, ddp, got, carried, counts>>

\* ... and only then is the receiver dropped, which closes the sender DDP has.
Dropped(c, id) ==
    /\ pump[c][id].state = "dropping"
    /\ pump' = [pump EXCEPT ![c][id].state = "gone", ![c][id].rx = 0]
    /\ UNCHANGED <<client, line, session, asked, granted, open, actor, got, carried, counts>>

\* socket_pump_outbound: the next datagram goes to DDP, or none once it is cancelled.
SendOut(c, id) ==
    /\ pump[c][id].out > 0
    /\ \/ /\ Len(cmds) < CmdCap
          /\ cmds' = Append(cmds, Command("Send", pump[c][id].sock, <<c, id>>))
          /\ pump' = [pump EXCEPT ![c][id].out = @ - 1]
       \/ /\ pump[c][id].state # "live"
          /\ pump' = [pump EXCEPT ![c][id].out = 0]
          /\ UNCHANGED cmds
    /\ UNCHANGED <<client, line, session, asked, granted, open, ddp, got, carried, counts>>

-----------------------------------------------------------------------------
(* The DDP actor *)

\* Seeded fault: a socket counts as dropped from the moment its pumps are cancelled.
ClosedEarly(s) == ddp[s] # Nobody /\ pump[ddp[s][1]][ddp[s][2]].state # "live"

\* Whether the socket filed under s has been dropped by its owner.
Closed(s) == ddp[s] # Nobody /\ pump[ddp[s][1]][ddp[s][2]].state = "gone"

\* Seeded fault: whoever is filed under the number is removed.
DeregisterAny(s) == [ddp EXCEPT ![s] = Nobody]

\* deregister: only of a socket that is dead; the number may have a new owner.
Deregister(s) == IF Closed(s) THEN [ddp EXCEPT ![s] = Nobody] ELSE ddp

\* new_sock drops the dead sockets before it looks a number up.
Reaped == [s \in Socks |-> IF Closed(s) THEN Nobody ELSE ddp[s]]

\* What new_sock may hand out: the number asked for, or one drawn, the draws being as
\* many as there are numbers and not certain to find a free one.
Offers(want) ==
    LET free == {s \in Socks : Reaped[s] = Nobody}
    IN  IF want = Dyn THEN free \cup (IF free = Socks THEN {} ELSE {InUse})
        ELSE IF want \in free THEN {want} ELSE {InUse}

NewSock(owner, want) ==
    \E s \in Offers(want) :
        LET c == owner[1] IN
        /\ granted' = [granted EXCEPT ![c] = s]
        /\ IF s = InUse
             THEN ddp' = Reaped /\ UNCHANGED pump
             ELSE /\ ddp' = [Reaped EXCEPT ![s] = owner]
                  /\ pump' = [pump EXCEPT ![c][owner[2]] =
                                [sock |-> s, state |-> "live", rx |-> 0, out |-> 0]]

\* handle_packet, from the socket on: to its queue; dropped when full; the sender of a
\* socket that is gone is removed.
HandlePacket(s) ==
    LET o == ddp[s]
    IN  /\ ddp' = IF Closed(s) THEN [ddp EXCEPT ![s] = Nobody] ELSE ddp
        /\ pump' = IF o # Nobody /\ ~Closed(s) /\ pump[o[1]][o[2]].rx < SockCap
                   THEN [pump EXCEPT ![o[1]][o[2]].rx = @ + 1] ELSE pump

\* DdpProcessor::run: the next command.
Ddp ==
    /\ cmds # <<>>
    /\ cmds' = Tail(cmds)
    /\ LET m == Head(cmds)
       IN  \/ m.kind = "NewSocket" /\ NewSock(m.from, m.sock)
           \/ m.kind = "Received" /\ HandlePacket(m.sock) /\ UNCHANGED granted
           \/ m.kind = "Deregister" /\ ddp' = Deregister(m.sock) /\ UNCHANGED <<pump, granted>>
           \/ m.kind = "Send" /\ UNCHANGED <<ddp, pump, granted>>
    /\ UNCHANGED <<client, line, session, asked, open, got, carried, counts>>

\* received_parsed_pkt: a datagram for s came in; there was room for it.
Receive(s) ==
    /\ traffic < MaxTraffic /\ Len(cmds) < CmdCap
    /\ traffic' = traffic + 1
    /\ cmds' = Append(cmds, Command("Received", s, Nobody))
    /\ UNCHANGED <<client, line, daemon, ddp, got, carried, lost, cuts>>

-----------------------------------------------------------------------------
Tasks(c) ==
    \/ Write(c) \/ WriterStops(c) \/ Read(c) \/ ReaderStops(c) \/ FailPending(c)
    \/ Handle(c) \/ Opened(c) \/ SessionEnds(c) \/ Expire(c)
    \/ \E id \in Ids : \/ SendRequest(c, id) \/ CallFails(c, id) \/ CallReturns(c, id)
                       \/ Forward(c, id) \/ PumpStops(c, id) \/ Dropped(c, id)
                       \/ SendOut(c, id)

Programs(c) ==
    \/ \E want \in Wants[c] : Call(c, "Open", want)
    \/ c \notin Udp /\ Call(c, "Query", Dyn)
    \/ \E id \in Ids : DropSocket(c, id) \/ SendDatagram(c, id)
    \/ Shutdown(c) \/ KeepAlive(c) \/ Cut(c)

Next == Ddp \/ (\E s \in Socks : Receive(s)) \/ \E c \in Clients : Tasks(c) \/ Programs(c)

Spec == Init /\ [][Next]_vars

\* The runtime polls a task that can go on.  Weak fairness of the tasks of a connection
\* taken together is enough: none of them can run for ever on its own.
Fairness == WF_vars(Ddp) /\ \A c \in Clients \ Udp : WF_vars(Tasks(c))

FairSpec == Spec /\ Fairness

-----------------------------------------------------------------------------
(* Properties *)

TypeOK ==
    /\ calls \in [Clients -> [Ids -> [kind : {"Open", "Query"}, want : Socks \cup {Dyn},
            state : {"unused", "filed", "sent", "answered", "ended", "failed"},
            answer : Socks \cup {0, InUse}, late : BOOLEAN]]]
    /\ pending \in [Clients -> SUBSET (Ids \cup {Ping})]
    /\ sockets \in [Clients -> [Socks -> Ids \cup {0}]]
    /\ held \in [Clients -> SUBSET Ids]
    /\ \A c \in Clients : Len(req[c]) <= ReqCap
    /\ session \in [Clients -> {"none", "live", "opening"}]
    /\ open \in [Clients -> [Socks -> Ids \cup {0}]]
    /\ pump \in [Clients -> [Ids -> [sock : Socks \cup {0},
            state : {"none", "live", "cancelled", "dropping", "gone"},
            rx : 0 .. SockCap, out : 0 .. SockCap]]]
    /\ ddp \in [Socks -> {Nobody} \cup (Clients \X Ids)]
    /\ Len(cmds) <= CmdCap

\* A datagram accepted for a socket is never handed to a later socket with the same
\* number, nor does one written to a socket leave through a later one: over a stream,
\* what the old socket still has under way precedes the reply that opens the new one.
OwnTraffic ==
    \A pair \in got \cup carried : pair[1][1] \notin Udp => pair[1] = pair[2]

\* A socket that its owner has not dropped is the one filed under its number, whatever
\* becomes of the requests to release that number that earlier owners left behind.
LiveIsRegistered ==
    \A c \in Clients, id \in Ids :
        pump[c][id].state \in {"live", "cancelled"} => ddp[pump[c][id].sock] = <<c, id>>

\* Over a stream a request is answered, or failed when the connection dies; the one
\* exception is a request filed after fail_pending had run, which may wait for ever.
Waiting(c, id) == calls[c][id].state \in {"filed", "sent", "answered"}
RequestsEnd ==
    \A c \in Clients \ Udp : \A id \in Ids :
        (Waiting(c, id) /\ ~calls[c][id].late) ~> ~Waiting(c, id)

=============================================================================
