-------------------------------- MODULE Pap --------------------------------
(***************************************************************************)
(* A print job over the Printer Access Protocol, end to end: the desktop   *)
(* client (tailtalk/src/pap.rs), the embedded PAP server                   *)
(* (tailtalk-core/src/pap.rs) behind the ImageWriter option card or alone, *)
(* and the port queue that writes to the printer                           *)
(* (tailtalk-net/src/printer.rs).                                          *)
(*                                                                         *)
(* The printer pulls: it keeps one SendData request with the client, which *)
(* answers with the next chunk of the job.  ATP is what the module Atp     *)
(* shows it to be: a request reaches the other side's handler at most      *)
(* once, its reply reaches the requester at most once, and a request whose *)
(* retries run out fails, before or after the other side handled it.       *)
(*                                                                         *)
(* A chunk is the data of one reply.  The port's window is exactly one     *)
(* full reply, so the sink has credit for a pull only when nothing is held.*)
(***************************************************************************)
EXTENDS Naturals, Sequences, SequencesExt, Functions, FiniteSets

CONSTANTS
    MaxConns,     \* connections, one after the other
    MaxJobs,      \* jobs a client prints over one connection
    JobLen,       \* chunks in a job
    SocketOf,     \* SocketOf[n]: the ATP socket the client of connection n gets
    RenameConns,  \* connections whose chunks read as the rename command
    MaxSeq,       \* PAP sequence numbers: 1 .. MaxSeq, 65535 in the code
    CacheLen,     \* PAP_REPLY_CACHE_LEN and READ_REPLY_CACHE_LEN
    MaxOut,       \* pieces of output the printer sends back
    MaxReads,     \* reads a client starts
    MaxFaults     \* requests that fail and sessions that time out

ASSUME PapAssumption ==
    /\ {MaxConns, MaxJobs, JobLen, CacheLen} \subseteq Nat \ {0}
    /\ MaxSeq \in Nat /\ MaxSeq > CacheLen
    /\ DOMAIN SocketOf = 1 .. MaxConns
    /\ RenameConns \subseteq 1 .. MaxConns
    /\ {MaxOut, MaxReads, MaxFaults} \subseteq Nat

VARIABLES
    role,         \* which emulation the port runs: "pap" or "imagewriter"
    client,       \* the PapClient and the task that calls it
    inbox,        \* requests in the client's AtpResponder channel
    call,         \* the client's own request: OpenConn, SendData or CloseConn
    stale,        \* requests of clients that gave up, not yet with the server
    session,      \* the server's Option<Session>
    pulls,        \* SendData requests of the server not yet with a client
    replies,      \* replies to pulls, on their way to the server
    credit,       \* does the last reported sink credit cover a full reply
    port,         \* [queue, writing, events]: PortState, an event with the
                  \* bytes still ahead of it
    ident,        \* the role's ribbon query: "due", "waiting", "settled"
    jobStart,     \* the role's job_start
    handed,       \* handed[n]: chunks read from the source over connection n
    taken,        \* taken[n]: chunks of connection n the server accepted
    sentOut,      \* sentOut[n]: output queued for connection n
    log,          \* what was written to the port and reported
    faults

clientVars == <<client, inbox, call, stale, handed>>
serverVars == <<session, pulls, credit, port, ident, jobStart, taken>>
vars == <<role, client, inbox, call, stale, session, pulls, replies, credit, port, ident, jobStart, handed, taken, sentOut, log, faults>>

Conns == 1 .. MaxConns

None == [kind |-> "none"]

(* A Session as an OpenConn of connection n from socket id makes it.       *)
Session(n, id) ==
    [n |-> n, id |-> id, seq |-> 1, pull |-> 0, bytes |-> 0, rseq |-> 1, cache |-> <<>>,
     pending |-> None, stdout |-> <<>>]

NoSession == Session(0, 0)

Item(k, n, i) == [kind |-> k, conn |-> n, num |-> i]

next_pap_seq(q) == IF q = MaxSeq THEN 1 ELSE q + 1

(* Insert into a reply cache, the oldest entry making room.                *)
Remember(cache, q, reply) ==
    LET kept == IF Len(cache) = CacheLen THEN Tail(cache) ELSE cache
    IN  Append(kept, [seq |-> q, reply |-> reply])

Cached(cache, q) == {cache[i].reply : i \in {j \in DOMAIN cache : cache[j].seq = q}}

Off == [pc |-> "off", n |-> 0, id |-> 0, job |-> 0, pos |-> 0, cache |-> <<>>,
        rseq |-> 1, reads |-> 0, got |-> <<>>]

(* Seeded fault: bytes in a write that has not returned are not counted.   *)
HeldQueued(p) == Len(p.queue)

(***************************************************************************)
(* The port queue.                                                         *)
(***************************************************************************)
Held(p) == Len(p.queue) + p.writing

(* Put bytes, or an event behind the bytes queued so far.                  *)
Put(p, i) ==
    IF i.kind \in {"chunk", "query"}
    THEN [p EXCEPT !.queue = Append(@, i)]
    ELSE [p EXCEPT !.events = Append(@, [item |-> i, ahead |-> Held(p)])]

(* allocate_tid: a transaction id nothing underway carries.                *)
FreeTid ==
    CHOOSE t \in 1 .. (Cardinality(pulls \cup replies) + Len(inbox) + 2) :
        /\ t # session.pull
        /\ \A p \in pulls \cup replies \cup Range(inbox) : p.tid # t

(* A pull goes out when a session is open, none is in flight, and either   *)
(* the credit it was last told or the one it is told now covers a reply:   *)
(* drain pulls before settle reports what the same datagram brought.       *)
maybe_pull(s, others, old, new) ==
    IF s # NoSession /\ s.pull = 0 /\ (old \/ new)
    THEN /\ session' = [s EXCEPT !.pull = FreeTid]
         /\ pulls' = others \cup {[tid |-> FreeTid, id |-> s.id, seq |-> s.seq]}
    ELSE /\ session' = s
         /\ pulls' = others

(* Everything a server step ends in: with the port as the step left it,    *)
(* the credit is reported again and the next pull goes out.                *)
settle(s, p) ==
    /\ port' = p
    /\ credit' = (Held(p) = 0)
    /\ maybe_pull(s, pulls, credit, Held(p) = 0)

(* What the option card makes of a PAP event: a rename is pulled out of    *)
(* the stream at the head of a job, the ribbon is asked for after a close. *)
RoleItem(e) ==
    IF role = "imagewriter" /\ e.kind = "chunk" /\ jobStart /\ e.conn \in RenameConns
    THEN Item("rename", e.conn, e.num)
    ELSE e

poll_event(e) ==
    /\ jobStart' = (e.kind # "chunk")
    /\ ident' = IF role = "imagewriter" /\ e.kind = "end" THEN "due" ELSE ident

NoEvent == UNCHANGED <<jobStart, ident>>

(***************************************************************************)
(* The server's ends of a client's requests.  A reply to a client that     *)
(* gave up goes nowhere.                                                   *)
(***************************************************************************)
Respond(live, reply) == call' = IF live THEN [kind |-> "reply", reply |-> reply] ELSE call

(* Take the request r from the client's call or from the stale ones.       *)
Requests == stale \cup (IF call.kind \in {"open", "read", "close"} THEN {call} ELSE {})

Received(r) == stale' = stale \ {r}

(* No reply yet, or none at all.                                           *)
Ignore(r) == call' = IF r.live THEN [kind |-> "ignored"] ELSE call

handle_listener_event(r) ==
    /\ r \in Requests /\ r.kind = "open"
    /\ Received(r)
    /\ \/ /\ session # NoSession
          /\ Respond(r.live, [kind |-> "busy"])
          /\ NoEvent
          /\ UNCHANGED <<session, pulls, credit, port>>
       \/ /\ session = NoSession
          /\ Respond(r.live, [kind |-> "opened"])
          /\ settle(Session(r.n, r.id), Put(port, Item("start", r.n, 0)))
          /\ poll_event(Item("start", r.n, 0))
    /\ UNCHANGED <<role, client, inbox, replies, handed, taken, sentOut, log, faults>>

(* Serve the waiting read: all that is queued, or nothing when the client  *)
(* has been idle for two seconds.                                          *)
answer_read(s) ==
    LET reply == [kind |-> "data", data |-> s.stdout]
    IN  [s EXCEPT !.pending = None, !.stdout = <<>>, !.rseq = next_pap_seq(@),
                  !.cache = Remember(@, s.pending.seq, reply)]

ReadReply(s) == [kind |-> "data", data |-> s.stdout]

SendData(r) ==
    /\ r \in Requests /\ r.kind = "read"
    /\ session # NoSession /\ session.id = r.id
    /\ Received(r)
    /\ \/ /\ r.seq # session.rseq
          /\ LET old == Cached(session.cache, r.seq)
             IN  IF old = {} THEN Ignore(r) ELSE Respond(r.live, CHOOSE reply \in old : TRUE)
          /\ UNCHANGED session
       \/ /\ r.seq = session.rseq
          /\ LET s == [session EXCEPT !.pending = [kind |-> "read", seq |-> r.seq, live |-> r.live]]
             IN  IF s.stdout # <<>>
                 THEN /\ session' = answer_read(s)
                      /\ Respond(r.live, ReadReply(s))
                 ELSE /\ session' = s
                      /\ Ignore(r)
    /\ UNCHANGED <<role, client, inbox, pulls, replies, credit, port, ident, jobStart,
                   handed, taken, sentOut, log, faults>>

(* READ_IDLE_ANSWER: a read left waiting is answered empty.                *)
IdleAnswer ==
    /\ session # NoSession /\ session.pending # None
    /\ Respond(session.pending.live, ReadReply(session))
    /\ session' = answer_read(session)
    /\ UNCHANGED <<role, client, inbox, stale, pulls, replies, credit, port, ident,
                   jobStart, handed, taken, sentOut, log, faults>>

CloseConn(r) ==
    /\ r \in Requests /\ r.kind = "close"
    /\ session # NoSession /\ session.id = r.id
    /\ Received(r)
    /\ Respond(r.live, [kind |-> "closed"])
    /\ settle(NoSession, Put(port, Item("end", session.n, 0)))
    /\ poll_event(Item("end", session.n, 0))
    /\ UNCHANGED <<role, client, inbox, replies, handed, taken, sentOut, log, faults>>

(* No session, or another one's connection id: the request is not answered.*)
Unanswered(r) ==
    /\ r \in Requests /\ r.kind \in {"read", "close"}
    /\ session = NoSession \/ session.id # r.id
    /\ Received(r)
    /\ Ignore(r)
    /\ UNCHANGED <<role, client, inbox, serverVars, replies, handed, sentOut, log, faults>>

(* Seeded fault: the reply to the pull in flight does not move the         *)
(* sequence number on.                                                     *)
AcceptSameSeq(s, reply) ==
    LET seen == [s EXCEPT !.pull = 0]
    IN  IF reply.eof THEN [seen EXCEPT !.bytes = 0] ELSE [seen EXCEPT !.bytes = 1]

(* A reply to a pull: an accepted chunk goes to the port, an end of job    *)
(* counts only behind bytes of the job.                                    *)
Accept(s, reply) ==
    LET seen == [s EXCEPT !.pull = 0, !.seq = next_pap_seq(@)]
    IN  IF reply.eof THEN [seen EXCEPT !.bytes = 0] ELSE [seen EXCEPT !.bytes = 1]

PullAnswered(m) ==
    /\ m \in replies
    /\ replies' = replies \ {m}
    /\ \/ /\ session # NoSession /\ session.pull = m.tid
          /\ LET e == IF m.reply.eof THEN Item("eof", session.n, 0) ELSE m.reply.item
                 raised == ~m.reply.eof \/ session.bytes > 0
             IN  /\ settle(Accept(session, m.reply), IF raised THEN Put(port, RoleItem(e)) ELSE port)
                 /\ IF raised THEN poll_event(e) ELSE NoEvent
                 /\ taken' = IF m.reply.eof THEN taken ELSE [taken EXCEPT ![session.n] = @ + 1]
       \/ /\ session = NoSession \/ session.pull # m.tid
          /\ UNCHANGED serverVars
    /\ UNCHANGED <<role, clientVars, sentOut, log, faults>>

(* The pull's retries ran out, its request or its reply lost: the same     *)
(* sequence number is pulled for again.                                    *)
PullFails ==
    /\ faults < MaxFaults
    /\ session # NoSession /\ session.pull # 0
    /\ faults' = faults + 1
    /\ replies' = {m \in replies : m.tid # session.pull}
    /\ maybe_pull([session EXCEPT !.pull = 0], {p \in pulls : p.tid # session.pull},
                  credit, Held(port) = 0)
    /\ credit' = (Held(port) = 0)
    /\ UNCHANGED <<port, ident, jobStart>>
    /\ UNCHANGED <<role, clientVars, taken, sentOut, log>>

(* INACTIVITY_TIMEOUT.  The option card polls its query in the same call,  *)
(* and its bytes go ahead of the server's event.                           *)
Inactive ==
    /\ session # NoSession
    /\ LET gone == client.pc = "off" \/ client.n # session.n
       IN  IF gone THEN UNCHANGED faults ELSE faults < MaxFaults /\ faults' = faults + 1
    /\ LET p == IF role = "imagewriter" /\ ident = "due" THEN Put(port, Item("query", 0, 0)) ELSE port
       IN  settle(NoSession, Put(p, Item("end", session.n, 0)))
    /\ poll_event(Item("end", session.n, 0))
    /\ UNCHANGED <<role, clientVars, replies, taken, sentOut, log>>

(***************************************************************************)
(* The printer's task: Printer::run on the port, and the option card's     *)
(* self ID query.                                                          *)
(***************************************************************************)
next_event(p) == p.events # <<>> /\ Head(p.events).ahead = 0

Report ==
    /\ next_event(port) /\ port.writing = 0
    /\ log' = Append(log, Head(port.events).item)
    /\ port' = [port EXCEPT !.events = Tail(@)]
    /\ UNCHANGED <<role, clientVars, session, pulls, replies, credit, ident, jobStart,
                   taken, sentOut, faults>>

(* Up to 256 bytes at once, across the boundaries of what was queued.      *)
WriteStarts ==
    /\ ~next_event(port) /\ port.writing = 0
    /\ \E k \in 1 .. Len(port.queue) :
          /\ log' = log \o SubSeq(port.queue, 1, k)
          /\ port' = [port EXCEPT !.queue = SubSeq(@, k + 1, Len(@)), !.writing = k]
    /\ UNCHANGED <<role, clientVars, session, pulls, replies, credit, ident, jobStart,
                   taken, sentOut, faults>>

(* WriteGuard::drop: the bytes go back to the window however it ended.     *)
Written(p) ==
    LET Left(e) == [e EXCEPT !.ahead = IF @ > p.writing THEN @ - p.writing ELSE 0]
    IN  [p EXCEPT !.writing = 0, !.events = [j \in DOMAIN @ |-> Left(@[j])]]

(* Seeded fault: a returning write does not report the room it made.       *)
WriteReturnsQuietly ==
    /\ port.writing > 0
    /\ port' = Written(port)
    /\ UNCHANGED <<role, clientVars, session, pulls, credit, replies, ident, jobStart,
                   taken, sentOut, log, faults>>

WriteReturns ==
    /\ port.writing > 0
    /\ LET p == Written(port)
       IN  /\ port' = p
           /\ credit' = (Held(p) = 0)
           /\ maybe_pull(session, pulls, FALSE, Held(p) = 0)
    /\ UNCHANGED <<role, clientVars, replies, ident, jobStart, taken, sentOut, log, faults>>

SumOut == FoldFunction(+, 0, sentOut)

(* The printer sends something back; without a session it is dropped, and  *)
(* the option card drops all but an answer to its query.                   *)
PrinterInput ==
    /\ port.queue = <<>> /\ port.writing = 0 /\ ~next_event(port)
    /\ role = "pap" /\ session # NoSession
    /\ SumOut < MaxOut
    /\ LET n == session.n
           s == [session EXCEPT !.stdout = Append(@, sentOut[n] + 1)]
       IN  /\ sentOut' = [sentOut EXCEPT ![n] = @ + 1]
           /\ IF s.pending # None
              THEN /\ Respond(s.pending.live, ReadReply(s))
                   /\ session' = answer_read(s)
              ELSE /\ session' = s
                   /\ UNCHANGED call
    /\ UNCHANGED <<role, client, inbox, stale, pulls, replies, credit, port, ident,
                   jobStart, handed, taken, log, faults>>

(* Ask for the ribbon, only while no job is open.                          *)
poll_ident_due ==
    /\ role = "imagewriter" /\ ident = "due" /\ session = NoSession
    /\ ident' = "waiting"
    /\ port' = Put(port, Item("query", 0, 0))
    /\ credit' = FALSE
    /\ UNCHANGED <<role, clientVars, session, pulls, replies, jobStart, taken, sentOut,
                   log, faults>>

(* The reply went quiet, or never came.                                    *)
settle_ident ==
    /\ ident = "waiting"
    /\ ident' = "settled"
    /\ UNCHANGED <<role, clientVars, session, pulls, replies, credit, port, jobStart,
                   taken, sentOut, log, faults>>

(***************************************************************************)
(* The client.                                                             *)
(***************************************************************************)
Request(c, kind) ==
    [kind |-> kind, n |-> c.n, id |-> c.id, seq |-> c.rseq, live |-> TRUE]

(* The client stops waiting for its request: what the server has not seen  *)
(* may still get there.                                                    *)
Abandoned ==
    /\ stale' = IF call.kind \in {"open", "read", "close"}
                THEN stale \cup {[call EXCEPT !.live = FALSE]} ELSE stale
    /\ call' = None
    /\ session' = IF session # NoSession /\ session.pending # None
                  THEN [session EXCEPT !.pending.live = FALSE] ELSE session

(* A new socket, a new PapClient, OpenConn.  Pulls for a socket that no    *)
(* client will have again are forgotten.                                   *)
Connect ==
    /\ client.pc = "off" /\ client.n < MaxConns
    /\ LET n == client.n + 1
           c == [client EXCEPT !.pc = "opening", !.n = n, !.id = SocketOf[n]]
       IN  /\ client' = c
           /\ call' = Request(c, "open")
    /\ inbox' = <<>>
    /\ pulls' = {p \in pulls : \E n \in Conns : n > client.n /\ SocketOf[n] = p.id}
    /\ UNCHANGED <<role, stale, session, credit, port, ident, jobStart, taken, replies, handed,
                   sentOut, log, faults>>

OpenConnReply ==
    /\ client.pc = "opening" /\ call.kind = "reply"
    /\ \/ /\ call.reply.kind = "opened"
          /\ client' = [client EXCEPT !.pc = "idle"]
          /\ call' = None
       \/ /\ call.reply.kind = "busy"
          /\ call' = Request(client, "open")
          /\ UNCHANGED client
    /\ UNCHANGED <<role, inbox, stale, serverVars, replies, handed, sentOut, log, faults>>

(* An error, or the caller's deadline: the PapClient is dropped, and what  *)
(* its task returns no longer matters to the wire.                         *)
Dropped == client' = [Off EXCEPT !.n = client.n, !.reads = client.reads]

GiveUp ==
    /\ client.pc \in {"opening", "idle", "printing", "closing"}
    /\ faults < MaxFaults
    /\ faults' = faults + 1
    /\ Dropped
    /\ inbox' = <<>>
    /\ Abandoned
    /\ UNCHANGED <<role, pulls, credit, port, ident, jobStart, taken, replies, handed,
                   sentOut, log>>

(* Nobody pulls from this client any more: print_stream gives up after 120 *)
(* seconds in which it heard nothing.                                      *)
PrintTimeout ==
    /\ client.pc = "printing"
    /\ session.n # client.n
    /\ inbox = <<>>
    /\ Dropped
    /\ UNCHANGED <<role, inbox, call, stale, serverVars, replies, handed, sentOut, log, faults>>

print_stream ==
    /\ client.pc = "idle" /\ client.job < MaxJobs
    /\ client' = [client EXCEPT !.pc = "printing", !.job = @ + 1, !.pos = 0, !.cache = <<>>]
    /\ UNCHANGED <<role, inbox, call, stale, serverVars, replies, handed, sentOut, log, faults>>

(* A pull reaches the socket it was sent to.                               *)
PullArrives(p) ==
    /\ p \in pulls
    /\ client.pc # "off" /\ client.id = p.id
    /\ pulls' = pulls \ {p}
    /\ inbox' = Append(inbox, p)
    /\ UNCHANGED <<role, client, call, stale, session, replies, credit, port, ident,
                   jobStart, handed, taken, sentOut, log, faults>>

(* A reply travels as long as somebody waits for it.                       *)
Reply(p, reply) ==
    replies' = IF session # NoSession /\ session.pull = p.tid
               THEN replies \cup {[tid |-> p.tid, reply |-> reply]} ELSE replies

(* Answer the next pull: the identical bytes when this sequence number was *)
(* answered before, else the next chunk, or an end of job.                 *)
HandlePull ==
    /\ client.pc \in {"printing", "drain"}
    /\ inbox # <<>>
    /\ inbox' = Tail(inbox)
    /\ LET p == Head(inbox)
           n == client.n
           old == Cached(client.cache, p.seq)
       IN  \/ /\ old # {}
              /\ \E reply \in old : Reply(p, reply)
              /\ UNCHANGED <<client, handed>>
           \/ /\ old = {}
              /\ client.pc = "printing" /\ client.pos < JobLen
              /\ LET reply == [eof |-> FALSE, item |-> Item("chunk", n, handed[n] + 1)]
                 IN  /\ Reply(p, reply)
                     /\ client' = [client EXCEPT !.pos = @ + 1,
                                                 !.cache = Remember(@, p.seq, reply)]
              /\ handed' = [handed EXCEPT ![n] = @ + 1]
           \/ /\ old = {}
              /\ client.pc = "drain" \/ client.pos = JobLen
              /\ LET reply == [eof |-> TRUE, item |-> None]
                 IN  /\ Reply(p, reply)
                     /\ client' = [client EXCEPT !.pc = IF @ = "drain" THEN "idle" ELSE "drain",
                                                 !.cache = Remember(@, p.seq, reply)]
              /\ UNCHANGED handed
    /\ UNCHANGED <<role, call, stale, serverVars, sentOut, log, faults>>

(* Half a second after the end of job nothing more came.                   *)
DrainOver ==
    /\ client.pc = "drain"
    /\ client' = [client EXCEPT !.pc = "idle"]
    /\ UNCHANGED <<role, inbox, call, stale, serverVars, replies, handed, sentOut, log, faults>>

(* The ImageWriter driver never reads: the option card has nothing to say. *)
read_response ==
    /\ role = "pap"
    /\ client.pc = "idle" /\ client.job > 0 /\ client.reads < MaxReads
    /\ client' = [client EXCEPT !.pc = "reading", !.reads = @ + 1]
    /\ call' = Request(client, "read")
    /\ UNCHANGED <<role, inbox, stale, serverVars, replies, handed, sentOut, log, faults>>

(* Data without end of file: the client reads on.                          *)
DataReply ==
    /\ client.pc = "reading" /\ call.kind = "reply"
    /\ LET c == [client EXCEPT !.rseq = next_pap_seq(@), !.got = @ \o call.reply.data]
       IN  IF c.reads < MaxReads
           THEN /\ client' = [c EXCEPT !.reads = @ + 1]
                /\ call' = Request(c, "read")
           ELSE /\ client' = [c EXCEPT !.pc = "idle"]
                /\ call' = None
    /\ UNCHANGED <<role, inbox, stale, serverVars, replies, handed, sentOut, log, faults>>

(* The read failed or the caller's timeout fired; the connection stays,    *)
(* and a later read asks for the same sequence number.                     *)
ReadTimeout ==
    /\ client.pc = "reading"
    /\ faults < MaxFaults
    /\ faults' = faults + 1
    /\ client' = [client EXCEPT !.pc = "idle"]
    /\ Abandoned
    /\ UNCHANGED <<role, inbox, pulls, credit, port, ident, jobStart, taken, replies,
                   handed, sentOut, log>>

close ==
    /\ client.pc = "idle" /\ client.job > 0
    /\ client' = [client EXCEPT !.pc = "closing"]
    /\ call' = Request(client, "close")
    /\ UNCHANGED <<role, inbox, stale, serverVars, replies, handed, sentOut, log, faults>>

CloseConnReply ==
    /\ client.pc = "closing" /\ call.kind \in {"reply", "ignored"}
    /\ Dropped
    /\ inbox' = <<>>
    /\ call' = None
    /\ UNCHANGED <<role, stale, serverVars, replies, handed, sentOut, log, faults>>

(***************************************************************************)

Init ==
    /\ role \in {"pap", "imagewriter"}
    /\ client = Off
    /\ inbox = <<>> /\ call = None /\ stale = {}
    /\ session = NoSession
    /\ pulls = {} /\ replies = {}
    /\ credit = TRUE
    /\ port = [queue |-> <<>>, writing |-> 0, events |-> <<>>]
    /\ ident = IF role = "imagewriter" THEN "due" ELSE "settled"
    /\ jobStart = TRUE
    /\ handed = [n \in Conns |-> 0] /\ taken = [n \in Conns |-> 0]
    /\ sentOut = [n \in Conns |-> 0]
    /\ log = <<>>
    /\ faults = 0

Server ==
    \/ \E r \in Requests :
          handle_listener_event(r) \/ SendData(r) \/ CloseConn(r) \/ Unanswered(r)
    \/ \E m \in replies : PullAnswered(m)
    \/ IdleAnswer \/ PrinterInput
    \/ WriteStarts \/ WriteReturns \/ Report
    \/ poll_ident_due \/ settle_ident

Client ==
    \/ Connect \/ OpenConnReply
    \/ print_stream \/ HandlePull \/ DrainOver \/ PrintTimeout
    \/ read_response \/ DataReply
    \/ close \/ CloseConnReply
    \/ \E p \in pulls : PullArrives(p)

Next == Server \/ Client \/ PullFails \/ Inactive \/ GiveUp \/ ReadTimeout

Spec == Init /\ [][Next]_vars

(* Both tasks run, datagrams get through in the end (MaxFaults bounds the  *)
(* requests that do not), the printer takes its bytes, and each side's     *)
(* 120 second timeout fires when the other is gone.                        *)
Fairness ==
    /\ WF_vars(HandlePull) /\ WF_vars(DrainOver)
    /\ WF_vars(PrintTimeout)
    /\ WF_vars(\E p \in pulls : PullArrives(p))
    /\ WF_vars(\E m \in replies : PullAnswered(m))
    /\ WF_vars(WriteStarts) /\ WF_vars(WriteReturns) /\ WF_vars(Report)

FairSpec == Spec /\ Fairness

(***************************************************************************)
(* Properties.                                                             *)
(***************************************************************************)

Spool == INSTANCE PrintSpool WITH handed <- handed, log <- log

(* The port and the application see every connection's bytes whole, in     *)
(* order and once, and its events in their places: client, server, option  *)
(* card and port queue together implement PrintSpool.                      *)
ImplementsSpool == Spool!SpoolSpec

(* Chunks queued, and chunks in a write that has not returned.             *)
ChunksHeld ==
    Cardinality({i \in DOMAIN port.queue : port.queue[i].kind = "chunk"})
      + Cardinality({i \in Len(log) - port.writing + 1 .. Len(log) : log[i].kind = "chunk"})

(* The port never holds more than two full replies: the one the window is  *)
(* for, and one more, pulled on the credit reported before it.             *)
HeldBounded == ChunksHeld <= 2

(* A job that is being printed does not hang: print_stream returns.        *)
PrintReturns == client.pc \in {"printing", "drain"} ~> client.pc \in {"idle", "off"}

=============================================================================
