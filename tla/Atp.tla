-------------------------------- MODULE Atp --------------------------------
(***************************************************************************)
(* The AppleTalk Transaction Protocol: requestor endpoints (Clients), one  *)
(* responder endpoint, and the cable between them.                         *)
(*                                                                         *)
(* An endpoint is the sans-io state machine AtpEndpoint of                 *)
(* tailtalk-core/src/atp.rs.  Around it stand the callers that feed it     *)
(* datagrams and time: the embedded socket of tailtalk-net/src/atp.rs,     *)
(* whose request queue drops what does not fit, and the response splitter  *)
(* of tailtalk/src/atp.rs, which cuts an answer to the requester's bitmap. *)
(*                                                                         *)
(* A transaction is a pair <<client, tid>>.  What a packet carries is      *)
(* abstracted to which answer of the application it belongs to and which   *)
(* slot it fills.  A bitmap is abstracted to how many bits it has set: the *)
(* code reads nothing else of it.  The outbox of an endpoint and the cable *)
(* behind it are one FIFO channel per direction and client, which may lose *)
(* any packet and holds none for longer than MAX_DELAY.                    *)
(***************************************************************************)
EXTENDS Integers, Sequences, FiniteSets, Functions

CONSTANTS
    Clients,           \* requestor endpoints
    MAX_SLOTS,         \* response packets a bitmap can name (8 in the code)
    RETRY_INTERVAL,    \* time between two transmissions of a request
    MAX_RETRIES,       \* retransmissions before a request fails
    RELEASE_TIMEOUT,   \* life of a reply-cache entry without a TRel
    REPLY_CACHE_LEN,   \* capacity of the reply cache and of in_progress
    REQUEST_QUEUE_LEN, \* capacity of the embedded socket's request queue
    MAX_DELAY,         \* longest stay of a packet on the cable
    POLL_SLACK,        \* longest delay of poll() behind its deadline
    RESPECT_BITMAP,    \* TRUE: desktop splitter, FALSE: AtpEndpoint::respond
    Bitmaps,           \* bit counts requests are sent with
    Answers,           \* packets the application has for an answer
    MaxTid,            \* bound: requests per client (one pass over the tids)
    MaxNow             \* bound: how long the model runs

ASSUME ConstantsAssumption ==
    /\ MAX_SLOTS \in Nat \ {0} /\ Bitmaps \subseteq 0..MAX_SLOTS
    /\ Answers \subseteq 1..MAX_SLOTS
    /\ RETRY_INTERVAL \in Nat \ {0} /\ MAX_RETRIES \in Nat
    /\ RELEASE_TIMEOUT \in Nat /\ REPLY_CACHE_LEN \in Nat \ {0}
    /\ REQUEST_QUEUE_LEN \in Nat /\ MAX_DELAY \in Nat /\ POLL_SLACK \in Nat
    /\ RESPECT_BITMAP \in BOOLEAN /\ MaxTid \in Nat /\ MaxNow \in Nat

\* The last transmission of a request happens at most this long after the first,
\* and the requestor has given up one more interval later.
RetryWindow == (MAX_RETRIES + 1) * (RETRY_INTERVAL + POLL_SLACK)

\* 30 s of RELEASE_TIMEOUT outlast 18 s of retries and a slow cable.
ASSUME ReleaseOutlastsRetries == RELEASE_TIMEOUT > RetryWindow + MAX_DELAY

VARIABLES
    now,         \* the monotonic clock the callers read
    next_tid,    \* next_tid[c]: AtpEndpoint::next_tid
    pending,     \* AtpEndpoint::pending of all clients, keyed by transaction
    outcome,     \* what the caller of request() has seen so far
    reply_cache, \* AtpEndpoint::reply_cache of the responder
    in_progress, \* AtpEndpoint::in_progress of the responder
    requests,    \* AtpState::requests, inbound requests nobody has read yet
    serving,     \* requests the application has read and not answered
    c2s, s2c,    \* the cable, one FIFO per client and direction
    \* history variables
    delivered,   \* delivered[x]: how often x was put in front of the application
    dropped,     \* transactions refused by the full request queue
    evicted,     \* transactions pushed out of reply_cache or in_progress
    answered     \* answered[x]: packets of each answer given to x

clientVars == <<next_tid, pending, outcome>>
serverVars == <<reply_cache, in_progress, requests, serving>>
history    == <<delivered, dropped, evicted, answered>>
vars == <<now, clientVars, serverVars, c2s, s2c, history>>

Tids  == 1..MaxTid
Trans == Clients \X Tids
Slots == 0..(MAX_SLOTS - 1)

\* Packets.  `sent` is when the packet was put on the cable.
TReq(t, xo, n) == [type |-> "TReq", tid |-> t, xo |-> xo, bitmap |-> n, sent |-> now]
TRel(t)        == [type |-> "TRel", tid |-> t, sent |-> now]
TResp(t, p)    == [type |-> "TResp", tid |-> t, seq |-> p.seq, eom |-> p.eom,
                   ans |-> p.ans, sent |-> now]

\* A map without one of its keys, and with one key more.
Without(f, x) == Restrict(f, DOMAIN f \ {x})
With(f, x, v) == [y \in DOMAIN f \cup {x} |-> IF y = x THEN v ELSE f[y]]

\* What a caller has seen: nothing yet ("none", "waiting"), its own "abandoned", an
\* AtpTimeout ("failed") or the "response" with its data.
NoOutcome(st)  == [st |-> st, data |-> <<>>]
Response(data) == [st |-> "response", data |-> data]

Init ==
    /\ now = 0
    /\ next_tid = [c \in Clients |-> 1]
    /\ pending = [x \in {} |-> 0]
    /\ outcome = [x \in Trans |-> NoOutcome("none")]
    /\ reply_cache = {} /\ in_progress = <<>>
    /\ requests = <<>> /\ serving = {}
    /\ c2s = [c \in Clients |-> <<>>] /\ s2c = [c \in Clients |-> <<>>]
    /\ delivered = [x \in Trans |-> 0]
    /\ dropped = {} /\ evicted = {}
    /\ answered = [x \in Trans |-> <<>>]

-----------------------------------------------------------------------------
(* Requestor *)

\* allocate_tid: the wrap to 0 and the skip over pending tids only matter after
\* 65535 requests, which MaxTid excludes, so the next tid is always free.
AllocateTid(c) ==
    /\ next_tid[c] <= MaxTid
    /\ next_tid' = [next_tid EXCEPT ![c] = @ + 1]

\* An XO request: put on the wire and entered in `pending`; the caller waits.
\* Bound: only started while its whole retry schedule still fits MaxNow.
Request(c, n) ==
    LET t == next_tid[c]
        x == <<c, t>>
    IN  /\ now + RetryWindow <= MaxNow
        /\ AllocateTid(c)
        /\ c2s' = [c2s EXCEPT ![c] = Append(@, TReq(t, TRUE, n))]
        /\ pending' = With(pending, x,
               [bitmap |-> n, received |-> [i \in Slots |-> 0], eom_seq |-> -1,
                retries |-> 0, retry_at |-> now + RETRY_INTERVAL])
        /\ outcome' = [outcome EXCEPT ![x] = NoOutcome("waiting")]
        /\ UNCHANGED <<now, serverVars, s2c, history>>

\* A fire-and-forget at-least-once packet (a tickle): nothing is registered.
SendAlo(c) ==
    /\ now + RetryWindow <= MaxNow
    /\ AllocateTid(c)
    /\ c2s' = [c2s EXCEPT ![c] = Append(@, TReq(next_tid[c], FALSE, MAX_SLOTS))]
    /\ UNCHANGED <<now, pending, outcome, serverVars, s2c, history>>

\* The future returned by request() is dropped: OutcomeGuard forgets the handle,
\* while the endpoint goes on with the transaction.
Abandon(x) ==
    /\ outcome[x].st = "waiting"
    /\ outcome' = [outcome EXCEPT ![x] = NoOutcome("abandoned")]
    /\ UNCHANGED <<now, next_tid, pending, serverVars, c2s, s2c, history>>

\* sort_events / handle_event: an outcome reaches a caller that still waits.
Resolve(x, r) ==
    outcome' = [outcome EXCEPT ![x] = IF @.st = "waiting" THEN r ELSE @]

\* A TResp stored in its slot, and the slots filled so far (answers count from 1).
Store(p, m) ==
    [p EXCEPT !.received[m.seq] = m.ans,
              !.eom_seq = IF m.eom THEN m.seq ELSE @]

Filled(p) == {i \in Slots : p.received[i] # 0}

\* Everything up to the EOM is there or, without an EOM, as many packets as
\* bits were requested.
Complete(p) ==
    IF p.eom_seq # -1
    THEN \A i \in 0..p.eom_seq : i \in Filled(p)
    ELSE /\ Filled(p) # {}
         /\ Cardinality(Filled(p)) = p.bitmap

\* Seeded fault: the EOM's own packet is left out of the assembled data.
ExpectedBeforeEom(p) ==
    IF p.eom_seq # -1 THEN p.eom_seq ELSE Cardinality(Filled(p))

Expected(p) ==
    IF p.eom_seq # -1 THEN p.eom_seq + 1 ELSE Cardinality(Filled(p))

\* A completed request leaves `pending`; its slots are put together, released with
\* a TRel and handed over, unless a slot is missing: then the code just returns.
Finish(c, t, p) ==
    LET n == Expected(p)
        x == <<c, t>>
    IN  /\ pending' = Without(pending, x)
        /\ IF \A i \in 0..(n - 1) : i \in Filled(p)
           THEN /\ c2s' = [c2s EXCEPT ![c] = Append(@, TRel(t))]
                /\ Resolve(x, Response([i \in 1..n |-> p.received[i - 1]]))
           ELSE UNCHANGED <<c2s, outcome>>

\* handle_datagram on a requestor: the head of s2c[c] is a TResp.
ClientReceive(c) ==
    /\ s2c[c] # <<>>
    /\ s2c' = [s2c EXCEPT ![c] = Tail(@)]
    /\ LET m == Head(s2c[c])
           x == <<c, m.tid>>
           p == Store(pending[x], m)
       IN  IF x \notin DOMAIN pending
           THEN UNCHANGED <<pending, outcome, c2s>>
           ELSE IF Complete(p)
           THEN Finish(c, m.tid, p)
           ELSE /\ pending' = [pending EXCEPT ![x] = p]
                /\ UNCHANGED <<outcome, c2s>>
    /\ UNCHANGED <<now, next_tid, serverVars, history>>

\* Seeded fault: a retransmission is not counted, so the request never fails.
ClientPollUncounted(x) ==
    /\ x \in DOMAIN pending
    /\ pending[x].retry_at <= now
    /\ pending' = [pending EXCEPT ![x].retry_at = now + RETRY_INTERVAL]
    /\ c2s' = [c2s EXCEPT ![x[1]] = Append(@, TReq(x[2], TRUE, pending[x].bitmap))]
    /\ UNCHANGED <<outcome, now, next_tid, serverVars, s2c, history>>

\* poll on a requestor, for one due request: retransmit it or give it up.  The
\* due requests of one poll touch disjoint state, so they are taken one by one.
ClientPoll(x) ==
    /\ x \in DOMAIN pending
    /\ pending[x].retry_at <= now
    /\ LET p == [pending[x] EXCEPT !.retries = @ + 1,
                                   !.retry_at = now + RETRY_INTERVAL]
       IN  IF p.retries > MAX_RETRIES
           THEN /\ pending' = Without(pending, x)
                /\ Resolve(x, NoOutcome("failed"))
                /\ UNCHANGED c2s
           ELSE /\ pending' = [pending EXCEPT ![x] = p]
                /\ c2s' = [c2s EXCEPT ![x[1]] = Append(@, TReq(x[2], TRUE, p.bitmap))]
                /\ UNCHANGED outcome
    /\ UNCHANGED <<now, next_tid, serverVars, s2c, history>>

-----------------------------------------------------------------------------
(* Responder *)

\* respond_packets frames an answer of n packets, EOM on the last.
Packets(n, a) == [i \in 1..n |-> [seq |-> i - 1, eom |-> i = n, ans |-> a]]

Transmit(c, t, packets) ==
    s2c' = [s2c EXCEPT ![c] = @ \o [i \in DOMAIN packets |-> TResp(t, packets[i])]]

\* The reply cache is a deque in the order the answers were given, and so in the
\* order of expires_at: a set of entries, the oldest the one that expires first.
Cached(x)  == {e \in reply_cache : e.trans = x}
Oldest(S)  == {e \in S : \A d \in S : e.expires_at <= d.expires_at}

\* A FIFO of capacity REPLY_CACHE_LEN that is full drops its oldest element to take
\* one more.
Full(n) == n >= REPLY_CACHE_LEN

Push(q, x)   == Append(IF Full(Len(q)) THEN Tail(q) ELSE q, x)
Displaced(q) == IF Full(Len(q)) THEN {Head(q)} ELSE {}

\* A sequence without the element at i; in_progress without transaction x, which
\* it holds at most once.
RemoveAt(q, i) == [j \in 1..(Len(q) - 1) |-> IF j < i THEN q[j] ELSE q[j + 1]]
Remove(q, x) ==
    IF \E i \in DOMAIN q : q[i] = x
    THEN RemoveAt(q, CHOOSE i \in DOMAIN q : q[i] = x)
    ELSE q

\* sort_events of the embedded socket: an inbound request is queued for the
\* application, or dropped when the queue is full.
SortEvents(x, m) ==
    IF Len(requests) < REQUEST_QUEUE_LEN
    THEN /\ requests' = Append(requests, [trans |-> x, xo |-> m.xo, bitmap |-> m.bitmap])
         /\ delivered' = [delivered EXCEPT ![x] = @ + 1]
         /\ UNCHANGED dropped
    ELSE /\ dropped' = dropped \cup {x}
         /\ UNCHANGED <<requests, delivered>>

\* Seeded fault: a request is entered in in_progress only once it is queued.
HandleRequestQueuedOnly(c, m) ==
    LET x == <<c, m.tid>>
        fits == Len(requests) < REQUEST_QUEUE_LEN
    IN  \/ /\ Cached(x) # {}
           /\ \E e \in Oldest(Cached(x)) : Transmit(c, m.tid, e.packets)
           /\ UNCHANGED <<reply_cache, in_progress, requests, delivered, dropped, evicted>>
        \/ /\ Cached(x) = {}
           /\ m.xo /\ x \in Range(in_progress)
           /\ UNCHANGED <<s2c, reply_cache, in_progress, requests, delivered, dropped, evicted>>
        \/ /\ Cached(x) = {}
           /\ ~(m.xo /\ x \in Range(in_progress))
           /\ IF m.xo /\ fits
              THEN /\ in_progress' = Push(in_progress, x)
                   /\ evicted' = evicted \cup Displaced(in_progress)
              ELSE UNCHANGED <<in_progress, evicted>>
           /\ SortEvents(x, m)
           /\ UNCHANGED <<s2c, reply_cache>>

\* A TReq: answered from the cache, ignored while in progress, or delivered.
HandleRequest(c, m) ==
    LET x == <<c, m.tid>>
    IN  \/ /\ Cached(x) # {}
           /\ \E e \in Oldest(Cached(x)) : Transmit(c, m.tid, e.packets)
           /\ UNCHANGED <<reply_cache, in_progress, requests, delivered, dropped, evicted>>
        \/ /\ Cached(x) = {}
           /\ m.xo /\ x \in Range(in_progress)
           /\ UNCHANGED <<s2c, reply_cache, in_progress, requests, delivered, dropped, evicted>>
        \/ /\ Cached(x) = {}
           /\ ~(m.xo /\ x \in Range(in_progress))
           /\ IF m.xo
              THEN /\ in_progress' = Push(in_progress, x)
                   /\ evicted' = evicted \cup Displaced(in_progress)
              ELSE UNCHANGED <<in_progress, evicted>>
           /\ SortEvents(x, m)
           /\ UNCHANGED <<s2c, reply_cache>>

\* Seeded fault: a TRel releases every cached answer of its sender.
HandleReleaseAll(c, m) ==
    /\ reply_cache' = {e \in reply_cache : e.trans[1] # c}
    /\ UNCHANGED <<s2c, in_progress, requests, delivered, dropped, evicted>>

\* A TRel drops the cached answer.
HandleRelease(c, m) ==
    /\ reply_cache' = reply_cache \ Cached(<<c, m.tid>>)
    /\ UNCHANGED <<s2c, in_progress, requests, delivered, dropped, evicted>>

\* handle_datagram on the responder: the head of c2s[c] is a TReq or a TRel.
ServerReceive(c) ==
    /\ c2s[c] # <<>>
    /\ c2s' = [c2s EXCEPT ![c] = Tail(@)]
    /\ LET m == Head(c2s[c])
       IN  \/ m.type = "TReq" /\ HandleRequest(c, m)
           \/ m.type = "TRel" /\ HandleRelease(c, m)
    /\ UNCHANGED <<now, clientVars, serving, answered>>

\* next_request: the application takes the oldest request.  It never answers an
\* at-least-once packet; an exactly-once one is kept until it is answered.
NextRequest ==
    /\ requests # <<>>
    /\ requests' = Tail(requests)
    /\ LET r == Head(requests)
       IN  serving' = serving \cup IF r.xo THEN {r} ELSE {}
    /\ UNCHANGED <<now, clientVars, reply_cache, in_progress, c2s, s2c, history>>

\* How many packets the requester's bitmap allows (max_packets): none set, as
\* classic Mac OS sends it, means no restriction.
MaxPackets(n) == IF n = 0 THEN MAX_SLOTS ELSE n

\* The desktop splitter cuts an answer to the bitmap, AtpEndpoint::respond only to
\* the eight packets a bitmap can name.
Split(r, n) ==
    IF RESPECT_BITMAP /\ n > MaxPackets(r.bitmap) THEN MaxPackets(r.bitmap) ELSE n

\* respond / respond_packets: the answer goes out, leaves in_progress and is cached.
Respond(r, k) ==
    LET x == r.trans
        n == Split(r, k)
        a == Len(answered[x]) + 1
    IN  /\ r \in serving
        /\ serving' = serving \ {r}
        /\ Transmit(x[1], x[2], Packets(n, a))
        /\ in_progress' = Remove(in_progress, x)
        /\ \E out \in IF Full(Cardinality(reply_cache))
                      THEN {{e} : e \in Oldest(reply_cache)} ELSE {{}} :
              /\ reply_cache' = (reply_cache \ out) \cup
                    {[trans |-> x, packets |-> Packets(n, a),
                      expires_at |-> now + RELEASE_TIMEOUT]}
              /\ evicted' = evicted \cup {e.trans : e \in out}
        /\ answered' = [answered EXCEPT ![x] = Append(@, n)]
        /\ UNCHANGED <<now, clientVars, requests, c2s, delivered, dropped>>

\* poll on the responder: cached answers past their time are dropped.
ServerPoll ==
    /\ \E e \in reply_cache : e.expires_at <= now
    /\ reply_cache' = {e \in reply_cache : e.expires_at > now}
    /\ UNCHANGED <<now, clientVars, in_progress, requests, serving, c2s, s2c, history>>

-----------------------------------------------------------------------------
(* Cable and clock *)

\* A lost packet is one the far end never sees: it is dropped where it would have
\* been received, which in a FIFO is as good as anywhere on the way.
LoseToServer(c) ==
    /\ c2s[c] # <<>>
    /\ c2s' = [c2s EXCEPT ![c] = Tail(@)]
    /\ UNCHANGED <<now, clientVars, serverVars, s2c, history>>

LoseToClient(c) ==
    /\ s2c[c] # <<>>
    /\ s2c' = [s2c EXCEPT ![c] = Tail(@)]
    /\ UNCHANGED <<now, clientVars, serverVars, c2s, history>>

\* Time passes while no packet is overdue and no poll is later than POLL_SLACK.
Tick ==
    /\ now < MaxNow
    /\ \A c \in Clients : \A m \in Range(c2s[c]) \cup Range(s2c[c]) : now < m.sent + MAX_DELAY
    /\ \A x \in DOMAIN pending : now < pending[x].retry_at + POLL_SLACK
    /\ now' = now + 1
    /\ UNCHANGED <<clientVars, serverVars, c2s, s2c, history>>

Next ==
    \/ \E c \in Clients, n \in Bitmaps : Request(c, n)
    \/ \E c \in Clients : SendAlo(c)
    \/ \E x \in Trans : Abandon(x)
    \/ \E c \in Clients : ClientReceive(c)
    \/ \E x \in Trans : ClientPoll(x)
    \/ \E c \in Clients : ServerReceive(c)
    \/ NextRequest
    \/ \E r \in serving, k \in Answers : Respond(r, k)
    \/ ServerPoll
    \/ \E c \in Clients : LoseToServer(c) \/ LoseToClient(c)
    \/ Tick

Spec == Init /\ [][Next]_vars

\* The callers keep the clock running, poll when a deadline has passed and read
\* what arrives.  No fairness on the application: it may never answer.
Drive ==
    \/ Tick
    \/ \E x \in Trans : ClientPoll(x)
    \/ \E c \in Clients : ClientReceive(c) \/ ServerReceive(c)

FairSpec == Spec /\ WF_vars(Drive)

-----------------------------------------------------------------------------
(* Properties *)

PacketType == [seq : Slots, eom : BOOLEAN, ans : Nat]
ReqType    == [type : {"TReq"}, tid : Tids, xo : BOOLEAN, bitmap : 0..MAX_SLOTS, sent : Nat]
RelType    == [type : {"TRel"}, tid : Tids, sent : Nat]
RespType   == [type : {"TResp"}, tid : Tids, seq : Slots, eom : BOOLEAN, ans : Nat, sent : Nat]
PendingType  == [bitmap : 0..MAX_SLOTS, received : [Slots -> Nat],
                 eom_seq : Slots \cup {-1}, retries : 0..MAX_RETRIES, retry_at : Nat]
CacheType    == [trans : Trans, packets : Seq(PacketType), expires_at : Nat]
InboundType  == [trans : Trans, xo : BOOLEAN, bitmap : 0..MAX_SLOTS]
OutcomeType  == [st : {"none", "waiting", "abandoned", "failed", "response"}, data : Seq(Nat)]

\* Every variable has its type, and no FIFO of the responder outgrows its capacity
\* (reply_cache and in_progress of AtpEndpoint, requests of AtpState).
TypeOK ==
    /\ now \in Nat
    /\ next_tid \in [Clients -> Nat \ {0}]
    /\ \E D \in SUBSET Trans : pending \in [D -> PendingType]
    /\ outcome \in [Trans -> OutcomeType]
    /\ reply_cache \subseteq CacheType /\ IsFiniteSet(reply_cache)
    /\ Cardinality(reply_cache) <= REPLY_CACHE_LEN
    /\ in_progress \in Seq(Trans) /\ Len(in_progress) <= REPLY_CACHE_LEN
    /\ requests \in Seq(InboundType) /\ Len(requests) <= REQUEST_QUEUE_LEN
    /\ serving \subseteq InboundType
    /\ c2s \in [Clients -> Seq(ReqType \cup RelType)]
    /\ s2c \in [Clients -> Seq(RespType)]
    /\ delivered \in [Trans -> Nat]
    /\ dropped \subseteq Trans /\ evicted \subseteq Trans
    /\ answered \in [Trans -> Seq(1..MAX_SLOTS)]

\* Exactly once: however requests, answers and releases are lost, delayed and
\* retransmitted, a transaction reaches the application a second time only if the
\* 16-entry reply_cache or in_progress had pushed it out before.
AtMostOnceUnlessEvicted ==
    \A x \in Trans \ evicted : delivered[x] <= 1

\* A caller that gets a response gets the whole answer the application gave, every
\* packet of it in order and no packet of another one, whatever mixture of first
\* transmissions and replays filled the slots.
ResponseWhole ==
    \A x \in Trans \ evicted :
        outcome[x].st = "response" =>
            /\ Len(answered[x]) = 1
            /\ outcome[x].data = [i \in 1..answered[x][1] |-> 1]

\* A caller still waiting has a request that is still being retransmitted, so no
\* handle in `waiting` / `outcomes` is left behind without an event to come.
WaiterHasRequest ==
    \A x \in Trans : outcome[x].st = "waiting" => x \in DOMAIN pending

\* Together: a caller that got a response got all of it, and one that waits has an
\* outcome to come.
OutcomesRight == ResponseWhole /\ WaiterHasRequest

\* A request refused by the full queue of the embedded socket is never delivered:
\* its retransmits find it in in_progress and are ignored.
DroppedStaysLost ==
    \A x \in dropped \ evicted : delivered[x] = 0

\* Every caller of request() gets an answer or an AtpTimeout, or gives up itself.
EveryRequestResolves ==
    \A x \in Trans : outcome[x].st = "waiting" ~> outcome[x].st # "waiting"

=============================================================================
