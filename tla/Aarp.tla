-------------------------------- MODULE Aarp --------------------------------
(***************************************************************************)
(* Addresses on an EtherTalk cable: the Addressing actor and the handles   *)
(* of tailtalk/src/addressing.rs on several nodes.  A node acquires a      *)
(* startup address, moves into a router's range when ZIP learns of one,    *)
(* defends what it holds, and resolves the addresses of others.            *)
(*                                                                         *)
(* A frame sent reaches, at once, the channel (packet_recv) of every actor *)
(* it is meant for, save those that lose it; the cache is filled at that   *)
(* moment, the actor handles the packet later.  The capture filter keeps a *)
(* node from hearing itself.  Clocks are left out: a probe window closes   *)
(* when every answer to the probe that is not lost has been handled, which *)
(* the second it lasts allows for, and a lookup may time out at any time.  *)
(* Addresses forced without a probe (fixed_addr, a client's SetAddress)    *)
(* are the operator's business and are not modelled.                       *)
(***************************************************************************)
EXTENDS Integers, Sequences, FiniteSets

CONSTANTS
    Nodes,          \* the stations, named by their hardware address
    Startup,        \* addresses nodes start from ($FF00-$FFFE in the code)
    NetRange,       \* addresses inside the range a router advertises
    MaxPicks,       \* bound: candidates a node tries
    MaxLookups,     \* bound: AARP requests on the cable
    MaxLoss         \* bound: receptions lost

\* An address is a network and a node number.
Addr == Startup \cup NetRange
NodeNumber(a) == a[2]

NoAddr == <<0, 0>>

ASSUME AarpAssumption ==
    /\ Addr \subseteq (Nat \X Nat) \ {NoAddr} /\ Startup \cap NetRange = {}
    /\ IsFiniteSet(Nodes) /\ Nodes \cap {"unknown", "negative"} = {}
    /\ MaxPicks \in Nat /\ MaxLookups \in Nat /\ MaxLoss \in Nat

VARIABLES
    phase,     \* where the actor and the task that moves its address stand, below
    our_addr,  \* our_addr[n]: the settled address
    candidate, \* candidate[n]: the address being probed or adopted
    queue,     \* queue[n]: packet_recv
    cache,     \* cache[n][a]: the station known for a, "unknown" or "negative"
    requests,  \* requests[n]: the Lookup commands in request_recv, by address
    pending,   \* pending[n][a]: requests for a not yet answered
    looking,   \* looking[n]: addresses a caller of lookup() waits for
    \* history variables
    picks,     \* picks[n]: candidates tried
    used,      \* used[n]: addresses n has probed for
    asked,     \* AARP requests sent
    lost,      \* receptions lost
    raced      \* a Probe was passed over between a test and the adoption

actor   == <<phase, our_addr, candidate, picks, used>>
lookups == <<requests, pending, looking, asked>>
wire    == <<queue, cache, lost>>
vars    == <<actor, lookups, wire, raced>>

\* "probing": startup acquisition in run().  "settled": its main loop.  "testing":
\* probe_candidate.  "adopting": the main loop again, while acquire_in_range has
\* heard that its candidate is free and has yet to set it.
Phases == {"off", "probing", "settled", "testing", "adopting"}

Packet(op, n, sender, target) == [opcode |-> op, mac |-> n, sender |-> sender, target |-> target]
PacketType == [opcode : {"Request", "Response", "Probe"}, mac : Nodes, sender : Addr, target : Addr]

Init ==
    /\ phase = [n \in Nodes |-> "off"]
    /\ our_addr = [n \in Nodes |-> NoAddr] /\ candidate = [n \in Nodes |-> NoAddr]
    /\ queue = [n \in Nodes |-> <<>>]
    /\ cache = [n \in Nodes |-> [a \in Addr |-> "unknown"]]
    /\ requests = [n \in Nodes |-> <<>>]
    /\ pending = [n \in Nodes |-> [a \in Addr |-> 0]] /\ looking = [n \in Nodes |-> {}]
    /\ picks = [n \in Nodes |-> 0] /\ used = [n \in Nodes |-> {}]
    /\ asked = 0 /\ lost = 0 /\ raced = FALSE

-----------------------------------------------------------------------------
(* The cable *)

\* received_pkt: whoever hears a packet notes its sender and queues it.  q and c are the
\* queues and caches before it is heard.
Transmit(p, to, q, c) ==
    \E miss \in SUBSET to :
        /\ lost + Cardinality(miss) <= MaxLoss
        /\ lost' = lost + Cardinality(miss)
        /\ queue' = [m \in Nodes |-> IF m \in to \ miss THEN Append(q[m], p) ELSE q[m]]
        /\ cache' = [m \in Nodes |-> IF m \in to \ miss THEN [c[m] EXCEPT ![p.sender] = p.mac]
                                     ELSE c[m]]

Others(n) == {m \in Nodes \ {n} : phase[m] # "off"}

\* Who may hear a frame that n sends to station m: the capture is promiscuous and nothing
\* looks at the destination, so whether others do is up to the cable.
Hearers(n, m) == {to \in SUBSET Others(n) : m \in to}

Taken(n) == [queue EXCEPT ![n] = Tail(@)]

\* The packet at the head of n's queue is consumed without a reply.
Consume(n) == queue' = Taken(n) /\ UNCHANGED <<cache, lost>>

-----------------------------------------------------------------------------
(* The actor *)

\* A candidate is picked and a Probe for it, from it, is broadcast.
Probe(n, a, ph, q) ==
    /\ picks[n] < MaxPicks
    /\ picks' = [picks EXCEPT ![n] = @ + 1]
    /\ phase' = [phase EXCEPT ![n] = ph]
    /\ candidate' = [candidate EXCEPT ![n] = a]
    /\ used' = [used EXCEPT ![n] = @ \cup {a}]
    /\ Transmit(Packet("Probe", n, a, a), Others(n), q, cache)
    /\ UNCHANGED our_addr

\* run(): the first provisional address.
Start(n) ==
    /\ phase[n] = "off"
    /\ \E a \in Startup : Probe(n, a, "probing", queue)
    /\ UNCHANGED <<lookups, raced>>

\* Whether packet p tells a node in startup that its candidate is taken.
StartupConflict(n, p) == p.opcode = "Probe" /\ p.target = candidate[n]

\* The packets of the startup window: a conflict starts over, the rest is passed over.
HandleStartup(n) ==
    LET p == Head(queue[n])
    IN  /\ phase[n] = "probing" /\ queue[n] # <<>>
        /\ \/ /\ StartupConflict(n, p)
              /\ \E a \in Startup : Probe(n, a, "probing", Taken(n))
           \/ /\ ~StartupConflict(n, p)
              /\ Consume(n)
              /\ UNCHANGED actor
        /\ UNCHANGED <<lookups, raced>>

\* The window may close: all that will be heard of n's probe has been handled.
Answered(n) ==
    /\ \A m \in Nodes : \A i \in DOMAIN queue[m] :
          ~(queue[m][i].opcode = "Probe" /\ queue[m][i].mac = n)
    /\ \A i \in DOMAIN queue[n] : queue[n][i].opcode # "Response"

\* "No response, address confirmed".
Confirm(n) ==
    /\ phase[n] = "probing" /\ Answered(n)
    /\ phase' = [phase EXCEPT ![n] = "settled"]
    /\ our_addr' = [our_addr EXCEPT ![n] = candidate[n]]
    /\ UNCHANGED <<candidate, picks, used, lookups, wire, raced>>

\* Seeded fault: the answer to a Request names the address asked for.
ReplyAsAsked(n, p) ==
    \E to \in Hearers(n, p.mac) :
        Transmit(Packet("Response", n, p.target, p.sender), to, Taken(n), cache)

\* send_response
Reply(n, p) ==
    \E to \in Hearers(n, p.mac) :
        Transmit(Packet("Response", n, our_addr[n], p.sender), to, Taken(n), cache)

\* Whether handle_aarp_packet answers p.  A Request is compared by node number only.
Defends(n, p) ==
    \/ p.opcode = "Request" /\ NodeNumber(p.target) = NodeNumber(our_addr[n])
    \/ p.opcode = "Probe" /\ p.target = our_addr[n]

\* Whether a Lookup for a is still in request_recv.  Commands are taken in order, so while
\* there is one it is the latest caller's.
Requested(n, a) == \E i \in DOMAIN requests[n] : requests[n][i] = a

\* The Response arm: the callers whose requests for its sender are pending are answered,
\* those who have given up included; a caller whose command waits is not.
Resolve(n, p) ==
    /\ queue' = Taken(n)
    /\ cache' = IF pending[n][p.sender] > 0 THEN [cache EXCEPT ![n][p.sender] = p.mac] ELSE cache
    /\ pending' = [pending EXCEPT ![n][p.sender] = 0]
    /\ looking' = IF Requested(n, p.sender) THEN looking
                  ELSE [looking EXCEPT ![n] = @ \ {p.sender}]
    /\ UNCHANGED <<requests, asked, lost>>

\* handle_aarp_packet
HandleAarpPacket(n, p) ==
    \/ Defends(n, p) /\ Reply(n, p) /\ UNCHANGED lookups
    \/ p.opcode = "Response" /\ Resolve(n, p)
    \/ p.opcode # "Response" /\ ~Defends(n, p) /\ Consume(n) /\ UNCHANGED lookups

\* A packet in the main loop.
Handle(n) ==
    LET p == Head(queue[n])
    IN  /\ phase[n] \in {"settled", "adopting"} /\ queue[n] # <<>>
        /\ HandleAarpPacket(n, p)
        /\ raced' = (raced \/ (phase[n] = "adopting" /\ p.opcode = "Probe"
                               /\ p.target = candidate[n]))
        /\ UNCHANGED actor

-----------------------------------------------------------------------------
(* Moving into a router's range *)

\* acquire_in_range: a candidate is tested, unless the address is in the range already.
\* A round that has used up its candidates leaves everything as it is.
Acquire(n) ==
    /\ phase[n] = "settled" /\ our_addr[n] \notin NetRange
    /\ \E a \in NetRange : Probe(n, a, "testing", queue)
    /\ UNCHANGED <<lookups, raced>>

\* Seeded fault: a Response does not count as a conflict.
CandidateTakenByProbe(n, p) == p.opcode = "Probe" /\ p.target = candidate[n]

\* Whether packet p tells probe_candidate that its candidate is in use.
CandidateTaken(n, p) ==
    \/ p.opcode = "Response" /\ p.sender = candidate[n]
    \/ p.opcode = "Probe" /\ p.target = candidate[n]

\* A packet during probe_candidate: the candidate is taken, or it is handled as usual.
HandleTesting(n) ==
    LET p == Head(queue[n])
    IN  /\ phase[n] = "testing" /\ queue[n] # <<>>
        /\ \/ /\ CandidateTaken(n, p)
              /\ phase' = [phase EXCEPT ![n] = "settled"]
              /\ Consume(n)
              /\ UNCHANGED <<our_addr, candidate, picks, used, lookups>>
           \/ /\ ~CandidateTaken(n, p)
              /\ HandleAarpPacket(n, p)
              /\ UNCHANGED actor
        /\ UNCHANGED raced

\* probe_candidate returns true.
Free(n) ==
    /\ phase[n] = "testing" /\ Answered(n)
    /\ phase' = [phase EXCEPT ![n] = "adopting"]
    /\ UNCHANGED <<our_addr, candidate, picks, used, lookups, wire, raced>>

\* set_addr, a second command of acquire_in_range to the actor.
SetAddr(n) ==
    /\ phase[n] = "adopting"
    /\ phase' = [phase EXCEPT ![n] = "settled"]
    /\ our_addr' = [our_addr EXCEPT ![n] = candidate[n]]
    /\ UNCHANGED <<candidate, picks, used, lookups, wire, raced>>

-----------------------------------------------------------------------------
(* Resolution *)

\* lookup, for an address that is not cached (a negative entry may have expired): the
\* caller sends the actor a command, whatever the actor is doing, and waits.
Lookup(n, a) ==
    /\ phase[n] # "off" /\ cache[n][a] \notin Nodes /\ a \notin looking[n]
    /\ asked < MaxLookups /\ asked' = asked + 1
    /\ requests' = [requests EXCEPT ![n] = Append(@, a)]
    /\ looking' = [looking EXCEPT ![n] = @ \cup {a}]
    /\ UNCHANGED <<actor, pending, wire, raced>>

\* The main loop takes the command: a Request is broadcast and kept as pending.
HandleLookup(n) ==
    LET a == Head(requests[n])
    IN  /\ phase[n] \in {"settled", "adopting"} /\ requests[n] # <<>>
        /\ requests' = [requests EXCEPT ![n] = Tail(@)]
        /\ pending' = [pending EXCEPT ![n][a] = @ + 1]
        /\ Transmit(Packet("Request", n, our_addr[n], a), Others(n), queue, cache)
        /\ UNCHANGED <<actor, looking, asked, raced>>

\* The two seconds of a lookup run out, wherever its command or its answer is.
LookupTimeout(n, a) ==
    /\ a \in looking[n]
    /\ looking' = [looking EXCEPT ![n] = @ \ {a}]
    /\ cache' = [cache EXCEPT ![n][a] = "negative"]
    /\ UNCHANGED <<actor, requests, pending, asked, queue, lost, raced>>

\* learn: a datagram from m names an address that n knows no station for.
Learn(n, m) ==
    /\ m \in Others(n) /\ phase[n] # "off"
    /\ phase[m] \in {"settled", "testing", "adopting"}
    /\ cache[n][our_addr[m]] \notin Nodes
    /\ cache' = [cache EXCEPT ![n][our_addr[m]] = m]
    /\ UNCHANGED <<actor, lookups, queue, lost, raced>>

Next ==
    \E n \in Nodes :
        \/ Start(n) \/ HandleStartup(n) \/ Confirm(n) \/ Handle(n)
        \/ Acquire(n) \/ HandleTesting(n) \/ Free(n) \/ SetAddr(n)
        \/ HandleLookup(n)
        \/ \E a \in Addr : Lookup(n, a) \/ LookupTimeout(n, a)
        \/ \E m \in Nodes : Learn(n, m)

Spec == Init /\ [][Next]_vars

-----------------------------------------------------------------------------
(* Properties *)

\* Types of the state.  In it: a node settles on an address before it defends, resolves
\* or moves.
TypeOK ==
    /\ phase \in [Nodes -> Phases]
    /\ our_addr \in [Nodes -> Addr \cup {NoAddr}] /\ candidate \in [Nodes -> Addr \cup {NoAddr}]
    /\ \A n \in Nodes : our_addr[n] = NoAddr <=> phase[n] \in {"off", "probing"}
    /\ queue \in [Nodes -> Seq(PacketType)]
    /\ cache \in [Nodes -> [Addr -> Nodes \cup {"unknown", "negative"}]]
    /\ requests \in [Nodes -> Seq(Addr)] /\ pending \in [Nodes -> [Addr -> Nat]]
    /\ looking \in [Nodes -> SUBSET Addr] /\ used \in [Nodes -> SUBSET Addr]
    /\ picks \in [Nodes -> 0..MaxPicks]
    /\ asked \in 0..MaxLookups /\ lost \in 0..MaxLoss /\ raced \in BOOLEAN

Share(m, n) == m # n /\ our_addr[m] = our_addr[n] /\ our_addr[n] # NoAddr

\* acquire_in_range: two nodes end up with one address of the range only if a frame was
\* lost, or a Probe fell into the gap between probe_candidate's answer and set_addr.
UniqueInRange ==
    \A m, n \in Nodes :
        Share(m, n) /\ our_addr[n] \in NetRange => lost > 0 \/ raced

\* received_pkt, learn and handle_aarp_packet: a cached station is one that has probed for
\* that address, also where a Request for another network's node was answered.
CacheIsFirstHand ==
    \A n \in Nodes : \A a \in Addr :
        cache[n][a] \in Nodes => a \in used[cache[n][a]]

\* lookup: a caller that waits has a command the actor has yet to take or a request that a
\* Response can still answer, also when a late Response cleared what an earlier caller of
\* the same address left behind.
WaiterIsPending ==
    \A n \in Nodes : \A a \in looking[n] : Requested(n, a) \/ pending[n][a] > 0

=============================================================================
