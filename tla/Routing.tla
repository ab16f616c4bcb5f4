------------------------------ MODULE Routing ------------------------------
(***************************************************************************)
(* How a host learns the networks around it and how the processes behind a   *)
(* daemon learn them from it: the RTMP listener and the ZIP client, which     *)
(* fill the routing table of the host, and the copies of that table its       *)
(* clients keep, which the daemon replaces whenever it announces a change.    *)
(*                                                                            *)
(* The stream between the daemon and a client keeps its order, and the reader *)
(* applies an announcement at once; the reply to list_routes is handed to the *)
(* task that asked, which applies it later.  Routers are part of the network. *)
(***************************************************************************)
EXTENDS RouteTable, FiniteSets

CONSTANTS Routers,         \* the routers, each on one cable
          CableOf(_),      \* "ET" or "LT"
          Configs(_),      \* what a router is set up with, its cable's range and zone, first and later
          Tuples(_),       \* the route tuples it may broadcast besides its own
          Clients,         \* the processes behind the daemon
          Changes,         \* what their programs may do to the table
          GniMaxAttempts,  \* GNI_MAX_ATTEMPTS
          RoutingEvents,       \* bound on broadcasts heard, routers set up anew, programs' changes,
                           \* lost datagrams and expired routes, together
          NoSeed

ASSUME RoutingBounds == GniMaxAttempts \in Nat \ {0} /\ RoutingEvents \in Nat
ASSUME RoutersOnCables == \A r \in Routers : CableOf(r) \in {"ET", "LT"}

\* A range that a router or a program names begins no later than it ends; nothing checks that.
RangeType == {x \in Nat \X Nat : x[1] <= x[2]}
ASSUME RangesOrdered ==
    /\ \A r \in Routers : /\ Configs(r) \in Seq([range : RangeType, zone : STRING]) \ {<<>>}
                          /\ Tuples(r) \subseteq Seq([range : RangeType, gone : BOOLEAN])
    /\ \A ch \in Changes : /\ ch.op \in {"insert", "remove", "zone", "unzone", "local"}
                           /\ ch.op # "unzone" => ch.range \in RangeType

VARIABLES host,      \* the host's routing table
          addr,      \* the network number of its address on each cable
          seen,      \* the cables a router was heard on
          zip,       \* attempts left, and the cables whose router made a task wait in refresh
          asked,     \* how many GetNetInfo requests, or replies to them, are on their way for each router
          told,      \* routers whose ZIP Notify is on its way
          setup,     \* what each router is set up with
          due,       \* the host's table changed and the daemon has not announced it
          stage, seed, cache, up,   \* each client: its start, the reply it got, its table, its changes to send
          events,    \* the bound used up
          unheard,   \* history: losses on each router in this round; GniMaxAttempts: it is not asked again
          missed,    \* history: the host's snapshot changed without an announcement
          stale      \* history: clients whose reply overtook an announcement

network   == <<asked, told, setup>>
learn == <<host, addr, seen, zip, due, missed>>
procs == <<stage, seed, cache, up, stale>>
lost  == <<events, unheard>>
routingVars  == <<network, learn, procs, lost>>

RoutingInit ==
    /\ host = EmptyTable
    /\ addr = [c \in {"ET", "LT"} |-> 0]
    /\ seen = {}
    /\ zip = [attempts |-> GniMaxAttempts, waiters |-> {}]
    /\ setup = [r \in Routers |-> Head(Configs(r))]
    /\ asked = [r \in Routers |-> 1] /\ told = {}
    /\ due = FALSE
    /\ stage = [c \in Clients |-> "new"]
    /\ seed = [c \in Clients |-> NoSeed]
    /\ cache = [c \in Clients |-> EmptyTable]
    /\ up = [c \in Clients |-> <<>>]
    /\ events = 0
    /\ unheard = [r \in Routers |-> 0]
    /\ missed = FALSE
    /\ stale = {}

Spend == events < RoutingEvents /\ events' = events + 1

\* The host's table becomes t, announced or not.
Becomes(t, announced) ==
    /\ host' = t
    /\ due' = (due \/ announced)
    /\ missed' = (~announced /\ (missed \/ Snapshot(t) # Snapshot(host)))

\* GetNetInfo goes out on every cable.
SendRequest == asked' = [r \in Routers |-> asked[r] + 1]

StartDiscovery(waiters) ==
    /\ zip' = [attempts |-> GniMaxAttempts, waiters |-> waiters]
    /\ SendRequest
    /\ unheard' = [r \in Routers |-> 0]

-----------------------------------------------------------------------------
(* RTMP. *)

\* The range a broadcast tells of its own cable: LocalTalk has one network number.
LocalCableRange(r) == setup[r].range

\* A LocalTalk host takes the network number on; an EtherTalk one leaves that to ZIP.
LearnLocalCable(r) ==
    addr' = IF CableOf(r) = "LT" THEN [addr EXCEPT !["LT"] = LocalCableRange(r)[1]] ELSE addr

\* tuples_for_route_table: what a broadcast announces, and what it withdraws.
Announces(ts) == {i \in DOMAIN ts : ~ts[i].gone}
Withdrawn(ts) == {ts[i].range : i \in DOMAIN ts \ Announces(ts)}
RemoveRoutes(t, ranges) == [t EXCEPT !.routes = {e \in @ : <<e.lo, e.hi>> \notin ranges}]

\* handle_rtmp: the tuples of one broadcast are inserted in order, so that what stays is clear of
\* every tuple after it; and whether one of them is news.
HandleRtmp(t, r, ts) ==
    LET new(i) == Route(ts[i].range, r, CableOf(r), "live")
        last == {i \in Announces(ts) : \A j \in Announces(ts) : j > i => Clear(new(i), ts[j].range)}
    IN  [t EXCEPT !.routes = {e \in @ : \A i \in Announces(ts) : Clear(e, ts[i].range)} \cup {new(i) : i \in last}]
News(t, r, ts) ==
    \E i \in Announces(ts) : ~Refreshes(HandleRtmp(t, r, SubSeq(ts, 1, i - 1)), ts[i].range, r)

\* A broadcast of r: its cable, itself as the A-Router, the routes it withdraws and those it has.
\* For the first one heard on a cable it starts a task that waits in refresh.
Beat(r) ==
    \E ts \in Tuples(r) :
        LET all == <<[range |-> setup[r].range, gone |-> FALSE]>> \o ts
            t1 == SetLocal(host, CableOf(r), LocalCableRange(r))
            t2 == NoteRouter(t1, r, CableOf(r))
            t3 == RemoveRoutes(t2, Withdrawn(all))
        IN  /\ Becomes(HandleRtmp(t3, r, all), t1 # host \/ Withdrawn(all) # {} \/ News(t3, r, all))
            /\ LearnLocalCable(r)
            /\ seen' = seen \cup {CableOf(r)}
            /\ IF CableOf(r) \in seen THEN UNCHANGED <<zip, asked, unheard>> ELSE StartDiscovery(zip.waiters \cup {CableOf(r)})
            /\ Spend
            /\ UNCHANGED <<told, setup, procs>>

\* A learned route, or the A-Router, is not heard of for its time to live.
Expire ==
    /\ Spend
    /\ \/ \E e \in host.routes : e.ttl = "live" /\ Becomes([host EXCEPT !.routes = (@ \ {e}) \cup {[e EXCEPT !.ttl = "expired"]}], FALSE)
       \/ LiveRouter(host) # {} /\ Becomes([host EXCEPT !.router.ttl = "expired"], FALSE)
    /\ UNCHANGED <<addr, seen, zip, network, procs, unheard>>

PurgeExpired ==
    /\ Purge(host) # host
    /\ Becomes(Purge(host), FALSE)
    /\ UNCHANGED <<addr, seen, zip, network, procs, lost>>

-----------------------------------------------------------------------------
(* ZIP. *)

\* The retry timer: the last attempt releases whoever waits.
TickOnce ==
    /\ zip.attempts > 0
    /\ zip' = [zip EXCEPT !.attempts = @ - 1, !.waiters = IF zip.attempts = 1 THEN {} ELSE @]
    /\ UNCHANGED <<asked, host, addr, seen, due, missed, told, setup, procs, lost>>

Tick ==
    /\ zip.attempts > 0
    /\ zip' = [zip EXCEPT !.attempts = @ - 1, !.waiters = IF zip.attempts = 1 THEN {} ELSE @]
    /\ IF zip.attempts > 1 THEN SendRequest ELSE UNCHANGED asked
    /\ UNCHANGED <<host, addr, seen, due, missed, told, setup, procs, lost>>

HandleNotify(r) ==
    /\ r \in told
    /\ told' = told \ {r}
    /\ StartDiscovery(zip.waiters)
    /\ UNCHANGED <<host, addr, seen, due, missed, setup, procs, events>>

\* An address in the range: a LocalTalk host takes the number, an EtherTalk one probes for it.
Adopt(iface, range) ==
    IF Covers(range, addr[iface]) THEN UNCHANGED addr
    ELSE IF iface = "LT" THEN addr' = [addr EXCEPT !["LT"] = range[1]]
    ELSE \E n \in range[1]..range[2] : addr' = [addr EXCEPT !["ET"] = n]

\* A reply describes the cable it came in on.  It ends the round, for every cable.
HandleReply(r) ==
    /\ asked[r] > 0 /\ asked' = [asked EXCEPT ![r] = @ - 1]
    /\ Adopt(CableOf(r), setup[r].range)
    /\ Becomes(InsertZone(SetLocal(host, CableOf(r), setup[r].range), setup[r].zone, setup[r].range), TRUE)
    /\ zip' = [zip EXCEPT !.attempts = 0, !.waiters = {}]
    /\ unheard' = [q \in Routers |-> IF unheard[q] > 0 /\ asked'[q] = 0 THEN GniMaxAttempts ELSE unheard[q]]
    /\ UNCHANGED <<seen, told, setup, procs, events>>

-----------------------------------------------------------------------------
(* The routers and the network. *)

\* A router is set up anew and says so.
Reconfigure(r) ==
    /\ Spend
    /\ \E i \in DOMAIN Configs(r) : Configs(r)[i] # setup[r] /\ setup' = [setup EXCEPT ![r] = Configs(r)[i]]
    /\ told' = told \cup {r}
    /\ UNCHANGED <<asked, learn, procs, unheard>>

Lose(r) ==
    /\ Spend
    /\ asked[r] > 0 /\ asked' = [asked EXCEPT ![r] = @ - 1]
    /\ unheard' = [unheard EXCEPT ![r] = IF (zip.attempts = 0 /\ asked[r] = 1) \/ @ = GniMaxAttempts THEN GniMaxAttempts ELSE @ + 1]
    /\ UNCHANGED <<told, setup, learn, procs>>

-----------------------------------------------------------------------------
(* The daemon and its clients. *)

AnnounceRunning ==
    /\ due /\ due' = FALSE
    /\ cache' = [c \in Clients |-> IF stage[c] = "running" THEN ReplaceContents(Snapshot(host)) ELSE cache[c]]
    /\ UNCHANGED <<host, addr, seen, zip, missed, network, stage, seed, up, stale, lost>>

\* One snapshot announces whatever changed since the last one, and every connected client's reader
\* replaces its copy.  A session sends announcements in order, and one that lagged behind sends the
\* table as it is: the announcements on their way end with this one.
Announce ==
    /\ due /\ due' = FALSE
    /\ cache' = [c \in Clients |-> IF stage[c] # "new" THEN ReplaceContents(Snapshot(host)) ELSE cache[c]]
    /\ stale' = {c \in Clients : stage[c] = "seeded"}
    /\ UNCHANGED <<host, addr, seen, zip, missed, network, stage, seed, up, lost>>

\* A client connects, registers its copy and asks for the routes.
ListRoutes(c) ==
    /\ stage[c] = "new"
    /\ stage' = [stage EXCEPT ![c] = "seeded"]
    /\ seed' = [seed EXCEPT ![c] = Snapshot(host)]
    /\ UNCHANGED <<learn, network, cache, up, stale, lost>>

ApplySeed(c) ==
    /\ stage[c] = "seeded"
    /\ stage' = [stage EXCEPT ![c] = "running"]
    /\ cache' = [cache EXCEPT ![c] = ReplaceContents(seed[c])]
    /\ seed' = [seed EXCEPT ![c] = NoSeed]
    /\ UNCHANGED <<learn, network, up, stale, lost>>

Apply(t, ch) ==
    CASE ch.op = "insert" -> Insert(t, ch.range, ch.hop, ch.iface, "never")
      [] ch.op = "remove" -> DeleteRoute(t, ch.range)
      [] ch.op = "zone" -> InsertZone(t, ch.zone, ch.range)
      [] ch.op = "unzone" -> RemoveZone(t, ch.zone)
      [] ch.op = "local" -> SetLocal(t, "ET", ch.range)

Announced(t, ch) ==
    CASE ch.op = "insert" -> ~Refreshes(t, ch.range, ch.hop)
      [] ch.op = "local" -> SetLocal(t, "ET", ch.range) # t
      [] OTHER -> TRUE

\* A program changes its copy; what it does not know already is sent to the daemon.
Change(c, ch) ==
    /\ stage[c] = "running" /\ Spend
    /\ cache' = [cache EXCEPT ![c] = Apply(@, ch)]
    /\ up' = IF Announced(cache[c], ch) THEN [up EXCEPT ![c] = Append(@, ch)] ELSE up
    /\ UNCHANGED <<learn, network, stage, seed, stale, unheard>>

ApplyRouteChange(c) ==
    /\ up[c] # <<>>
    /\ up' = [up EXCEPT ![c] = Tail(@)]
    /\ Becomes(Apply(host, Head(up[c])), Announced(host, Head(up[c])))
    /\ UNCHANGED <<addr, seen, zip, network, stage, seed, cache, stale, lost>>

-----------------------------------------------------------------------------
ZipActor == Tick \/ \E r \in Routers : HandleNotify(r) \/ HandleReply(r)
Sync == Announce \/ \E c \in Clients : ListRoutes(c) \/ ApplySeed(c) \/ ApplyRouteChange(c)

RoutingNext ==
    \/ ZipActor \/ Sync \/ Expire \/ PurgeExpired
    \/ \E r \in Routers : Beat(r) \/ Reconfigure(r) \/ Lose(r)
    \/ \E c \in Clients, ch \in Changes : Change(c, ch)

RoutingSpec == RoutingInit /\ [][RoutingNext]_routingVars

\* The actor's timer ticks and its socket is read; a router answers a request that reaches it.
RoutingFairSpec == RoutingSpec /\ WF_routingVars(ZipActor)

-----------------------------------------------------------------------------
\* Type correctness of the table, the ZIP client and the clients' stages.
RoutingTypeOK ==
    /\ zip \in [attempts : 0..GniMaxAttempts, waiters : SUBSET {"ET", "LT"}]
    /\ \A e \in host.routes : e.hop \in Routers /\ e.ttl \in {"never", "live", "expired"}
    /\ stage \in [Clients -> {"new", "seeded", "running"}]

Nets == UNION {e.lo .. e.hi : e \in host.routes \cup UNION {cache[c].routes : c \in Clients}}

\* The table answers for every network a live route covers, in the host and in every client: the
\* search looks at one route only, which is right as long as no route lies across another.
LookupFindsRoute ==
    \A t \in {host} \cup {cache[c] : c \in Clients} : \A net \in Nets :
        (\E e \in Live(t.routes) : Covers(<<e.lo, e.hi>>, net)) => Lookup(t, net) # {}

\* Nothing is left to announce, to send or to apply for c.
Settled(c) == stage[c] = "running" /\ ~due /\ up[c] = <<>>

\* The A-Router is known by its broadcasts only.
SilentRouter == \E r \in LiveRouter(host) : r.addr \notin NextHops(host)

\* Once nothing is on its way, a client sends its lookups to the routers the host would: unless the
\* host's table changed and that was not announced, the client's first reply overtook an
\* announcement, or the host knows a router that announces no route.
DispatchAgrees ==
    \A c \in Clients : Settled(c) =>
        \/ missed \/ c \in stale \/ SilentRouter
        \/ \A z \in {"*"} \cup {zr[1] : zr \in host.zones} : NbpDispatch(cache[c], z) = NbpDispatch(host, z)

\* A lost request or answer does not cost a cable its zone: in the end the host knows the zone of
\* every router, unless another cable's answer ended the round, or every attempt of it was lost.
ZonesLearned ==
    \A r \in Routers : <>[](<<setup[r].zone, setup[r].range>> \in host.zones \/ unheard[r] = GniMaxAttempts)
=============================================================================
