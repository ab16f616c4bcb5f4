----------------------------- MODULE RouteTable -----------------------------
(***************************************************************************)
(* The routing table of a host (tailtalk/src/route_table.rs): what a router  *)
(* taught it or a program wrote into it, and the questions DDP and NBP ask.  *)
(* A route keeps the clock only as whether its time is over: ttl is "never"  *)
(* for a route a program wrote, "live" or "expired" for one it learned.      *)
(***************************************************************************)
EXTENDS Integers, Sequences, SequencesExt

CONSTANTS NoRange, NoRouter

EmptyTable == [routes |-> {}, router |-> NoRouter, local |-> <<>>, zones |-> {}]

Route(range, hop, iface, ttl) == [lo |-> range[1], hi |-> range[2], hop |-> hop, iface |-> iface, ttl |-> ttl]
Covers(range, net) == range[1] <= net /\ net <= range[2]
Live(routes) == {e \in routes : e.ttl # "expired"}

Elsewhere(e, range) == <<e.lo, e.hi>> # range

\* A route takes the place of every route it overlaps.
Clear(e, range) == e.hi < range[1] \/ e.lo > range[2]
Insert(t, range, hop, iface, ttl) ==
    [t EXCEPT !.routes = {e \in @ : Clear(e, range)} \cup {Route(range, hop, iface, ttl)}]

\* A route already there, whatever its time and its cable, is refreshed and not announced.
Refreshes(t, range, hop) == \E e \in t.routes : <<e.lo, e.hi>> = range /\ e.hop = hop

DeleteRoute(t, range) == [t EXCEPT !.routes = {e \in @ : <<e.lo, e.hi>> # range}]

\* One local range per interface, the first to be learned first.
SetLocal(t, iface, range) ==
    LET At == {i \in DOMAIN t.local : t.local[i].iface = iface} IN
    [t EXCEPT !.local = IF At = {} THEN Append(@, [iface |-> iface, range |-> range])
                        ELSE [i \in DOMAIN @ |-> IF i \in At THEN [@[i] EXCEPT !.range = range] ELSE @[i]]]

InsertZone(t, zone, range) == [t EXCEPT !.zones = @ \cup {<<zone, range>>}]
RemoveZone(t, zone) == [t EXCEPT !.zones = {z \in @ : z[1] # zone}]
NoteRouter(t, router, iface) == [t EXCEPT !.router = [addr |-> router, iface |-> iface, ttl |-> "live"]]

Purge(t) ==
    [t EXCEPT !.routes = Live(@), !.router = IF @ # NoRouter /\ @.ttl = "expired" THEN NoRouter ELSE @]

\* What goes over the daemon's API, and what a client makes of it: its one local range is EtherTalk's.
Snapshot(t) ==
    [local |-> IF t.local = <<>> THEN NoRange ELSE t.local[1].range,
     routes |-> {[e EXCEPT !.ttl = "never"] : e \in Live(t.routes)},
     zones |-> t.zones]

ReplaceContents(s) ==
    [routes |-> s.routes, router |-> NoRouter, zones |-> s.zones,
     local |-> IF s.local = NoRange THEN <<>> ELSE <<[iface |-> "ET", range |-> s.local]>>]

-----------------------------------------------------------------------------
(* Queries. *)

\* The search stops at the last route that starts at or before net.
Lookup(t, net) ==
    LET Below == {e \in t.routes : e.lo <= net}
        Nearest == {e \in Below : \A f \in Below : f.lo <= e.lo}
    IN  {e \in Nearest : net <= e.hi /\ e.ttl # "expired"}

LocalRangeFor(t, net) == SelectSeq(t.local, LAMBDA l : Covers(l.range, net))
LiveRouter(t) == IF t.router = NoRouter THEN {} ELSE {r \in {t.router} : r.ttl # "expired"}

\* The next hop for a network: itself on a local cable, a route's router, or the A-Router.
RouteFor(t, net) ==
    IF LocalRangeFor(t, net) # <<>> THEN {[hop |-> NoRouter, iface |-> LocalRangeFor(t, net)[1].iface]}
    ELSE IF Lookup(t, net) # {} THEN {[hop |-> e.hop, iface |-> e.iface] : e \in Lookup(t, net)}
    ELSE {[hop |-> r.addr, iface |-> r.iface] : r \in LiveRouter(t)}

InterfaceForNet(t, net) == {h.iface : h \in RouteFor(t, net)}
HasRouter(t) == Live(t.routes) # {} \/ LiveRouter(t) # {}
NextHops(t) == {e.hop : e \in Live(t.routes)}
AllRouters(t) == NextHops(t) \cup {r.addr : r \in LiveRouter(t)}
RoutersForZone(t, zone) == {e.hop : e \in UNION {Lookup(t, z[2][1]) : z \in {z \in t.zones : z[1] = zone}}}

\* The routers a request for a zone may go to; none: it is broadcast on the local cables.
NbpDispatch(t, zone) ==
    IF zone # "*" /\ RoutersForZone(t, zone) # {} THEN RoutersForZone(t, zone) ELSE AllRouters(t)

ZonesOn(t, iface) == {z[1] : z \in {z \in t.zones : \E i \in DOMAIN t.local :
                                        t.local[i].iface = iface /\ t.local[i].range = z[2]}}
=============================================================================
