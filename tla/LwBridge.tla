------------------------------ MODULE LwBridge ------------------------------
(***************************************************************************)
(* The GUI's bridge from IPP printers to AppleTalk (lw_bridge.rs): an IPP  *)
(* printer found over mDNS is registered as a LaserWriter over NBP and     *)
(* served by a PapServer of its own.  Resolving one takes a spawned task   *)
(* seconds, during which the loop handles more events.                     *)
(*                                                                         *)
(* The services here all have one instance name, so an NBP name is only    *)
(* its number: 1 for the bare name, n for the name with the suffix n.  A   *)
(* socket is numbered by when it was opened, not by its DDP number, so     *)
(* that what a later printer reuses is told from what an earlier one had.  *)
(***************************************************************************)
EXTENDS Naturals, Sequences, FiniteSets, FiniteSetsExt

CONSTANTS
    Services,      \* IPP printers on the LAN
    Uris,          \* where a service may be
    Down,          \* not on the LAN
    None,
    MaxSuffix,     \* the highest suffix tried for a name, 99 in the code
    MaxEvents      \* changes of the LAN and failed lookups

(* A BridgedPrinter. *)
Printer == [uri : Uris \cup {Down}, name : Nat, sock : Nat]

ASSUME LwBridgeAssumption ==
    /\ Down \notin Uris /\ None \notin Printer
    /\ MaxSuffix \in Nat \ {0} /\ MaxEvents \in Nat

VARIABLES
    lan,           \* lan[s]: where the service is
    mdns,          \* events for the loop, in order
    tasks,         \* spawned resolutions
    results,       \* the channel of ResolvedPrinters
    printers,      \* the loop's table of BridgedPrinters
    bridged,       \* bridged_names: <<name, socket>>
    registered,    \* names registered with NBP, with what they stand for
    sockets,       \* DDP sockets given out
    raced,         \* services of which news came while a task resolved them
    lwEvents

lwVars == <<lan, mdns, tasks, results, printers, bridged, registered, sockets, raced, lwEvents>>

LwInit ==
    /\ lan = [s \in Services |-> Down]
    /\ mdns = <<>> /\ tasks = {} /\ results = <<>>
    /\ printers = [s \in Services |-> None]
    /\ bridged = {} /\ registered = {}
    /\ sockets = 0 /\ raced = {} /\ lwEvents = 0

-----------------------------------------------------------------------------
(* The LAN and mDNS, which are not part of this program. *)

Appear(s, u) ==
    /\ lan[s] # u /\ lwEvents < MaxEvents
    /\ lwEvents' = lwEvents + 1
    /\ lan' = [lan EXCEPT ![s] = u]
    /\ mdns' = Append(mdns, [is |-> "resolved", svc |-> s, uri |-> u])
    /\ UNCHANGED <<tasks, results, printers, bridged, registered, sockets, raced>>

Disappear(s) ==
    /\ lan[s] # Down /\ lwEvents < MaxEvents
    /\ lwEvents' = lwEvents + 1
    /\ lan' = [lan EXCEPT ![s] = Down]
    /\ mdns' = Append(mdns, [is |-> "removed", svc |-> s, uri |-> Down])
    /\ UNCHANGED <<tasks, results, printers, bridged, registered, sockets, raced>>

-----------------------------------------------------------------------------
(* The loop. *)

OnTheWay(s) == (\E t \in tasks : t.svc = s) \/ (\E i \in 1 .. Len(results) : results[i].svc = s)

(* Mutant: the name stays with NBP when the printer is forgotten. *)
RemovePrinterKeepsName(s) ==
    LET p == printers[s] IN
    IF p = None THEN UNCHANGED <<printers, bridged, registered>>
    ELSE /\ printers' = [printers EXCEPT ![s] = None]
         /\ bridged' = bridged \ {<<p.name, p.sock>>}
         /\ UNCHANGED registered

(* remove_printer: its server is aborted and its names are given up. *)
RemovePrinter(s) ==
    LET p == printers[s] IN
    IF p = None THEN UNCHANGED <<printers, bridged, registered>>
    ELSE /\ printers' = [printers EXCEPT ![s] = None]
         /\ registered' = {r \in registered : r.sock # p.sock}
         /\ bridged' = bridged \ {<<p.name, p.sock>>}

(* unique_nbp_name: the first name free, and no task when there is none. *)
UniqueName(taken) == IF 1 .. MaxSuffix \subseteq taken THEN {} ELSE {Min((1 .. MaxSuffix) \ taken)}

(* Services on the bridge's own host or without an IPv4 address are passed *)
(* over and never get here.                                                *)
ServiceResolved ==
    /\ mdns # <<>> /\ Head(mdns).is = "resolved"
    /\ LET ev == Head(mdns)
           known == printers[ev.svc] # None /\ printers[ev.svc].uri = ev.uri
           others == {s \in Services \ {ev.svc} : printers[s] # None} IN
       IF known THEN UNCHANGED <<printers, bridged, registered, tasks, raced>>
       ELSE /\ RemovePrinter(ev.svc)
            /\ tasks' = tasks \cup {[svc |-> ev.svc, uri |-> ev.uri, stage |-> "lookup", seen |-> {},
                                     id |-> sockets + Cardinality(tasks), sock |-> 0, suffix |-> 2,
                                     name |-> n] : n \in UniqueName({printers[s].name : s \in others})}
            /\ raced' = IF OnTheWay(ev.svc) THEN raced \cup {ev.svc} ELSE raced
    /\ mdns' = Tail(mdns)
    /\ UNCHANGED <<lan, results, sockets, lwEvents>>

ServiceRemoved ==
    /\ mdns # <<>> /\ Head(mdns).is = "removed"
    /\ RemovePrinter(Head(mdns).svc)
    /\ raced' = IF OnTheWay(Head(mdns).svc) THEN raced \cup {Head(mdns).svc} ELSE raced
    /\ mdns' = Tail(mdns)
    /\ UNCHANGED <<lan, tasks, results, sockets, lwEvents>>

(* A resolved printer takes the place of whatever the table had for it. *)
TakeResult ==
    /\ results # <<>>
    /\ LET r == Head(results) IN
       printers' = [printers EXCEPT ![r.svc] = [uri |-> r.uri, name |-> r.name, sock |-> r.sock]]
    /\ results' = Tail(results)
    /\ UNCHANGED <<lan, mdns, tasks, bridged, registered, sockets, raced, lwEvents>>

-----------------------------------------------------------------------------
(* A task: capabilities, a name nobody answers for, a socket, the name.    *)

Step(t, u) == tasks' = (tasks \ {t}) \cup {u}

(* The IPP query's failure only means defaults; it ends before this. *)
LookupName(t) ==
    LET holders == {r \in registered : r.name = t.name} IN
    /\ t.stage = "lookup"
    /\ \/ /\ holders = {}
          /\ Step(t, [t EXCEPT !.stage = "claim", !.seen = {r.sock : r \in registered}])
          /\ UNCHANGED lwEvents
       \/ /\ holders # {}
          /\ IF t.suffix > MaxSuffix THEN tasks' = tasks \ {t}
             ELSE Step(t, [t EXCEPT !.name = t.suffix, !.suffix = @ + 1])
          /\ UNCHANGED lwEvents
       \/ /\ lwEvents < MaxEvents /\ lwEvents' = lwEvents + 1
          /\ Step(t, [t EXCEPT !.stage = "claim"])
    /\ UNCHANGED <<lan, mdns, results, printers, bridged, registered, sockets, raced>>

ClaimName(t) ==
    /\ t.stage = "claim"
    /\ sockets' = sockets + 1
    /\ bridged' = bridged \cup {<<t.name, sockets + 1>>}
    /\ Step(t, [t EXCEPT !.stage = "register", !.sock = sockets + 1])
    /\ UNCHANGED <<lan, mdns, results, printers, registered, raced, lwEvents>>

RegisterName(t) ==
    /\ t.stage = "register"
    /\ registered' = registered \cup {[name |-> t.name, sock |-> t.sock, svc |-> t.svc,
                                       uri |-> t.uri, seen |-> t.seen]}
    /\ results' = Append(results, [svc |-> t.svc, uri |-> t.uri, name |-> t.name, sock |-> t.sock])
    /\ tasks' = tasks \ {t}
    /\ UNCHANGED <<lan, mdns, printers, bridged, sockets, raced, lwEvents>>

-----------------------------------------------------------------------------

LwNext ==
    \/ \E s \in Services : Disappear(s) \/ \E u \in Uris : Appear(s, u)
    \/ ServiceResolved \/ ServiceRemoved \/ TakeResult
    \/ \E t \in tasks : LookupName(t) \/ ClaimName(t) \/ RegisterName(t)

LwSpec == LwInit /\ [][LwNext]_lwVars

(* A printer offered over AppleTalk is one the bridge knows it offers, and *)
(* its service is where it was found unless news of it is still to be      *)
(* handled; the exception is a service of which news was handled while a   *)
(* task was resolving it, for the loop does not stop the task.             *)
Known == \A r \in registered : r.svc \in raced \/
    LET news == \E i \in 1 .. Len(mdns) : mdns[i].svc = r.svc
        entry == printers[r.svc] IN
    /\ \/ entry # None /\ entry.sock = r.sock
       \/ \E i \in 1 .. Len(results) : results[i].sock = r.sock
    /\ lan[r.svc] = r.uri \/ news

(* Two printers are offered under one name only when each looked the name  *)
(* up before the other had registered it.                                  *)
NamesDistinct == \A r, q \in registered : r # q /\ r.name = q.name => q.sock \notin r.seen

(* Together: what NBP answers for the bridge is what the bridge offers.    *)
Offered == Known /\ NamesDistinct
=============================================================================
