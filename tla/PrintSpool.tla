----------------------------- MODULE PrintSpool -----------------------------
(***************************************************************************)
(* What a printer on the network promises whoever runs it: the log of what *)
(* reaches the port and the application.  The bytes of a connection are    *)
(* written in the order its client handed them out, none twice and none    *)
(* left out; a connection is reported before its first byte and its end    *)
(* after its last; an end of job is reported only where a job ended; and   *)
(* nothing of the printer's own (the self ID query) lands inside a job.    *)
(***************************************************************************)
EXTENDS Naturals, Sequences

CONSTANTS
    MaxConns,     \* connections, one after the other
    JobLen,       \* chunks in a job
    MaxJobs       \* jobs a client prints over one connection

VARIABLES
    handed,       \* handed[n]: chunks the client of connection n has handed out
    log           \* what was written to the port and reported, in order

spool == <<handed, log>>

Conns == 1 .. MaxConns

Item(k, n, i) == [kind |-> k, conn |-> n, num |-> i]

Query == Item("query", 0, 0)

Seen(l, k, n) == \E j \in DOMAIN l : l[j].kind = k /\ l[j].conn = n

(* Chunks of connection n that have come out, printed or taken as a name.  *)
Out(l, n) == {l[j].num : j \in {i \in DOMAIN l : l[i].conn = n /\ l[i].kind \in {"chunk", "rename"}}}

Live(l, n) == Seen(l, "start", n) /\ ~Seen(l, "end", n)

(* Whether the printer was queried since connection n was reported.        *)
Queried(l, n) ==
    \E i, j \in DOMAIN l : i < j /\ l[i] = Item("start", n, 0) /\ l[j] = Query

MayFollow(l, e) ==
    \/ e = Query
    \/ /\ e = Item("start", e.conn, 0)
       /\ ~Seen(l, "start", e.conn)
       /\ \A m \in Conns : ~Live(l, m)
    \/ /\ e.kind \in {"chunk", "rename"}
       /\ Live(l, e.conn)
       /\ ~Queried(l, e.conn)
       /\ e.num \in 1 .. handed[e.conn]
       /\ Out(l, e.conn) = 1 .. e.num - 1
       /\ e.kind = "rename" => (e.num - 1) % JobLen = 0
    \/ /\ e = Item("eof", e.conn, 0)
       /\ Live(l, e.conn)
       /\ \E o \in 1 .. handed[e.conn] : o % JobLen = 0 /\ Out(l, e.conn) = 1 .. o
    \/ /\ e = Item("end", e.conn, 0)
       /\ Live(l, e.conn)

SpoolInit ==
    /\ handed = [n \in Conns |-> 0]
    /\ log = <<>>

(* A client reads one more chunk of its source into a reply.               *)
Hand(n) ==
    /\ handed[n] < MaxJobs * JobLen
    /\ handed' = [handed EXCEPT ![n] = @ + 1]
    /\ UNCHANGED log

(* The port is written to, or the application told of an event.            *)
Emit ==
    /\ Len(log') > Len(log)
    /\ SubSeq(log', 1, Len(log)) = log
    /\ \A k \in (Len(log) + 1) .. Len(log') : MayFollow(SubSeq(log', 1, k - 1), log'[k])
    /\ UNCHANGED handed

SpoolNext == Emit \/ \E n \in Conns : Hand(n)

SpoolSpec == SpoolInit /\ [][SpoolNext]_spool
=============================================================================
