------------------------------ MODULE MCBridges ----------------------------
(* Each behaviour is about one of three things, so that their states add   *)
(* up instead of multiplying: Macs printing to a bridged printer, which    *)
(* may go meanwhile; the names the two bridges find and publish; the jobs  *)
(* of IPP clients.                                                         *)
EXTENDS PapServer, IppBridge

VARIABLE focus

MCScripts == <<
    \* a driver that ends no query with an eof, and closes without one
    <<[text |-> <<"query", "begin", "list">>, eof |-> FALSE],
      [text |-> <<"loose", "print", "eps", "trailer">>, eof |-> FALSE]>>,
    \* a query, a prologue and a document that needs it
    <<[text |-> <<"query", "begin", "end", "trailer">>, eof |-> TRUE],
      [text |-> <<"prologue", "body">>, eof |-> TRUE],
      [text |-> <<"print", "needs">>, eof |-> TRUE]>>,
    \* a document without a header, and the empty job PapClient drains with;
    \* or a document that needs a prologue this connection never sent
    <<[text |-> <<"body", "needs">>, eof |-> TRUE], [text |-> <<>>, eof |-> TRUE]>> >>

vars == <<papVars, lwVars, ippVars, focus>>

Init ==
    /\ PapInit /\ driver["n"].script = 3
    /\ LwInit /\ IppInit
    /\ \/ focus = "macs"
       \/ /\ focus \in {"names", "jobs"}
          /\ sink.kind = "forward" /\ driver["m"].script = 3

PrinterRemoved ==
    /\ focus = "macs" /\ srv.phase # "stopped" /\ faults < MaxFaults
    /\ Abort
    /\ UNCHANGED <<lwVars, ippVars, focus>>

MacStep(A) == focus = "macs" /\ A /\ UNCHANGED <<lwVars, ippVars, focus>>
NameStep(A) == focus = "names" /\ A /\ UNCHANGED <<papVars, focus>>
JobStep(A) == focus = "jobs" /\ A /\ UNCHANGED <<papVars, lwVars, focus>>

(* To bound the names' states: a service comes up at "u" and may move to   *)
(* "v", and every device hears every lookup.                               *)
AppearsAtU == \A s \in Services : lan[s] = Down => lan'[s] # "v"

Next ==
    \/ MacStep(PapNext) \/ PrinterRemoved
    \/ NameStep(LwNext /\ AppearsAtU /\ UNCHANGED ippVars)
    \/ NameStep(Discovery /\ rounds' = rounds /\ UNCHANGED lwVars)
    \/ JobStep(IppNext)

Spec == Init /\ [][Next]_vars
=============================================================================
