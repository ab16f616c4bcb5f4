-------------------------------- MODULE MCAdsp --------------------------------
(* Model-checking instance of Adsp.  What the two ends write is one of two     *)
(* things, so that their states add up instead of multiplying: bytes from both *)
(* ends, or messages from the first, some too long for the second, which reads *)
(* whole messages.                                                             *)
EXTENDS Adsp

VARIABLE writing

MCInit == AdspInit /\ writing \in {"bytes", "messages"}

Allowed ==
    \/ /\ writing = "bytes" /\ \A e \in Ends : NoMarks(sent'[e])
       /\ Len(sent'[1]) \in {0, 2, 4} /\ Len(sent'[2]) \in {0, 1}
    \/ writing = "messages" /\ sent'[2] = <<>>

MCSpec == MCInit /\ [][AdspNext /\ Allowed /\ UNCHANGED writing]_<<adspVars, writing>> /\ WF_adspVars(Work)
===============================================================================
