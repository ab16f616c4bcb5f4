------------------------------ MODULE MCLocalTalk ---------------------------
(* Each behaviour is about one of two things, so that their states add up   *)
(* instead of multiplying: the host's calls while frames, routers and the   *)
(* adapter are lost, or the host's number being set again, and no calls.    *)
EXTENDS LocalTalk

VARIABLE focus

MCInit == Init /\ focus \in {"calls", "numbers"}

MCNext ==
    /\ Next /\ UNCHANGED focus
    /\ IF focus = "calls" THEN d'.node = d.node ELSE calls' = calls

MCSpec ==
    /\ MCInit /\ [][MCNext]_<<vars, focus>>
    /\ WF_vars(NbpActor) /\ WF_vars(EchoActor) /\ WF_vars(Outbound)
=============================================================================
