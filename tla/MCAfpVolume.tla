---------------------------- MODULE MCAfpVolume ----------------------------
(* Each behaviour is about one of two things, so that their states add up  *)
(* instead of multiplying: two sessions with fewer nodes and objects, or    *)
(* one session with files, directories and comments only.                   *)
EXTENDS AfpServer, TLC

CONSTANT Together  \* objects, and nodes the two hold between them, their roots aside

VARIABLE focus

MCInit == VolumeInit /\ focus \in {"together"} \cup Sessions

MCNext ==
    /\ AfpNext /\ UNCHANGED focus
    /\ IF focus = "together"
       THEN /\ nextObj' <= Together + 1
            /\ \A s, t \in Sessions : s # t => cat'[s].next + cat'[t].next <= 2 * (Root + 1) + Together
       ELSE /\ \A s \in Sessions \ {focus} : cat'[s] = cat[s]
            /\ cat'[focus].cache = Empty /\ appls' = appls /\ sidecar' = sidecar

MCSpec == MCInit /\ [][MCNext]_<<afpVars, focus>>

\* Neither the sessions nor the names differ.
Alike == Permutations(Sessions) \cup Permutations(Names)
=============================================================================
