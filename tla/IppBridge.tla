------------------------------ MODULE IppBridge -----------------------------
(***************************************************************************)
(* The GUI's bridge from AppleTalk printers to IPP (ipp_bridge.rs):        *)
(* printers found over NBP are published over mDNS, and a Print-Job        *)
(* request becomes a job printed over PAP or a StyleWriter session.  It    *)
(* must not publish the printers LwBridge registers, nor forget a printer  *)
(* that misses a lookup because it is busy with a job.                     *)
(***************************************************************************)
EXTENDS LwBridge, SequencesExt

CONSTANTS
    Devices,       \* AppleTalk printers
    StyleWriters,  \* those driven over ADSP
    ImageWriters,  \* those asked for their status before a job
    Jobs,          \* Print-Job requests
    MaxRounds      \* lookups after which a device may go unheard or a lookup fail

ASSUME IppBridgeAssumption ==
    /\ StyleWriters \subseteq Devices /\ ImageWriters \subseteq Devices
    /\ StyleWriters \cap ImageWriters = {}
    /\ Devices \cap (Nat \X Nat) = {}   \* a device is not one of our own names
    /\ IsFiniteSet(Jobs)
    /\ MaxRounds \in Nat

VARIABLES
    exported,      \* the table of published printers
    round,         \* the discovery in progress
    serving,       \* has the first discovery ended
    job,           \* job[j]: a request, its JobRecord and the task printing it
    active,        \* ActivePrinters: jobs in flight for a printer
    grace,         \* printers within PRUNE_GRACE of their last job
    jobLock,       \* jobLock[d]: who holds and who waits for the printer's lock
    unguarded,     \* printers pruned between a job's arrival and its guard
    rounds

ippVars == <<exported, round, serving, job, active, grace, jobLock, unguarded, rounds>>

NoRound == [stage |-> "idle", found |-> {}, todo |-> {}]

IppInit ==
    /\ exported = {} /\ round = NoRound /\ serving = FALSE
    /\ job = [j \in Jobs |-> [stage |-> "none", on |-> None]]
    /\ active = [d \in Devices |-> 0]
    /\ grace = {} /\ unguarded = {} /\ rounds = 0
    /\ jobLock = [d \in Devices |-> <<>>]

-----------------------------------------------------------------------------
(* Discovery. *)

Names == {<<r.name, r.sock>> : r \in registered}

(* One batch of NBP lookups; a device may not answer, and our own stack    *)
(* answers for what LwBridge registered.  A failed batch ends the round    *)
(* with every registration kept.                                           *)
LookUp ==
    /\ round.stage = "idle"
    /\ \/ \E heard \in SUBSET Devices :
            /\ heard = Devices \/ rounds < MaxRounds
            /\ rounds' = IF heard = Devices THEN rounds ELSE rounds + 1
            /\ round' = [stage |-> "looked", found |-> heard \cup Names, todo |-> {}]
            /\ UNCHANGED serving
       \/ /\ rounds < MaxRounds /\ rounds' = rounds + 1
          /\ serving' = TRUE
          /\ UNCHANGED round
    /\ UNCHANGED <<exported, job, active, grace, jobLock, unguarded>>

Protected(d) == d \in Devices /\ (active[d] > 0 \/ d \in grace)

(* Mutant: what was found is published without a look at bridged_names. *)
PruneBridgedToo ==
    LET found == round.found
        kept == {p \in exported : p \in found \/ Protected(p)} IN
    /\ round.stage = "looked"
    /\ exported' = kept
    /\ round' = [round EXCEPT !.stage = "register", !.todo = found \ kept]
    /\ unguarded' = unguarded \cup ({job[j].on : j \in {i \in Jobs : job[i].stage = "posted"}} \ kept)
    /\ UNCHANGED <<serving, job, active, grace, jobLock, rounds>>

(* Names LwBridge registered are dropped, vanished printers are pruned.    *)
Prune ==
    LET found == round.found \ bridged
        kept == {p \in exported : p \in found \/ Protected(p)} IN
    /\ round.stage = "looked"
    /\ exported' = kept
    /\ round' = [round EXCEPT !.stage = "register", !.todo = found \ kept]
    /\ unguarded' = unguarded \cup ({job[j].on : j \in {i \in Jobs : job[i].stage = "posted"}} \ kept)
    /\ UNCHANGED <<serving, job, active, grace, jobLock, rounds>>

(* A printer is asked what it can do.  Without an answer the capabilities  *)
(* are guessed, but for a StyleWriter, busy or silent, which is left for   *)
(* the next round.                                                         *)
MayWait(p) == p \in StyleWriters

Publish ==
    /\ round.stage = "register" /\ round.todo # {}
    /\ \E p \in round.todo :
         /\ round' = [round EXCEPT !.todo = @ \ {p}]
         /\ \/ exported' = exported \cup {p} /\ unguarded' = unguarded \ {p}
            \/ MayWait(p) /\ UNCHANGED <<exported, unguarded>>
    /\ UNCHANGED <<serving, job, active, grace, jobLock, rounds>>

RoundEnds ==
    /\ round.stage = "register" /\ round.todo = {}
    /\ round' = NoRound
    /\ serving' = TRUE
    /\ UNCHANGED <<exported, job, active, grace, jobLock, unguarded, rounds>>

-----------------------------------------------------------------------------
(* Jobs. *)

(* handle_ipp finds the printer, then waits for the table of jobs. *)
PrintJob(j, d) ==
    /\ serving /\ d \in exported /\ job[j].stage = "none"
    /\ job' = [job EXCEPT ![j] = [stage |-> "posted", on |-> d]]
    /\ UNCHANGED <<exported, round, serving, active, grace, jobLock, unguarded, rounds>>

BeginPrinting(j) ==
    /\ job[j].stage = "posted"
    /\ job' = [job EXCEPT ![j].stage = "rasterizing"]
    /\ active' = [active EXCEPT ![job[j].on] = @ + 1]
    /\ grace' = grace \ {job[j].on}
    /\ UNCHANGED <<exported, round, serving, jobLock, unguarded, rounds>>

(* The task ends: the lock is released and the guard dropped. *)
Over(j, state) ==
    LET d == job[j].on IN
    /\ job' = [job EXCEPT ![j].stage = state]
    /\ active' = [active EXCEPT ![d] = @ - 1]
    /\ grace' = IF active[d] = 1 THEN grace \cup {d} ELSE grace
    /\ jobLock' = [jobLock EXCEPT ![d] = SelectSeq(@, LAMBDA i : i # j)]

(* Ghostscript fails, or an ImageWriter is not ready or its page is blank. *)
Rasterize(j) ==
    /\ job[j].stage = "rasterizing"
    /\ \/ /\ job' = [job EXCEPT ![j].stage = "waiting"]
          /\ jobLock' = [jobLock EXCEPT ![job[j].on] = Append(@, j)]
          /\ UNCHANGED <<active, grace>>
       \/ Over(j, "aborted")
    /\ UNCHANGED <<exported, round, serving, unguarded, rounds>>

(* Its turn; an ImageWriter is asked again whether it is ready. *)
StartPrinting(j) ==
    /\ job[j].stage = "waiting" /\ Head(jobLock[job[j].on]) = j
    /\ \/ /\ job' = [job EXCEPT ![j].stage = "printing"]
          /\ UNCHANGED <<active, grace, jobLock>>
       \/ job[j].on \in ImageWriters /\ Over(j, "aborted")
    /\ UNCHANGED <<exported, round, serving, unguarded, rounds>>

(* print_to_pap and its kin return. *)
PrintEnds(j) ==
    /\ job[j].stage = "printing"
    /\ \E state \in {"completed", "aborted"} : Over(j, state)
    /\ UNCHANGED <<exported, round, serving, unguarded, rounds>>

(* PRUNE_GRACE after the last job. *)
GraceEnds(d) ==
    /\ d \in grace
    /\ grace' = grace \ {d}
    /\ UNCHANGED <<exported, round, serving, job, active, jobLock, unguarded, rounds>>

-----------------------------------------------------------------------------

Discovery == LookUp \/ Prune \/ Publish \/ RoundEnds
Tasks == \E j \in Jobs : BeginPrinting(j) \/ Rasterize(j) \/ StartPrinting(j) \/ PrintEnds(j)

IppNext ==
    \/ Discovery
    \/ \E j \in Jobs, d \in Devices : PrintJob(j, d)
    \/ Tasks
    \/ \E d \in Devices : GraceEnds(d)

(* The two bridges are tasks of one process and share bridged_names.       *)
BridgesNext == (LwNext /\ UNCHANGED ippVars) \/ (IppNext /\ UNCHANGED lwVars)

BridgesSpec == LwInit /\ IppInit /\ [][BridgesNext]_<<lwVars, ippVars>>

-----------------------------------------------------------------------------

(* A printer with a job on it, or done with one a moment ago, keeps its    *)
(* registration though it answers no lookup; but for one pruned after the  *)
(* request looked it up and before the job was counted.                    *)
HeldWhilePrinting == \A d \in Devices :
    Protected(d) => d \in exported \/ d \in unguarded

(* What LwBridge offers over AppleTalk is never published back over IPP. *)
NoReexport == exported \cap Names = {}

(* Together: the printers published over mDNS are those they should be.    *)
PublishedRight == HeldWhilePrinting /\ NoReexport
=============================================================================
