---------------------------- MODULE StyleWriter ----------------------------
(***************************************************************************)
(* Printing on a StyleWriter behind an AppleTalk adapter.  A session asks   *)
(* for the printer on a control connection, the adapter (StyleWriterRole)   *)
(* calls back on a data connection, and the job's bytes then run through    *)
(* the adapter's port to the printer, whose replies come back in band.      *)
(*                                                                          *)
(* A data connection keeps its bytes in order, but attentions and the       *)
(* CloseAdvice travel beside them: `stalled` says that the head of the pipe  *)
(* was lost and waits for its retransmission, while attentions pass it.      *)
(***************************************************************************)
EXTENDS Integers, Sequences, SequencesExt, FiniteSets

CONSTANTS Clients,      \* the hosts that print
          Kinds(_),     \* what a host wants: "print", "clean" or "info"
          Families,     \* the printers that may be attached
          FastClock,    \* whether the port can follow the printer's clock
          BufCap,       \* blocks the printer's buffer holds
          Blocks,       \* blocks of a page
          PortCap,      \* messages the port holds: the window
          MaxRounds,    \* checks that fit into a deadline
          Nobody,
          MaxFaults     \* losses, late replies, vanished hosts and paper faults

ASSUME Bounds == {BufCap, Blocks, PortCap} \subseteq Nat \ {0} /\ {MaxRounds, MaxFaults} \subseteq Nat
ASSUME FamiliesKnown == Families \subseteq {"color", "sw", "original"} /\ FastClock \in BOOLEAN

VARIABLES role,       \* the adapter's StyleWriterRole
          port,       \* what the port still has to hand out: bytes and clock switches, in order
          prn,        \* the printer and the clock of the port
          pc, kind,   \* the session of each host
          conn,       \* the host's end of the data connection
          pipe,       \* messages to the adapter, cut into packets and not yet taken
          stalled,    \* the first of them was lost
          back,       \* bytes from the adapter, arrived
          ask,        \* the query a session waits on
          sess,       \* a session's free space, blocks left, checks made
          faults,     \* faults used up
          astray,     \* a session asked while an earlier query was still unanswered
          unpaid      \* the adapter saw an END_SESSION and the end of the connection ahead of lost bytes

vars == <<role, port, prn, pc, kind, conn, pipe, stalled, back, ask, sess, faults, astray, unpaid>>
wires == <<pipe, stalled, back>>
ghosts == <<astray, unpaid>>

Queries == {"status", "identify", "free", "cartridge", "printed", "busy"}

Idle == [phase |-> "Idle", job |-> Nobody, ctrl |-> Nobody, kill |-> FALSE, clock |-> FALSE]

NoSession == [free |-> 0, blocks |-> Blocks, rounds |-> 0, retries |-> 0, family |-> "color"]

Init ==
    /\ role = Idle
    /\ port = <<>>
    /\ prn \in [family : Families, page : {"none"}, buf : {0}, fault : {FALSE},
                fast : IF FastClock THEN BOOLEAN ELSE {FALSE}, line : {FALSE}]
    /\ prn.family = "original" => ~prn.fast
    /\ pc = [c \in Clients |-> "start"]
    /\ kind \in {k \in [Clients -> {"print", "clean", "info"}] : \A c \in Clients : k[c] \in Kinds(c)}
    /\ conn = [c \in Clients |-> "none"]
    /\ pipe = [c \in Clients |-> <<>>]
    /\ stalled = [c \in Clients |-> FALSE]
    /\ back = [c \in Clients |-> <<>>]
    /\ ask = [c \in Clients |-> "none"]
    /\ sess = [c \in Clients |-> NoSession]
    /\ faults = 0
    /\ astray = FALSE
    /\ unpaid = FALSE

Busy == role.phase # "Idle"
Spend == faults < MaxFaults /\ faults' = faults + 1
GoTo(c, p) == pc' = [pc EXCEPT ![c] = p]
Leave(c, p) == GoTo(c, p) /\ sess' = [sess EXCEPT ![c].rounds = 0]

-----------------------------------------------------------------------------
(* The adapter. *)

\* The port is told to switch its clock only when that changes it.
FollowPrinterClock(on) == IF on = role.clock THEN <<>> ELSE IF on THEN <<"fastOn">> ELSE <<"fastOff">>

PipeClosedQuietly ==
    /\ port' = port \o FollowPrinterClock(FALSE)
    /\ role' = Idle

\* The pipe closed: without an END_SESSION the printer is reset, and in any case the clock goes back.
PipeClosed ==
    /\ port' = port \o (IF role.kill THEN <<>> ELSE <<"reset">>) \o FollowPrinterClock(FALSE)
    /\ role' = Idle

ExpireCall ==
    /\ role.phase = "Connecting" /\ pc[role.job] = "dead"
    /\ role' = Idle
    /\ UNCHANGED <<port, prn, pc, kind, conn, wires, ask, sess, faults, ghosts>>

\* A handshake may not pin the adapter: a client that never closes its control connection is
\* given up.  The open to the client fails by itself sooner.
Expire ==
    /\ role.phase = "AwaitingCtrlClose"
    /\ role' = Idle
    /\ UNCHANGED <<port, prn, pc, kind, conn, wires, ask, sess, faults, ghosts>>

\* The client's listening socket takes the call.  Its actor outlives the session that bound it.
TakeCall(c) ==
    /\ role.phase = "Connecting" /\ role.job = c
    /\ conn[c] = "none" /\ pc[c] # "dead"
    /\ conn' = [conn EXCEPT ![c] = IF pc[c] = "waiting" THEN "queued" ELSE "orphan"]
    /\ UNCHANGED <<role, port, prn, pc, kind, wires, ask, sess, faults, ghosts>>

Opened ==
    /\ role.phase = "Connecting"
    /\ conn[role.job] \in {"queued", "held", "orphan"}
    /\ role' = [role EXCEPT !.phase = "Piping", !.kill = FALSE]
    /\ UNCHANGED <<port, prn, pc, kind, conn, wires, ask, sess, faults, ghosts>>

OpenFailed ==
    /\ role.phase = "Connecting" /\ conn[role.job] \in {"none", "dead"}
    /\ IF pc[role.job] = "dead" THEN UNCHANGED faults ELSE Spend
    /\ role' = Idle
    /\ conn' = [conn EXCEPT ![role.job] = IF @ = "none" THEN "refused" ELSE @]
    /\ UNCHANGED <<port, prn, pc, kind, wires, ask, sess, ghosts>>

\* Data goes on to the port while the window is open.  A message that switches the printer to its
\* fast mode is kept from it when the port cannot follow.
HandleData(c) ==
    /\ role.phase = "Piping" /\ role.job = c
    /\ pipe[c] # <<>> /\ ~stalled[c] /\ Len(port) < PortCap
    /\ pipe' = [pipe EXCEPT ![c] = Tail(@)]
    /\ port' = IF Head(pipe[c]) = "fast" /\ ~FastClock THEN port ELSE Append(port, Head(pipe[c]))
    /\ UNCHANGED <<role, prn, pc, kind, conn, stalled, back, ask, sess, faults, ghosts>>

\* The client's CloseAdvice.  What the client had sent and was lost is not sent again.
HandleClose(c) ==
    /\ role.phase = "Piping" /\ role.job = c /\ conn[c] = "closed"
    /\ pipe[c] = <<>> \/ stalled[c] \/ Len(port) >= PortCap
    /\ PipeClosed
    /\ unpaid' = (unpaid \/ (role.kill /\ pipe[c] # <<>>))
    /\ pipe' = [pipe EXCEPT ![c] = <<>>]
    /\ stalled' = [stalled EXCEPT ![c] = FALSE]
    /\ UNCHANGED <<prn, pc, kind, conn, back, ask, sess, faults, astray>>

\* The endpoint gives up on a client that acknowledges nothing, which it only learns by sending.
GiveUpOn(c) ==
    /\ role.phase = "Piping" /\ role.job = c /\ conn[c] = "dead" /\ back[c] # <<>>
    /\ PipeClosed
    /\ unpaid' = (unpaid \/ (role.kill /\ pipe[c] # <<>>))
    /\ pipe' = [pipe EXCEPT ![c] = <<>>]
    /\ stalled' = [stalled EXCEPT ![c] = FALSE]
    /\ UNCHANGED <<prn, pc, kind, conn, back, ask, sess, faults, astray>>

\* The attentions of a control connection.  A print request is turned away while there is a job.
PrintRequested(c) ==
    ~Busy /\ role' = [Idle EXCEPT !.phase = "AwaitingCtrlClose", !.job = c, !.ctrl = c]

\* The adapter calls back once the control connection of its job is closed.
CtrlClosed(c) ==
    role' = IF role.phase = "AwaitingCtrlClose" /\ role.ctrl = c
            THEN [role EXCEPT !.phase = "Connecting", !.ctrl = Nobody] ELSE role

\* A job is withdrawn while it has not reached the printer; the open on its way is abandoned.
Withdrawn(c) ==
    role' = IF role.job = c /\ role.phase \in {"AwaitingCtrlClose", "Connecting"} THEN Idle ELSE role

JobCount == IF Busy THEN 1 ELSE 0
OutputDrained == port = <<>>
EndSession == role' = [role EXCEPT !.kill = TRUE]
SetClock(on) == role' = [role EXCEPT !.clock = on] /\ port' = port \o FollowPrinterClock(on)

-----------------------------------------------------------------------------
(* The port and the printer. *)

Heard == prn.fast = prn.line

\* What the printer does with a message it hears.
Takes(m) ==
    CASE m = "reset" -> [prn EXCEPT !.page = "none", !.buf = 0, !.fast = FALSE]
      [] m = "fast" -> [prn EXCEPT !.fast = TRUE]
      [] m = "raster" -> [prn EXCEPT !.page = "loaded", !.buf = @ + 1]
      [] m = "feed" -> [prn EXCEPT !.page = IF prn.buf = 0 THEN "none" ELSE "ending"]
      [] OTHER -> prn

Answer(m) ==
    [q |-> m,
     v |-> CASE m = "status" -> IF prn.fault THEN "fault" ELSE "ok"
             [] m = "identify" -> prn.family
             [] m = "free" -> BufCap - prn.buf
             [] m = "printed" -> IF prn.fault THEN "fault" ELSE IF prn.buf = 0 THEN "ok" ELSE "not"
             [] OTHER -> "ok"]

\* The port hands out its next message, or switches its clock once all before it is out.
\* A reply goes down the pipe if there is one.
PortOut ==
    /\ port # <<>>
    /\ Head(port) = "raster" /\ Heard => prn.buf < BufCap
    /\ port' = Tail(port)
    /\ LET m == Head(port) IN
       /\ CASE m \in {"fastOn", "fastOff"} -> prn' = [prn EXCEPT !.line = (m = "fastOn")]
            [] m = "resume" /\ Heard -> prn' \in {prn, [prn EXCEPT !.fault = FALSE]}
            [] OTHER -> prn' = IF Heard THEN Takes(m) ELSE prn
       /\ back' = IF m \in Queries /\ Heard /\ role.phase = "Piping"
                  THEN [back EXCEPT ![role.job] = Append(@, Answer(m))] ELSE back
    /\ UNCHANGED <<role, pc, kind, conn, pipe, stalled, ask, sess, faults, ghosts>>

Prints ==
    /\ prn.buf > 0 /\ ~prn.fault
    /\ prn' = [prn EXCEPT !.buf = @ - 1, !.page = IF @ = "ending" /\ prn.buf = 1 THEN "none" ELSE @]
    /\ UNCHANGED <<role, port, pc, kind, conn, wires, ask, sess, faults, ghosts>>

PaperFault ==
    /\ ~prn.fault /\ prn.buf > 0 /\ Spend
    /\ prn' = [prn EXCEPT !.fault = TRUE]
    /\ UNCHANGED <<role, port, pc, kind, conn, wires, ask, sess, ghosts>>

-----------------------------------------------------------------------------
(* The two-connection handshake. *)

\* The print request, answered "busy" while there is a job.  The answer may be lost.
Request(c) ==
    /\ pc[c] = "start"
    /\ PrintRequested(c)
    /\ \/ GoTo(c, "ending") /\ UNCHANGED faults
       \/ GoTo(c, "failing") /\ Spend
    /\ UNCHANGED <<port, prn, kind, conn, wires, ask, sess, ghosts>>

\* END_SESSION and the close of the control connection, on which the adapter calls back.  The
\* one CloseAdvice may be lost.
EndControlSession(c) ==
    /\ pc[c] \in {"ending", "failing"}
    /\ GoTo(c, IF pc[c] = "ending" THEN "waiting" ELSE "failed")
    /\ \/ CtrlClosed(c) /\ UNCHANGED faults
       \/ role.ctrl = c /\ role' = [role EXCEPT !.ctrl = Nobody] /\ Spend
    /\ UNCHANGED <<port, prn, kind, conn, wires, ask, sess, ghosts>>

\* The session takes the adapter's call.
Accept(c) ==
    /\ pc[c] = "waiting" /\ conn[c] = "queued"
    /\ GoTo(c, IF kind[c] = "info" THEN "look" ELSE "reset")
    /\ conn' = [conn EXCEPT ![c] = "held"]
    /\ UNCHANGED <<role, port, prn, kind, wires, ask, sess, faults, ghosts>>

Drop(c) == conn' = [conn EXCEPT ![c] = IF @ = "queued" THEN "orphan" ELSE @]

\* A look at the queue that finds no job: the adapter deleted it.
PollQueue(c) ==
    /\ pc[c] = "waiting" /\ JobCount = 0
    /\ GoTo(c, "failed") /\ Drop(c)
    /\ UNCHANGED <<role, port, prn, kind, wires, ask, sess, faults, ghosts>>

\* Past give_up the job is withdrawn, which the adapter only heeds before its call went through.
Withdraw(c) ==
    /\ pc[c] = "waiting"
    /\ GoTo(c, "failed") /\ Drop(c)
    /\ Withdrawn(c)
    /\ UNCHANGED <<port, prn, kind, wires, ask, sess, faults, ghosts>>

-----------------------------------------------------------------------------
(* The job, over the data connection. *)

Write(c, m) == pipe' = [pipe EXCEPT ![c] = Append(@, m)]
CanWrite(c) == conn[c] = "held" /\ Len(pipe[c]) < PortCap

\* The queries of c that the printer has not answered yet.
Unanswered(c) == (ToSet(pipe[c]) \cup ToSet(port)) \cap Queries # {}

\* A query: what has arrived is discarded, and what is still on its way is not.
QueryAt(c) ==
    CASE pc[c] \in {"probe", "clear0", "clear", "room", "roomClear", "printedClear"} -> "status"
      [] pc[c] \in {"look", "identify"} -> "identify"
      [] pc[c] \in {"space", "roomFree"} -> "free"
      [] pc[c] = "cartridge" -> "cartridge"
      [] pc[c] = "printed" -> "printed"
      [] pc[c] = "cleaning" -> "busy"
      [] OTHER -> "none"

PollStatus(c) ==
    /\ QueryAt(c) # "none" /\ ask[c] = "none" /\ CanWrite(c)
    /\ ask' = [ask EXCEPT ![c] = QueryAt(c)]
    /\ back' = [back EXCEPT ![c] = <<>>]
    /\ Write(c, QueryAt(c))
    /\ astray' = (astray \/ Unanswered(c))
    /\ UNCHANGED <<role, port, prn, pc, kind, conn, stalled, sess, faults, unpaid>>

\* The condition of the printer is checked again while the deadline allows.
Again(c) ==
    IF sess[c].rounds < MaxRounds
    THEN sess' = [sess EXCEPT ![c].rounds = @ + 1] /\ UNCHANGED pc
    ELSE Leave(c, IF pc[c] \in {"printed", "printedClear"} THEN "teardown" ELSE "abort")

\* act_on_status: a fault is answered with `S`.
ActOnStatus(c, v) == IF v = "none" THEN UNCHANGED pipe ELSE Write(c, "resume")

\* After a wait_until_clear.
Cleared(c) ==
    CASE pc[c] = "clear0" -> "identify" [] pc[c] = "clear" -> "drained"
      [] pc[c] = "roomClear" -> "roomFree" [] pc[c] = "printedClear" -> "printed"

Then(c, p) == Leave(c, p) /\ UNCHANGED pipe

\* query_info: a printer that ignores the first `?` is reset and asked again.
Looked(c, v) == IF v = "none" THEN Again(c) /\ Write(c, "reset") ELSE Then(c, "abort")

\* reset_for_job: the printer's condition, then its identity.
Probed(c, v) == Then(c, IF v = "ok" THEN "identify" ELSE IF v = "none" THEN "retry" ELSE "clear0")
Identified(c, v) == Then(c, IF v = "none" THEN "retry" ELSE IF v = sess[c].family THEN "space" ELSE "abort")

\* read_free_space and make_room: every block is paced by what 'B' says.
FreeRead(c, v) ==
    IF v = -1 THEN Then(c, "abort")
    ELSE /\ sess' = [sess EXCEPT ![c].free = v]
         /\ GoTo(c, IF pc[c] = "roomFree" THEN "band" ELSE IF sess[c].family = "original" THEN "page" ELSE "fast")
         /\ UNCHANGED pipe

\* The rest of the setup; a cleaning is a job with no pages.
CartridgeRead(c, v) ==
    Then(c, IF v = "none" THEN "abort" ELSE IF kind[c] = "clean" THEN "cleaning" ELSE "page")
Cleaned(c, v) == Then(c, IF v = "none" THEN "abort" ELSE "finish")

\* make_room checks the condition before the buffer.
RoomChecked(c, v) == IF v = "ok" THEN Then(c, "roomFree") ELSE Leave(c, "roomClear") /\ ActOnStatus(c, v)

\* wait_printed: a fault is cleared first, and a printer that stopped is told nothing more.
Printed(c, v) ==
    CASE v = "ok" -> Then(c, "finish")
      [] v = "fault" -> Leave(c, "printedClear") /\ ActOnStatus(c, v)
      [] OTHER -> Again(c) /\ UNCHANGED pipe

\* wait_until_clear.
WaitedClear(c, v) == IF v = "ok" THEN Then(c, Cleared(c)) ELSE Again(c) /\ ActOnStatus(c, v)

\* The session goes on with value v of the query it asked; "none" or -1 when no reply came in time.
Proceed(c, v) ==
    CASE pc[c] = "look" -> Looked(c, v)
      [] pc[c] = "probe" -> Probed(c, v)
      [] pc[c] = "identify" -> Identified(c, v)
      [] pc[c] \in {"space", "roomFree"} -> FreeRead(c, v)
      [] pc[c] = "cartridge" -> CartridgeRead(c, v)
      [] pc[c] = "cleaning" -> Cleaned(c, v)
      [] pc[c] = "room" -> RoomChecked(c, v)
      [] pc[c] = "printed" -> Printed(c, v)
      [] OTHER -> WaitedClear(c, v)

Reading == [status |-> {"ok", "fault"}, identify |-> Families, free |-> 0..BufCap, cartridge |-> {"ok"},
            printed |-> {"ok", "not", "fault"}, busy |-> {"ok"}]

\* The first byte that arrives is taken for the reply.
Reply(c) ==
    /\ ask[c] # "none" /\ back[c] # <<>> /\ conn[c] = "held"
    /\ LET r == Head(back[c]) IN
       \E v \in IF r.q = ask[c] THEN {r.v} ELSE Reading[ask[c]] : Proceed(c, v)
    /\ back' = [back EXCEPT ![c] = Tail(@)]
    /\ ask' = [ask EXCEPT ![c] = "none"]
    /\ UNCHANGED <<role, port, prn, kind, conn, stalled, faults, ghosts>>

NoReply(c) == IF ask[c] = "free" THEN -1 ELSE "none"

\* No reply comes, or none came in time: the query is sent again until the deadline.
TimesOut(c) ==
    /\ ask[c] # "none" /\ back[c] = <<>> /\ conn[c] = "held"
    /\ \/ ~Unanswered(c) /\ UNCHANGED faults /\ Proceed(c, NoReply(c))
       \/ Unanswered(c) /\ Spend /\ (Proceed(c, NoReply(c)) \/ UNCHANGED <<pc, sess, pipe>>)
    /\ ask' = [ask EXCEPT ![c] = "none"]
    /\ UNCHANGED <<role, port, prn, kind, conn, stalled, back, ghosts>>

Retries == [color |-> 0, sw |-> 1, original |-> -1]

\* A printer that does not come back after its reset: at one of the tries it is taken to be in the
\* fast mode an earlier job left it in, and reset there.
ResetAgain(c) ==
    /\ pc[c] \in {"reset", "retry"} /\ CanWrite(c)
    /\ \E f \in Families :
          IF pc[c] = "reset" THEN /\ sess' = [sess EXCEPT ![c].family = f] /\ GoTo(c, "probe") /\ Write(c, "reset")
          ELSE /\ f = sess[c].family
               /\ sess' = [sess EXCEPT ![c].retries = @ + 1]
               /\ IF sess[c].retries > MaxRounds THEN GoTo(c, "abort") /\ UNCHANGED pipe
                  ELSE IF sess[c].retries = Retries[f] THEN GoTo(c, "inFast") /\ UNCHANGED pipe
                  ELSE GoTo(c, "probe") /\ Write(c, "reset")
    /\ UNCHANGED <<role, port, prn, kind, conn, stalled, back, ask, faults, ghosts>>

\* Attentions are answered at once, whatever is still in the pipe.
Attention(c) ==
    /\ role.phase = "Piping" /\ role.job = c /\ conn[c] = "held" /\ ask[c] = "none"
    /\ back' = [back EXCEPT ![c] = <<>>]
    /\ astray' = (astray \/ Unanswered(c))

\* wait_sent, which only a Color StyleWriter's switch makes.
Sent(c) == sess[c].family = "color" => pipe[c] = <<>>

\* The printer is told to change to its fast mode,
TellFast(c) ==
    /\ pc[c] \in {"fast", "inFast"} /\ CanWrite(c) /\ Attention(c)
    /\ IF FastClock THEN Write(c, "fast") /\ GoTo(c, IF pc[c] = "fast" THEN "fastClock" ELSE "inFastClock")
       ELSE UNCHANGED pipe /\ GoTo(c, IF pc[c] = "fast" THEN "cartridge" ELSE "inFastReset")
    /\ UNCHANGED <<role, port, prn, kind, conn, stalled, ask, sess, faults, unpaid>>

\* and the port to its clock, or back.
SwitchPort(c) ==
    /\ pc[c] \in {"fastClock", "inFastClock", "outOfFast"} /\ Attention(c)
    /\ Sent(c)
    /\ SetClock(pc[c] # "outOfFast")
    /\ GoTo(c, CASE pc[c] = "fastClock" -> "cartridge" [] pc[c] = "inFastClock" -> "inFastReset" [] OTHER -> "probe")
    /\ UNCHANGED <<prn, kind, conn, pipe, stalled, ask, sess, faults, unpaid>>

ResetInFast(c) ==
    /\ pc[c] = "inFastReset" /\ CanWrite(c)
    /\ Write(c, "reset")
    /\ GoTo(c, IF FastClock THEN "outOfFast" ELSE "probe")
    /\ UNCHANGED <<role, port, prn, kind, conn, stalled, back, ask, sess, faults, ghosts>>

StartPage(c) ==
    /\ pc[c] = "page" /\ Attention(c)
    /\ GoTo(c, "clear")
    /\ UNCHANGED <<role, port, prn, kind, conn, pipe, stalled, ask, sess, faults, unpaid>>

WaitOutputDrained(c) ==
    /\ pc[c] = "drained" /\ Attention(c)
    /\ IF OutputDrained THEN Leave(c, "band") ELSE Again(c)
    /\ UNCHANGED <<role, port, prn, kind, conn, pipe, stalled, ask, faults, unpaid>>

WriteBlockUncounted(c) ==
    /\ pc[c] = "band" /\ sess[c].blocks > 0 /\ sess[c].free > 0 /\ CanWrite(c)
    /\ Write(c, "raster")
    /\ sess' = [sess EXCEPT ![c].blocks = @ - 1]
    /\ UNCHANGED <<role, port, prn, pc, kind, conn, stalled, back, ask, faults, ghosts>>

\* A block goes out when the free space read last, less what was sent since, has room for it.
WriteBlock(c) ==
    /\ pc[c] = "band" /\ sess[c].blocks > 0 /\ sess[c].free > 0 /\ CanWrite(c)
    /\ Write(c, "raster")
    /\ sess' = [sess EXCEPT ![c].free = @ - 1, ![c].blocks = @ - 1]
    /\ UNCHANGED <<role, port, prn, pc, kind, conn, stalled, back, ask, faults, ghosts>>

MakeRoom(c) ==
    /\ pc[c] = "band" /\ sess[c].blocks > 0 /\ sess[c].free = 0
    /\ GoTo(c, "room")
    /\ UNCHANGED <<role, port, prn, kind, conn, wires, ask, sess, faults, ghosts>>

EndPage(c) ==
    /\ pc[c] = "band" /\ sess[c].blocks = 0 /\ CanWrite(c)
    /\ Write(c, "feed")
    /\ Leave(c, IF sess[c].family = "original" THEN "finish" ELSE "printed")
    /\ UNCHANGED <<role, port, prn, kind, conn, stalled, back, ask, faults, ghosts>>

\* finish sends its last commands, abort the reset.
Conclude(c) ==
    /\ pc[c] \in {"finish", "abort"} /\ CanWrite(c) /\ ask[c] = "none"
    /\ Write(c, IF pc[c] = "abort" THEN "reset" ELSE "end")
    /\ GoTo(c, "teardown")
    /\ UNCHANGED <<role, port, prn, kind, conn, stalled, back, ask, sess, faults, ghosts>>

\* END_SESSION, whose answer the session waits for, then the close.
Teardown(c) ==
    /\ pc[c] = "teardown"
    /\ \/ Attention(c) /\ EndSession /\ UNCHANGED faults
       \/ conn[c] = "held" /\ Spend /\ UNCHANGED <<role, back, astray>>
    /\ GoTo(c, "closing")
    /\ UNCHANGED <<port, prn, kind, conn, pipe, stalled, ask, sess, unpaid>>

Close(c) ==
    /\ pc[c] = "closing"
    /\ GoTo(c, "done")
    /\ conn' = [conn EXCEPT ![c] = "closed"]
    /\ back' = [back EXCEPT ![c] = <<>>]
    /\ sess' = [sess EXCEPT ![c] = NoSession]
    /\ UNCHANGED <<role, port, prn, kind, pipe, stalled, ask, faults, ghosts>>

-----------------------------------------------------------------------------
(* What goes wrong. *)

Lose(c) ==
    /\ pipe[c] # <<>> /\ ~stalled[c] /\ Spend
    /\ stalled' = [stalled EXCEPT ![c] = TRUE]
    /\ UNCHANGED <<role, port, prn, pc, kind, conn, pipe, back, ask, sess, ghosts>>

Retransmit(c) ==
    /\ stalled[c] /\ conn[c] = "held"
    /\ stalled' = [stalled EXCEPT ![c] = FALSE]
    /\ UNCHANGED <<role, port, prn, pc, kind, conn, pipe, back, ask, sess, faults, ghosts>>

Vanish(c) ==
    /\ pc[c] \notin {"start", "done", "failed", "dead"} /\ Spend
    /\ GoTo(c, "dead")
    /\ conn' = [conn EXCEPT ![c] = IF @ = "closed" THEN @ ELSE "dead"]
    /\ ask' = [ask EXCEPT ![c] = "none"]
    /\ sess' = [sess EXCEPT ![c] = NoSession]
    /\ UNCHANGED <<role, port, prn, kind, wires, ghosts>>

-----------------------------------------------------------------------------
Adapter == Expire \/ Opened \/ OpenFailed \/ \E c \in Clients : HandleData(c) \/ HandleClose(c) \/ GiveUpOn(c)
Printer == PortOut \/ Prints
Handshake(c) == TakeCall(c) \/ EndControlSession(c) \/ Accept(c) \/ PollQueue(c)
Session(c) ==
    \/ PollStatus(c) \/ Reply(c) \/ TimesOut(c) \/ ResetAgain(c) \/ TellFast(c) \/ SwitchPort(c) \/ ResetInFast(c)
    \/ StartPage(c) \/ WaitOutputDrained(c) \/ WriteBlock(c) \/ MakeRoom(c) \/ EndPage(c)
    \/ Conclude(c) \/ Teardown(c) \/ Close(c) \/ Retransmit(c)

Next ==
    \/ Adapter \/ Printer \/ PaperFault
    \/ \E c \in Clients : Handshake(c) \/ Session(c) \/ Request(c) \/ Withdraw(c) \/ Lose(c) \/ Vanish(c)

Spec == Init /\ [][Next]_vars

\* The adapter's runner polls, the port and the printer work, and a session's task runs.
Fairness ==
    /\ WF_vars(Adapter) /\ WF_vars(PortOut) /\ WF_vars(Prints)
    /\ \A c \in Clients : WF_vars(Handshake(c)) /\ WF_vars(Session(c))
FairSpec == Spec /\ Fairness

-----------------------------------------------------------------------------
\* Type correctness of the adapter's, the port's and the sessions' state.
TypeOK ==
    /\ role \in [phase : {"Idle", "AwaitingCtrlClose", "Connecting", "Piping"}, job : Clients \cup {Nobody},
                 ctrl : Clients \cup {Nobody}, kill : BOOLEAN, clock : BOOLEAN]
    /\ conn \in [Clients -> {"none", "queued", "held", "orphan", "refused", "closed", "dead"}]
    /\ ask \in [Clients -> Queries \cup {"none"}]
    /\ prn.buf \in 0..BufCap /\ faults \in 0..MaxFaults

\* A page is not left in the feed path: once the adapter is free and its port has handed out
\* everything, a page no form feed has ended is still loaded only where the client's own reset was
\* lost, or lost with it, after its END_SESSION had gone past it.
PaperFreed ==
    (role.phase = "Idle" /\ port = <<>> /\ prn.page = "loaded") => unpaid

\* What a session takes for free space in the printer's buffer is there, counting the blocks still
\* on their way, as long as no query was asked ahead of an answer that was still to come.
Paced ==
    \A c \in Clients : (pc[c] \in {"fast", "band", "room", "roomClear", "roomFree"} /\ ~astray) =>
        LET Rasters(s) == Len(SelectSeq(s, LAMBDA m : m = "raster")) IN
        sess[c].free + prn.buf + Rasters(pipe[c]) + Rasters(port) <= BufCap

\* The byte pipe outlives every session: nobody is there to end it.
Ownerless == role.phase = "Piping" /\ conn[role.job] \in {"orphan", "dead"}

\* The adapter becomes free again, unless nobody holds the client's end of its pipe, or the session
\* took a late reply for another one and goes on misreading every one after it.
Released == (role.phase # "Idle") ~> (role.phase = "Idle" \/ Ownerless \/ astray)
=============================================================================
