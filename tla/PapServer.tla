----------------------------- MODULE PapServer -----------------------------
(***************************************************************************)
(* The desktop's printer emulator (PapServer, tailtalk/src/pap.rs) and the *)
(* two sinks the GUI gives it: lw_bridge's IppForwardSink, which forwards  *)
(* detached, and main.rs's LaserWriterSink, which saves inside the call.   *)
(*                                                                         *)
(* A Mac's driver answers the server's one outstanding SendData with the   *)
(* next piece of a job and reads the printer's output with SendData        *)
(* requests of its own.  A job is a sequence of lines, each kept by its    *)
(* kind and by the job it belongs to; a block of a query is a "begin" and  *)
(* an "end" line, "list" being the end of a font list query, whose answer  *)
(* is several writes.                                                      *)
(***************************************************************************)
EXTENDS Naturals, Sequences, SequencesExt, FiniteSets, FiniteSetsExt

CONSTANTS
    Drivers,       \* the Macs
    NoDriver,
    Scripts,       \* a sequence: what a Mac may send over its connection, as
                   \* [text |-> <<line, ...>>, eof |-> does it set the PAP eof]s
    SinkKinds,     \* "forward": IppForwardSink; "save": LaserWriterSink
    MaxSeq,        \* PAP sequence numbers: 1 .. MaxSeq, 65535 in the code
    CacheLen,      \* PAP_REPLY_CACHE_LEN
    MaxReads,      \* reads of one Mac
    MaxFaults      \* lost replies, early retries, Macs that vanish

ASSUME PapServerAssumption ==
    /\ NoDriver \notin Drivers
    /\ {MaxSeq, CacheLen} \subseteq Nat \ {0}
    /\ {MaxReads, MaxFaults} \subseteq Nat
    /\ SinkKinds \subseteq {"forward", "save"}

VARIABLES
    driver,        \* driver[d]: a Mac and what it has collected
    chunk,         \* answers to the outstanding pull, on their way
    requests,      \* requests in the connection's ATP responder
    srv,           \* the server and the connection it serves
    sink,          \* the PrintSink and the forwards it has spawned
    received,      \* jobs handed to the sink, in order
    faults

papVars == <<driver, chunk, requests, srv, sink, received, faults>>

JobLines == [d \in Drivers |-> [s \in 1 .. Len(Scripts) |-> [n \in 1 .. Len(Scripts[s]) |->
            [i \in 1 .. Len(Scripts[s][n].text) |->
                [k |-> Scripts[s][n].text[i], of |-> <<d, n>>]]]]]

Script(d) == Scripts[driver[d].script]
Lines(d, n) == JobLines[d][driver[d].script][n]

NoRead == [seq |-> 0, try |-> 0]

Listening == [phase |-> "listening", with |-> NoDriver, job |-> <<>>, answered |-> 0,
              stdout |-> <<>>, ready |-> FALSE, pending |-> NoRead, quiet |-> FALSE,
              readSeq |-> 1, cache |-> <<>>, connection |-> 0]

PapInit ==
    /\ driver \in [Drivers -> {[at |-> "away", script |-> s, n |-> 1, sent |-> 0, seq |-> 1,
                                try |-> 0, reads |-> 0, got |-> <<>>] : s \in 1 .. Len(Scripts)}]
    /\ chunk = <<>> /\ requests = <<>>
    /\ srv = Listening
    /\ sink \in {[kind |-> k, held |-> <<>>, count |-> 0, spawned |-> {}, lock |-> <<>>,
                  printed |-> <<>>, saving |-> <<>>] : k \in SinkKinds}
    /\ received = <<>>
    /\ faults = 0

-----------------------------------------------------------------------------
(* The lines of a job. *)

Magic(line) == line.k \in {"query", "print", "prologue", "eps"}
IsQuery(job) == job # <<>> /\ Head(job).k = "query"
EndsBlock(line) == line.k \in {"end", "list"}
JobEndsAtEof(job) == job # <<>> /\ Last(job).k = "trailer"

(* Mutant: the text is cut at its last header, as if one ahead of it could  *)
(* only be finished business.                                              *)
ResyncLast(job, answered) ==
    LET headers == {i \in answered + 1 .. Len(job) : Magic(job[i])} IN
    CASE answered = 0 /\ job # <<>> /\ Magic(job[1]) -> 0
      [] OTHER -> IF headers # {} THEN Max(headers) - 1
                  ELSE IF answered = Len(job) THEN answered ELSE 0

(* pqp_resync: how many leading lines are finished business. *)
Resync(job, answered) ==
    LET headers == {i \in answered + 1 .. Len(job) : Magic(job[i])} IN
    CASE answered = 0 /\ job # <<>> /\ Magic(job[1]) -> 0
      [] OTHER -> IF headers # {} THEN Min(headers) - 1
                  ELSE IF answered = Len(job) THEN answered ELSE 0

(* pqp_answerable_prefix: up to the newest End line, and the %%EOF after it. *)
AnswerablePrefix(job) ==
    LET ends == {i \in 1 .. Len(job) : EndsBlock(job[i])}
        last == Max(ends \cup {0})
        trailers == {i \in last + 1 .. Len(job) :
                        /\ job[i].k = "trailer"
                        /\ \A j \in last .. i : j = 0 \/ job[j].k # "begin"} IN
    IF ends = {} THEN 0 ELSE Max(trailers \cup {last})

(* pqp_writes: one write for each End line, one for each font of a list. *)
WritesOf(line) ==
    CASE line.k = "end" -> <<[of |-> line.of, write |-> 1]>>
      [] line.k = "list" -> <<[of |-> line.of, write |-> 1], [of |-> line.of, write |-> 2]>>
      [] OTHER -> <<>>

Writes(job) ==
    LET upTo[i \in 0 .. Len(job)] == IF i = 0 THEN <<>> ELSE upTo[i - 1] \o WritesOf(job[i])
    IN  upTo[Len(job)]

-----------------------------------------------------------------------------
(* The sink. *)

IsPrologue(job) == job # <<>> /\ Head(job).k = "prologue"
NeedsPrologue(job) == \E i \in 1 .. Len(job) : job[i].k = "needs"

(* LaserPrep::for_job: the prologue this connection downloaded. *)
ForJob(connection, job) ==
    IF NeedsPrologue(job) /\ sink.held # <<>> /\ sink.held[1] = connection
    THEN <<sink.held[2]>> ELSE <<>>

ReceiveJob(job) ==
    LET forward == [job |-> job, prep |-> ForJob(srv.connection, job), n |-> sink.count + 1,
                    connection |-> srv.connection] IN
    /\ received' = Append(received, job)
    /\ sink' = IF IsPrologue(job) THEN [sink EXCEPT !.held = <<srv.connection, job[1].of>>]
               ELSE IF sink.kind = "forward"
                    THEN [sink EXCEPT !.count = @ + 1, !.spawned = @ \cup {forward}]
                    ELSE [sink EXCEPT !.count = @ + 1, !.saving = <<forward>>]

NoJob == UNCHANGED <<sink, received>>

(* The detached task reaches the lock; its turn comes, and the print job  *)
(* is accepted or, with an error nobody but the log hears of, lost.        *)
ReachLock == \E f \in sink.spawned :
    /\ sink' = [sink EXCEPT !.spawned = @ \ {f}, !.lock = Append(@, f)]
    /\ UNCHANGED <<driver, chunk, requests, srv, received, faults>>

ForwardJob ==
    /\ sink.lock # <<>>
    /\ \/ /\ sink' = [sink EXCEPT !.lock = Tail(@), !.printed = Append(@, Head(sink.lock))]
          /\ UNCHANGED faults
       \/ /\ faults < MaxFaults /\ faults' = faults + 1
          /\ sink' = [sink EXCEPT !.lock = Tail(@)]
    /\ UNCHANGED <<driver, chunk, requests, srv, received>>

-----------------------------------------------------------------------------
(* What follows every branch of the session's select!. *)

NextSeq(s) == (s % MaxSeq) + 1

Remembered(cache, reply) ==
    LET kept == IF Len(cache) = CacheLen THEN Tail(cache) ELSE cache IN Append(kept, reply)

IdleAnswer(s) == ~s.ready /\ s.quiet
CanAnswer(s) == s.pending # NoRead /\ (s.ready \/ IdleAnswer(s))

NextChunk(s) ==
    IF IdleAnswer(s) THEN [data |-> <<>>, eof |-> FALSE]
    ELSE [data |-> IF s.stdout = <<>> THEN <<>> ELSE <<Head(s.stdout)>>, eof |-> Len(s.stdout) <= 1]

(* Mutant: the expected sequence number does not move on with the reply.   *)
AnsweredInPlace(s, reply) ==
    [s EXCEPT !.pending = NoRead,
              !.stdout = IF reply.data = <<>> THEN @ ELSE Tail(@),
              !.ready = @ /\ ~reply.eof,
              !.cache = Remembered(@, [seq |-> s.pending.seq, reply |-> reply])]

Answered(s, reply) ==
    [s EXCEPT !.pending = NoRead, !.readSeq = NextSeq(@),
              !.stdout = IF reply.data = <<>> THEN @ ELSE Tail(@),
              !.ready = @ /\ ~reply.eof,
              !.cache = Remembered(@, [seq |-> s.pending.seq, reply |-> reply])]

(* A reply reaches the Mac while its transaction is open, unless every     *)
(* copy of it is lost.                                                     *)
Deliver(d, try, reply) ==
    \/ /\ driver' = IF driver[d].try # try \/ driver[d].at # "open" THEN driver
                    ELSE [driver EXCEPT ![d].try = 0, ![d].seq = NextSeq(@),
                                        ![d].got = @ \o reply.data]
       /\ UNCHANGED faults
    \/ /\ driver[d].at = "open" /\ driver[d].try = try
       /\ faults < MaxFaults /\ faults' = faults + 1
       /\ UNCHANGED driver

Finish(session) == \E s \in {session} :
    IF CanAnswer(s)
    THEN \E reply \in {NextChunk(s)} :
           srv' = Answered(s, reply) /\ Deliver(s.with, s.pending.try, reply)
    ELSE srv' = s /\ UNCHANGED <<driver, faults>>

-----------------------------------------------------------------------------
(* The server. *)

(* Phase 1 and 2.  While another Mac is served its OpenConn is refused as  *)
(* busy and nothing changes.                                               *)
OpenConn(d) ==
    /\ srv.phase = "listening" /\ driver[d].at = "away"
    /\ driver' = [driver EXCEPT ![d].at = "open"]
    /\ srv' = [Listening EXCEPT !.phase = "session", !.with = d, !.connection = srv.connection + 1]
    /\ UNCHANGED <<chunk, requests, sink, received, faults>>

ArriveQueryEof(job, answered) ==
    /\ Finish([srv EXCEPT !.job = <<>>, !.answered = 0, !.ready = TRUE, !.quiet = FALSE,
                          !.stdout = @ \o Writes(SubSeq(job, answered + 1, Len(job)))])
    /\ NoJob

ArriveJobEof(job) ==
    LET done == [srv EXCEPT !.job = <<>>, !.answered = 0, !.ready = TRUE, !.quiet = FALSE] IN
    /\ ReceiveJob(job)
    /\ IF sink'.saving # <<>>
       THEN srv' = [done EXCEPT !.phase = "saving"] /\ UNCHANGED <<driver, faults>>
       ELSE Finish(done)

ArriveBlock(job, answered, end) ==
    LET block == SubSeq(job, answered + 1, answered + end)
        over == JobEndsAtEof(block) IN
    /\ Finish([srv EXCEPT !.job = IF over THEN <<>> ELSE job,
                          !.answered = IF over THEN 0 ELSE answered + end,
                          !.stdout = @ \o Writes(block), !.ready = TRUE, !.quiet = FALSE])
    /\ NoJob

(* JobBuffer::push: the buffer with the new lines, what is spent dropped. *)
Pushed(lines) ==
    LET text == srv.job \o lines
        spent == Resync(text, srv.answered) IN
    [job |-> SubSeq(text, spent + 1, Len(text)),
     answered |-> IF srv.answered > spent THEN srv.answered - spent ELSE 0]

(* The outstanding pull is answered; another goes out at once. *)
Arrive ==
    /\ srv.phase = "session" /\ chunk # <<>>
    /\ \E buffer \in {Pushed(chunk[1].lines)} :
         LET job == buffer.job
             query == IsQuery(job)
             end == AnswerablePrefix(SubSeq(job, buffer.answered + 1, Len(job))) IN
         CASE chunk[1].eof /\ query -> ArriveQueryEof(job, buffer.answered)
           [] chunk[1].eof /\ job # <<>> /\ ~query -> ArriveJobEof(job)
           [] ~chunk[1].eof /\ query /\ end > 0 -> ArriveBlock(job, buffer.answered, end)
           [] OTHER -> /\ Finish([srv EXCEPT !.job = job, !.answered = buffer.answered,
                                            !.quiet = FALSE])
                       /\ NoJob
    /\ chunk' = <<>>
    /\ UNCHANGED requests

(* LaserWriterSink's conversion ends and the session goes on, or returns. *)
Saved ==
    /\ srv.phase \in {"saving", "closing"}
    /\ sink' = [sink EXCEPT !.saving = <<>>, !.printed = @ \o sink.saving]
    /\ IF srv.phase = "saving" THEN Finish([srv EXCEPT !.phase = "session"])
       ELSE srv' = [Listening EXCEPT !.connection = srv.connection] /\ UNCHANGED <<driver, faults>>
    /\ UNCHANGED <<chunk, requests, received>>

(* A read of the expected sequence number waits, in place of one before    *)
(* it; a repeated one gets the reply it had.                               *)
HandleRead ==
    /\ srv.phase = "session" /\ requests # <<>> /\ Head(requests).is = "read"
    /\ LET read == Head(requests).read
           cached == SelectSeq(srv.cache, LAMBDA r : r.seq = read.seq) IN
       CASE read.seq = srv.readSeq -> Finish([srv EXCEPT !.pending = read])
         [] read.seq # srv.readSeq /\ cached # <<>> ->
              Deliver(srv.with, read.try, cached[1].reply) /\ UNCHANGED srv
         [] OTHER -> UNCHANGED <<srv, driver, faults>>
    /\ requests' = Tail(requests)
    /\ UNCHANGED <<chunk, sink, received>>

(* The Mac says it is done; a whole job it left without an eof is printed. *)
HandleClose ==
    LET left == SubSeq(srv.job, srv.answered + 1, Len(srv.job))
        whole == left # <<>> /\ ~IsQuery(srv.job) /\ JobEndsAtEof(srv.job)
        closed == [Listening EXCEPT !.connection = srv.connection] IN
    /\ srv.phase = "session" /\ requests # <<>> /\ Head(requests).is = "close"
    /\ driver' = [driver EXCEPT ![srv.with].at = IF @ = "open" THEN "done" ELSE @,
                                ![srv.with].try = 0]
    /\ IF whole THEN ReceiveJob(srv.job) ELSE NoJob
    /\ srv' = IF whole /\ sink'.saving # <<>> THEN [closed EXCEPT !.phase = "closing"] ELSE closed
    /\ chunk' = <<>> /\ requests' = <<>>
    /\ UNCHANGED faults

(* Two seconds pass with a read waiting since the Mac last wrote. *)
IdleRead ==
    /\ srv.phase = "session" /\ srv.pending # NoRead /\ ~srv.quiet /\ chunk = <<>>
    /\ Finish([srv EXCEPT !.quiet = TRUE])
    /\ UNCHANGED <<chunk, requests, sink, received>>

(* 120 seconds without a word: the connection is dropped with its job. *)
Inactive ==
    /\ srv.phase = "session" /\ driver[srv.with].at = "gone"
    /\ chunk = <<>> /\ requests = <<>>
    /\ srv' = [Listening EXCEPT !.connection = srv.connection]
    /\ UNCHANGED <<driver, chunk, requests, sink, received, faults>>

(* The task that runs the server is aborted; forwards already spawned go on. *)
Abort ==
    /\ srv' = [Listening EXCEPT !.phase = "stopped", !.connection = srv.connection]
    /\ sink' = [sink EXCEPT !.saving = <<>>]
    /\ driver' = [d \in Drivers |-> IF driver[d].at = "open" THEN [driver[d] EXCEPT !.at = "gone"]
                                    ELSE driver[d]]
    /\ chunk' = <<>> /\ requests' = <<>>
    /\ UNCHANGED <<received, faults>>

-----------------------------------------------------------------------------
(* The Mac's driver, which is not part of this program.                    *)

Open(d) == driver[d].at = "open" /\ srv.with = d

Answers(d, n) ==
    LET upTo[i \in 0 .. n] == IF i = 0 THEN <<>> ELSE upTo[i - 1] \o Writes(Lines(d, i))
    IN  upTo[n]

(* A driver that sets no eof on its query waits for the answers before it  *)
(* goes on.                                                                *)
MayBegin(d, n) ==
    n > 1 => 
        Script(d)[n - 1].eof \/ driver[d].got = Answers(d, n - 1)

Write(d) ==
    LET D == driver[d]
        lines == Lines(d, D.n) IN
    /\ Open(d) /\ chunk = <<>> /\ D.n <= Len(Script(d))
    /\ D.sent > 0 \/ MayBegin(d, D.n)
    /\ \E k \in D.sent .. Len(lines) :
         LET over == k = Len(lines) IN
         /\ k > D.sent \/ over
         /\ chunk' = <<[lines |-> SubSeq(lines, D.sent + 1, k), eof |-> over /\ Script(d)[D.n].eof]>>
         /\ driver' = [driver EXCEPT ![d].n = IF over THEN @ + 1 ELSE @,
                                     ![d].sent = IF over THEN 0 ELSE k]
    /\ UNCHANGED <<requests, srv, sink, received, faults>>

Read(d) ==
    /\ Open(d) /\ driver[d].try = 0 /\ driver[d].reads < MaxReads
    /\ driver' = [driver EXCEPT ![d].try = 1, ![d].reads = @ + 1]
    /\ requests' = Append(requests, [is |-> "read", read |-> [seq |-> driver[d].seq, try |-> 1]])
    /\ UNCHANGED <<chunk, srv, sink, received, faults>>

(* Its transaction runs out, before or after the server answered it. *)
Retry(d) ==
    LET read == [seq |-> driver[d].seq, try |-> driver[d].try]
        held == srv.pending = read \/ [is |-> "read", read |-> read] \in ToSet(requests) IN
    /\ Open(d) /\ driver[d].try > 0 /\ srv.phase = "session"
    /\ IF held THEN faults < MaxFaults /\ faults' = faults + 1 ELSE UNCHANGED faults
    /\ driver' = [driver EXCEPT ![d].try = @ + 1]
    /\ requests' = Append(requests, [is |-> "read", read |-> [read EXCEPT !.try = @ + 1]])
    /\ UNCHANGED <<chunk, srv, sink, received>>

CloseConn(d) ==
    /\ Open(d) /\ driver[d].n > Len(Script(d)) /\ chunk = <<>> /\ driver[d].try = 0
    /\ [is |-> "close", read |-> NoRead] \notin ToSet(requests)
    /\ driver' = [driver EXCEPT ![d].reads = MaxReads]
    /\ requests' = Append(requests, [is |-> "close", read |-> NoRead])
    /\ UNCHANGED <<chunk, srv, sink, received, faults>>

Vanish(d) ==
    /\ Open(d) /\ faults < MaxFaults
    /\ driver' = [driver EXCEPT ![d].at = "gone", ![d].try = 0]
    /\ faults' = faults + 1
    /\ UNCHANGED <<chunk, requests, srv, sink, received>>

-----------------------------------------------------------------------------

Serves == Arrive \/ Saved \/ HandleRead \/ HandleClose \/ IdleRead \/ Inactive
Macs == \E d \in Drivers :
    OpenConn(d) \/ Write(d) \/ Read(d) \/ Retry(d) \/ CloseConn(d) \/ Vanish(d)

PapNext == Serves \/ ReachLock \/ ForwardJob \/ Macs

-----------------------------------------------------------------------------
(* Properties. *)

(* A job to print is all of its lines from its header on, the loose        *)
(* PostScript ahead of the header left out.                                *)
Document(d, n) ==
    LET lines == Lines(d, n)
        headers == {i \in 1 .. Len(lines) : Magic(lines[i])} IN
    IF headers = {} THEN lines ELSE SubSeq(lines, Min(headers), Len(lines))

ToPrint(d) == SelectSeq([n \in 1 .. Len(Script(d)) |-> Document(d, n)],
                        LAMBDA job : job # <<>> /\ ~IsQuery(job))

ReceivedFrom(d) == SelectSeq(received, LAMBDA job : job[1].of[1] = d)

(* Whatever its driver read meanwhile, however it cut its jobs into Data   *)
(* packets and whether or not it set the eof flag, the jobs of a Mac reach *)
(* the sink whole, once and in order, none with text of another, and all   *)
(* of them once the Mac has closed its connection.                         *)
AllWhole == \A d \in Drivers :
    /\ IsPrefix(ReceivedFrom(d), ToPrint(d))
    /\ driver[d].at = "done" => ReceivedFrom(d) = ToPrint(d)

(* What a Mac has collected of its queries' answers is what their blocks   *)
(* answer, in order, none twice and none left out, though replies are lost *)
(* and reads repeated.                                                     *)
AnswersInOrder == \A d \in Drivers :
    IsPrefix(driver[d].got, Answers(d, Len(Script(d))))

(* The printer behind the bridge gets each job at most once, and a         *)
(* document that leans on a prologue gets the last one its own connection  *)
(* downloaded.                                                             *)
Prepared == \A i \in 1 .. Len(sink.printed) :
    LET f == sink.printed[i] IN
    /\ \A j \in 1 .. i - 1 : sink.printed[j].n # f.n
    /\ NeedsPrologue(f.job) => \A p \in ToSet(f.prep) : p[1] = f.job[1].of[1]

(* Together: no job is lost, cut short, mixed with another or printed      *)
(* twice between a Mac and the printer behind the bridge.                  *)
JobsWhole == AllWhole /\ Prepared
=============================================================================
