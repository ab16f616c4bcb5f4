-------------------------------- MODULE Adsp --------------------------------
(***************************************************************************)
(* The data stream of one established ADSP connection: the Connection of   *)
(* tailtalk-core/src/adsp.rs at both ends, under the stream of             *)
(* tailtalk-net/src/adsp.rs that queues what arrives, advertises the room  *)
(* left and hands it to a reader message by message.                       *)
(*                                                                         *)
(* A byte is abstracted to its position in what its end has written, so    *)
(* that a byte lost, repeated or moved shows.  Sequence numbers do not     *)
(* wrap: a run stays far below 2^32 bytes.  The retransmission timer may   *)
(* fire whenever bytes are unacknowledged: send() leaves last_tx alone     *)
(* (pump(key, None)), so after an idle spell it is due at once, and a      *)
(* cable may be slow.  The cable is a FIFO each way and may lose packets.  *)
(***************************************************************************)
EXTENDS Integers, Sequences, FiniteSets, SequencesExt

CONSTANTS
    ADSP_MAX_DATA,  \* bytes in a data packet
    RX_WINDOW,      \* bytes held for a reader before the window closes
    TX_BUFFER,      \* bytes held toward the peer before a write waits
    ADSP_MAX_RETRIES, \* retransmissions without progress before giving up
    Writers,        \* the ends that write
    EomChoices,     \* whether a write may end a message (a subset of BOOLEAN)
    MessageReaders, \* the ends that read whole messages, the others read bytes
    ReadSizes,      \* buffer sizes readers pass
    MaxWritten,     \* bound: bytes and message ends written, over both ends
    WriteSizes,     \* bound: bytes per write
    MaxCable,       \* bound: packets on the cable when a timer fires
    MaxLoss         \* bound: packets lost

Ends == {1, 2}
Peer(e) == 3 - e

ASSUME AdspAssumption ==
    /\ ADSP_MAX_DATA \in Nat \ {0} /\ RX_WINDOW \in Nat \ {0} /\ TX_BUFFER \in Nat \ {0}
    /\ ADSP_MAX_DATA <= RX_WINDOW
    /\ ADSP_MAX_RETRIES \in Nat /\ EomChoices \subseteq BOOLEAN
    /\ Writers \subseteq Ends /\ MessageReaders \subseteq Ends
    /\ ReadSizes \subseteq Nat \ {0}
    /\ {MaxWritten, MaxCable, MaxLoss} \cup WriteSizes \subseteq Nat

VARIABLES
    conn,     \* conn[e]: the Connection of end e, with the endpoint's recv_window
    st,       \* "open", "closed" (peer closed, or gave up) or "dropped" by its owner
    rx,       \* Conn::rx, bytes received and not read
    eoms,     \* Conn::eoms, where messages end in rx
    skipping, \* Conn::skipping, throwing away the rest of a message
    cable,    \* cable[e]: packets on their way to e
    \* history variables
    sent,     \* sent[e]: what e has written, MARK for the end of a message
    arrived,  \* arrived[e]: what the endpoint of e has delivered, likewise
    got,      \* got[e]: what reads at e have returned, likewise
    lost      \* the kinds of the packets lost

adspVars == <<conn, st, rx, eoms, skipping, cable, sent, arrived, got, lost>>

Least(m, n) == IF m < n THEN m ELSE n
Room(m, n)  == IF m > n THEN m - n ELSE 0
MARK == 0

\* Packets.  A data packet asks for an acknowledgement; a bare one is a ControlPacket.
DataPacket(c, seq, data, eom) ==
    [kind |-> "data", seq |-> seq, data |-> data, eom |-> eom,
     ack |-> c.recv_seq, window |-> c.recv_window]
AckPacket(c) ==
    [kind |-> "ack", seq |-> c.send_seq, data |-> <<>>, eom |-> FALSE,
     ack |-> c.recv_seq, window |-> c.recv_window]
CloseAdvice == [kind |-> "close"]
Packet == [kind : {"data", "ack"}, seq : Nat, data : Seq(Nat), eom : BOOLEAN,
           ack : Nat, window : 0..RX_WINDOW] \cup {CloseAdvice}

Connection == [send_seq : Nat, oldest_unacked_seq : Nat, recv_seq : Nat,
               send_window : 0..RX_WINDOW, recv_window : 0..RX_WINDOW,
               flight_buffer : Seq(Nat),
               pending_writes : Seq([data : Seq(Nat), eom : BOOLEAN]),
               retries : 0..ADSP_MAX_RETRIES]

\* Connection::new, after a handshake in which both ends advertised RX_WINDOW.  It
\* also stands for a connection the endpoint has forgotten, whose backlog is none.
NewConnection ==
    [send_seq |-> 0, oldest_unacked_seq |-> 0, recv_seq |-> 0,
     send_window |-> RX_WINDOW, recv_window |-> RX_WINDOW,
     flight_buffer |-> <<>>, pending_writes |-> <<>>, retries |-> 0]

Each(v) == [e \in Ends |-> v]

AdspInit ==
    /\ conn = Each(NewConnection) /\ st = Each("open")
    /\ rx = Each(<<>>) /\ eoms = Each(<<>>) /\ skipping = Each(FALSE)
    /\ cable = Each(<<>>)
    /\ sent = Each(<<>>) /\ arrived = Each(<<>>) /\ got = Each(<<>>) /\ lost = <<>>

-----------------------------------------------------------------------------
(* The endpoint.  A step takes s = [c, out], the connection and the packets *)
(* it has put in the outbox, to the next one.                               *)

Emit(s, p) == [s EXCEPT !.out = Append(@, p)]

\* send_ack
SendAck(s) == Emit(s, AckPacket(s.c))

\* One turn of pump's loop: a bare EOM, an empty write, or the next chunk the window
\* admits.  It leaves s alone when there is nothing to send or no room to send it.
CutOne(s) ==
    LET c == s.c
        front == Head(c.pending_writes)
        in_flight == c.send_seq - c.oldest_unacked_seq
        available == Room(c.send_window, in_flight)
        take == Least(Least(Len(front.data), available), ADSP_MAX_DATA)
        done == take = Len(front.data)
        eom == front.eom /\ done
        chunk == SubSeq(front.data, 1, take)
        rest == [front EXCEPT !.data = SubSeq(@, take + 1, Len(@))]
    IN  IF c.pending_writes = <<>> \/ (available = 0 /\ front.data # <<>>)
        THEN s
        ELSE IF front.data = <<>> /\ ~front.eom
        THEN [s EXCEPT !.c.pending_writes = Tail(@)]
        ELSE [c |-> [c EXCEPT
                 !.flight_buffer = @ \o chunk,
                 !.send_seq = @ + take + (IF eom THEN 1 ELSE 0),
                 !.pending_writes = IF done THEN Tail(@) ELSE <<rest>> \o Tail(@)],
              out |-> Append(s.out, DataPacket(c, c.send_seq, chunk, eom))]

\* pump: cut packets until there is nothing to send or no room.  Every turn takes a byte or
\* a message end, of which there are at most MaxWritten.  (turn[k] has one element.)
Pump(s) ==
    LET turn[k \in 0..MaxWritten] == IF k = 0 THEN {s} ELSE {CutOne(t) : t \in turn[k - 1]}
    IN  CHOOSE t \in turn[MaxWritten] : TRUE

\* Seeded fault: an acknowledgement is taken to cover the byte it asks for next.
ApplyAckBeyond(s, p) ==
    LET c == s.c
        acked == p.ack + 1 - c.oldest_unacked_seq
        max_valid == c.send_seq - c.oldest_unacked_seq
        valid == acked > 0 /\ acked <= max_valid
        drain == Least(acked, Len(c.flight_buffer))
        c1 == [c EXCEPT !.send_window = p.window]
    IN  Pump([s EXCEPT !.c = IF ~valid THEN c1 ELSE
            [c1 EXCEPT !.flight_buffer = SubSeq(@, drain + 1, Len(@)),
                       !.oldest_unacked_seq = p.ack + 1, !.retries = 0]])

\* apply_ack: take the peer's window and, if the acknowledgement is a new one, drop
\* what it covers from the flight buffer.
ApplyAck(s, p) ==
    LET c == s.c
        acked == p.ack - c.oldest_unacked_seq
        max_valid == c.send_seq - c.oldest_unacked_seq
        valid == acked > 0 /\ acked <= max_valid
        drain == Least(acked, Len(c.flight_buffer))
        c1 == [c EXCEPT !.send_window = p.window]
    IN  Pump([s EXCEPT !.c = IF ~valid THEN c1 ELSE
            [c1 EXCEPT !.flight_buffer = SubSeq(@, drain + 1, Len(@)),
                       !.oldest_unacked_seq = p.ack, !.retries = 0]])

\* handle_data, the receive half: how far the packet's sequence space lies behind
\* recv_seq, and what of it is new.
Behind(c, p)   == c.recv_seq - p.seq
TotalLen(p)    == Len(p.data) + (IF p.eom THEN 1 ELSE 0)
\* Seeded fault: a packet seen before is taken again.
InSequenceAgain(c, p) == Behind(c, p) >= 0 /\ TotalLen(p) > 0
InSequence(c, p) == Behind(c, p) >= 0 /\ Behind(c, p) < TotalLen(p)
NewBytes(c, p) ==
    IF InSequence(c, p)
    THEN SubSeq(p.data, Least(Behind(c, p), Len(p.data)) + 1, Len(p.data))
    ELSE <<>>

\* handle_data: advance recv_seq, apply the acknowledgement, and answer one that was
\* asked for.  The pump at its end finds nothing that the one in apply_ack left.
HandleData(c, p) ==
    LET s == ApplyAck([c |-> [c EXCEPT !.recv_seq = IF InSequence(c, p) THEN p.seq + TotalLen(p)
                                                    ELSE @],
                       out |-> <<>>], p)
    IN  IF p.kind = "data" THEN SendAck(s) ELSE s

\* resend_unacked: the flight buffer again, in packets of ADSP_MAX_DATA, no EOM.
ResendUnacked(c) ==
    LET n == Len(c.flight_buffer)
        count == (n + ADSP_MAX_DATA - 1) \div ADSP_MAX_DATA
    IN  [i \in 1..count |->
            LET from == (i - 1) * ADSP_MAX_DATA
            IN  DataPacket(c, c.oldest_unacked_seq + from,
                           SubSeq(c.flight_buffer, from + 1, Least(n, from + ADSP_MAX_DATA)),
                           FALSE)]

\* Seeded fault: a reopened window is not announced.
SetRecvWindowSilent(s, w) == [s EXCEPT !.c.recv_window = w]

\* set_recv_window: reopening a closed window is announced with one ack.
SetRecvWindow(s, w) ==
    LET s1 == [s EXCEPT !.c.recv_window = w]
    IN  IF s.c.recv_window = 0 /\ w > 0 THEN SendAck(s1) ELSE s1

\* update_window: the room left, none if it is less than a packet.
Window(held) ==
    LET room == Room(RX_WINDOW, held)
    IN  IF room < ADSP_MAX_DATA THEN 0 ELSE room

\* tx_backlog: the bytes in flight and those of every pending write.
TxBacklog(c) ==
    Len(c.flight_buffer)
    + Cardinality(UNION {{i} \X DOMAIN c.pending_writes[i].data : i \in DOMAIN c.pending_writes})

-----------------------------------------------------------------------------
(* The stream *)

\* What the endpoint of e did goes out to the peer.
Deliver(e, s) ==
    /\ conn' = [conn EXCEPT ![e] = s.c]
    /\ cable' = [cable EXCEPT ![Peer(e)] = @ \o s.out]

\* A stretch of the stream and, if it ends a message, its mark.
Marked(bytes, eom) == bytes \o (IF eom THEN <<MARK>> ELSE <<>>)
Written(e) == Cardinality({i \in DOMAIN sent[e] : sent[e][i] # MARK})

\* write_chunk, write_message and write_eom: as many of len bytes as fit the buffer
\* toward the peer and, with the last of them, the end of the message.
Write(e, len, eom_at_end) ==
    LET c == conn[e]
        n == Least(len, Room(TX_BUFFER, TxBacklog(c)))
        eom == eom_at_end /\ n = len
        data == [i \in 1..n |-> Written(e) + i]
    IN  /\ st[e] = "open"
        /\ IF len = 0 THEN eom_at_end ELSE n > 0
        /\ Deliver(e, Pump([c |-> [c EXCEPT !.pending_writes =
                                      Append(@, [data |-> data, eom |-> eom])],
                            out |-> <<>>]))
        /\ sent' = [sent EXCEPT ![e] = @ \o Marked(data, eom)]
        /\ UNCHANGED <<st, rx, eoms, skipping, arrived, got, lost>>

\* A packet for an open connection: handle_datagram, then sort_events, which queues
\* what it brought unless a message is being skipped, and updates the window.
Receive(e) ==
    LET p == Head(cable[e])
        c == conn[e]
        eom == p.eom /\ InSequence(c, p)
        rx1 == IF skipping[e] THEN rx[e] ELSE rx[e] \o NewBytes(c, p)
        s == SetRecvWindow(HandleData(c, p), Window(Len(rx1)))
    IN  /\ cable[e] # <<>> /\ p.kind # "close" /\ st[e] = "open"
        /\ conn' = [conn EXCEPT ![e] = s.c]
        /\ cable' = [cable EXCEPT ![e] = Tail(@), ![Peer(e)] = @ \o s.out]
        /\ rx' = [rx EXCEPT ![e] = rx1]
        /\ eoms' = [eoms EXCEPT ![e] = IF eom /\ ~skipping[e] THEN Append(@, Len(rx1)) ELSE @]
        /\ skipping' = [skipping EXCEPT ![e] = @ /\ ~eom]
        /\ arrived' = [arrived EXCEPT ![e] = @ \o Marked(NewBytes(c, p), eom)]
        /\ UNCHANGED <<st, sent, got, lost>>

\* A CloseAdvice closes an open connection, and a packet for one that is gone is
\* ignored.
ReceiveClose(e) ==
    LET closes == st[e] = "open"
    IN  /\ cable[e] # <<>>
        /\ Head(cable[e]).kind = "close" \/ st[e] # "open"
        /\ cable' = [cable EXCEPT ![e] = Tail(@)]
        /\ st' = [st EXCEPT ![e] = IF closes THEN "closed" ELSE @]
        /\ conn' = [conn EXCEPT ![e] = NewConnection]
        /\ UNCHANGED <<rx, eoms, skipping, sent, arrived, got, lost>>

\* reopen_window, after a read has left held bytes.
ReopenWindow(e, held) ==
    IF st[e] = "open"
    THEN Deliver(e, SetRecvWindow([c |-> conn[e], out |-> <<>>], Window(held)))
    ELSE UNCHANGED <<conn, cable>>

\* Where the first n bytes leave rx, the message ends after them.
EndsAfter(ends, n) == [i \in DOMAIN ends |-> ends[i] - n]

\* read_with_eom: up to size bytes, never past the end of a message.
Read(e, size) ==
    LET to_end == IF eoms[e] = <<>> THEN Len(rx[e]) ELSE Head(eoms[e])
        n == Least(size, to_end)
        ends == EndsAfter(eoms[e], n)
        eom == ends # <<>> /\ Head(ends) = 0
        rest == SubSeq(rx[e], n + 1, Len(rx[e]))
    IN  /\ st[e] # "dropped"
        /\ to_end # 0 \/ eoms[e] # <<>>
        /\ rx' = [rx EXCEPT ![e] = rest]
        /\ eoms' = [eoms EXCEPT ![e] = IF eom THEN Tail(ends) ELSE ends]
        /\ got' = [got EXCEPT ![e] = @ \o Marked(SubSeq(rx[e], 1, n), eom)]
        /\ ReopenWindow(e, Len(rest))
        /\ UNCHANGED <<st, skipping, sent, arrived, lost>>

\* read_message with a whole message waiting: returned if it fits the buffer, thrown
\* away as TooLong if not.
ReadMessage(e, size) ==
    LET end == Head(eoms[e])
        rest == SubSeq(rx[e], end + 1, Len(rx[e]))
    IN  /\ st[e] # "dropped" /\ eoms[e] # <<>>
        /\ rx' = [rx EXCEPT ![e] = rest]
        /\ eoms' = [eoms EXCEPT ![e] = EndsAfter(Tail(@), end)]
        /\ got' = [got EXCEPT ![e] = IF end > size THEN @
                                     ELSE @ \o Marked(SubSeq(rx[e], 1, end), TRUE)]
        /\ ReopenWindow(e, Len(rest))
        /\ UNCHANGED <<st, skipping, sent, arrived, lost>>

\* Seeded fault: what has come of a message too long is thrown away, but the rest of
\* it is not skipped.
SkipMessageStart(e, size) ==
    /\ st[e] = "open" /\ eoms[e] = <<>>
    /\ Len(rx[e]) > size \/ Len(rx[e]) > RX_WINDOW - ADSP_MAX_DATA
    /\ rx' = [rx EXCEPT ![e] = <<>>]
    /\ ReopenWindow(e, 0)
    /\ UNCHANGED <<st, eoms, skipping, sent, arrived, got, lost>>

\* read_message with no message end in sight, past the buffer or past the point where
\* the window shuts: TooLong, and the rest is skipped as it comes.
SkipMessage(e, size) ==
    /\ st[e] = "open" /\ eoms[e] = <<>>
    /\ Len(rx[e]) > size \/ Len(rx[e]) > RX_WINDOW - ADSP_MAX_DATA
    /\ rx' = [rx EXCEPT ![e] = <<>>]
    /\ skipping' = [skipping EXCEPT ![e] = TRUE]
    /\ ReopenWindow(e, 0)
    /\ UNCHANGED <<st, eoms, sent, arrived, got, lost>>

\* poll: unacknowledged bytes are sent again, or the connection is given up.
Poll(e) ==
    LET c == [conn[e] EXCEPT !.retries = @ + 1]
    IN  /\ st[e] = "open" /\ c.flight_buffer # <<>>
        /\ Len(cable[Peer(e)]) < MaxCable
        /\ IF c.retries > ADSP_MAX_RETRIES
           THEN /\ st' = [st EXCEPT ![e] = "closed"]
                /\ conn' = [conn EXCEPT ![e] = NewConnection]
                /\ UNCHANGED cable
           ELSE /\ Deliver(e, [c |-> c, out |-> ResendUnacked(c)])
                /\ UNCHANGED st
        /\ UNCHANGED <<rx, eoms, skipping, sent, arrived, got, lost>>

\* Drop of a stream: CloseAdvice if it was open, and everything held is forgotten.
\* close() is a drop that waits for flush_data.
Drop(e) ==
    /\ st[e] # "dropped"
    /\ st' = [st EXCEPT ![e] = "dropped"]
    /\ cable' = [cable EXCEPT ![Peer(e)] = IF st[e] = "open" THEN Append(@, CloseAdvice) ELSE @]
    /\ conn' = [conn EXCEPT ![e] = NewConnection]
    /\ rx' = [rx EXCEPT ![e] = <<>>] /\ eoms' = [eoms EXCEPT ![e] = <<>>]
    /\ skipping' = [skipping EXCEPT ![e] = FALSE]
    /\ UNCHANGED <<sent, arrived, got, lost>>

Lose(e) ==
    /\ cable[e] # <<>> /\ Len(lost) < MaxLoss
    /\ cable' = [cable EXCEPT ![e] = Tail(@)]
    /\ lost' = Append(lost, Head(cable[e]).kind)
    /\ UNCHANGED <<conn, st, rx, eoms, skipping, sent, arrived, got>>

\* Bound: MaxWritten bytes and message ends, WriteSizes bytes a write.
Writing ==
    \E e \in Writers, n \in WriteSizes, eom \in EomChoices :
        /\ Len(sent[1]) + Len(sent[2]) + n + (IF eom THEN 1 ELSE 0) <= MaxWritten
        /\ Write(e, n, eom)

ByteRead(e) == e \notin MessageReaders /\ \E size \in ReadSizes : Read(e, size)
MessageRead(e) ==
    e \in MessageReaders /\ \E size \in ReadSizes : ReadMessage(e, size) \/ SkipMessage(e, size)

AdspNext ==
    \/ Writing
    \/ \E e \in Ends : \/ Receive(e) \/ ReceiveClose(e) \/ Poll(e) \/ Drop(e) \/ Lose(e)
                       \/ ByteRead(e) \/ MessageRead(e)

AdspSpec == AdspInit /\ [][AdspNext]_adspVars

\* The runner feeds both ends what arrives and polls when a timer is due, and readers
\* read.  Nobody has to write or to drop a stream, and nothing has to be lost.  One
\* fairness condition is enough: none of these steps can be taken for ever.
Work == \E e \in Ends :
    ReceiveClose(e) \/ Poll(e) \/ ByteRead(e) \/ MessageRead(e) \/ Receive(e)

AdspFairSpec == AdspSpec /\ WF_adspVars(Work)

-----------------------------------------------------------------------------
(* Properties *)

\* Types of the state.  In it: a connection whose retries are used up is gone, and no
\* packet advertises more than RX_WINDOW.
AdspTypeOK ==
    /\ conn \in [Ends -> Connection]
    /\ st \in [Ends -> {"open", "closed", "dropped"}]
    /\ rx \in [Ends -> Seq(Nat)] /\ eoms \in [Ends -> Seq(Nat)]
    /\ skipping \in [Ends -> BOOLEAN]
    /\ cable \in [Ends -> Seq(Packet)]
    /\ \A h \in {sent, arrived, got} : h \in [Ends -> Seq(Nat)]
    /\ lost \in Seq({"data", "ack", "close"})

NoMarks(s) == \A i \in DOMAIN s : s[i] # MARK

\* handle_data against resend_unacked: what an end delivers is what its peer wrote, with
\* no byte lost, repeated or moved, however retransmissions, acknowledgements and losses
\* interleave.  Once message ends are written it holds only if nothing is lost: an EOM is
\* never repeated, and apply_ack counts its phantom byte against the flight buffer.
StreamIntact ==
    \A e \in Ends :
        NoMarks(sent[e]) \/ lost = <<>> => IsPrefix(arrived[Peer(e)], sent[e])

\* flush_data: while the connection lives and no message ends are written, an empty
\* backlog means that the peer has received every byte written.  The backlog of a
\* connection given up is 0 too, and flush_data tests it before it tests closed.
FlushedIsReceived ==
    \A e \in Ends :
        st[e] = "open" /\ NoMarks(sent[e]) /\ TxBacklog(conn[e]) = 0
            => arrived[Peer(e)] = sent[e]

\* read_with_eom: reads return what arrived, byte for byte and message end for message
\* end, whatever their buffers and whatever arrives between them.
ReadsInOrder ==
    \A e \in Ends \ MessageReaders : IsPrefix(got[e], arrived[e])

Starts(s) == {s[i] : i \in {j \in DOMAIN s : j = 1 \/ s[j - 1] = MARK}}
Follows(s, a, b) == \E i \in DOMAIN s : i > 1 /\ s[i - 1] = a /\ s[i] = b

\* read_message: what it returns are whole messages as they arrived, never part of one,
\* also after one too long was thrown away while it was still arriving.
WholeMessages ==
    \A e \in MessageReaders : \A i \in DOMAIN got[e] :
        IF i = 1 \/ got[e][i - 1] = MARK
        THEN got[e][i] \in Starts(arrived[e])
        ELSE Follows(arrived[e], got[e][i - 1], got[e][i])

\* Together: what a caller reads is what arrived.
ReadsRight == ReadsInOrder /\ WholeMessages

\* pump, set_recv_window and poll: everything written arrives, unless an end is closed,
\* though windows close and data packets are lost.  Excepted are the two losses the code
\* does not repair: of the acknowledgement that says a window is open again, and of a
\* message end.
AllArrives ==
    <>[](\A e \in Ends :
        \/ \E d \in Ends : st[d] # "open"
        \/ ~NoMarks(sent[e]) /\ lost # <<>>
        \/ \E i \in DOMAIN lost : lost[i] = "ack"
        \/ arrived[Peer(e)] = sent[e])

=============================================================================
