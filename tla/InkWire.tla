------------------------------- MODULE InkWire -------------------------------
(***************************************************************************)
(* InkTalk's second core: it decodes LocalTalk from a DMA ring, answers     *)
(* ENQ and RTS by itself, and sends what core 0 queues, by CSMA and the     *)
(* RTS/CTS/DATA dialog.  Frames cross between the cores in two small rings  *)
(* of slots, and core 0 parks core 1 in RAM while it writes the flash.      *)
(*                                                                          *)
(* The line is a sequence of whole frames and of the silences between them; *)
(* bits, bytes and microseconds are left out: what a deadline decides is a  *)
(* choice wherever the code lets it fall either way.                        *)
(***************************************************************************)
EXTENDS Integers, Sequences

CONSTANTS Us, Peer,       \* the nodes of this board and of the other one on the cable
          TxSlots, RxSlots, \* TX_SLOT_COUNT, RX_SLOT_COUNT
          Wrap,           \* where the free-running indices wrap
          StackCap,       \* frames the stack's channel holds
          LineCap,        \* what the line may hold undecoded
          MaxAttempts,    \* MAX_ATTEMPTS
          MaxEvents       \* frames and commands from outside

ASSUME NodesDiffer == Us # Peer /\ {Us, Peer} \cap {"none", "all"} = {}
ASSUME SlotsDivide == /\ {TxSlots, RxSlots, Wrap, MaxAttempts, LineCap} \subseteq Nat \ {0}
                      /\ {StackCap, MaxEvents} \subseteq Nat
                      /\ Wrap % TxSlots = 0 /\ Wrap % RxSlots = 0
                      /\ Wrap > TxSlots /\ Wrap > RxSlots

VARIABLES core1,   \* where core 1 is, the node it answers for, its pending reply, its attempts
          line,    \* decoded by the PIO and not yet read from the DMA ring
          flags,   \* NODE_UPDATED, PARK_REQUEST, PARKED
          node,    \* the node core 0 wants answered for
          tx, rx,  \* the two rings: slots, head and tail
          stackRx, \* STACK_RX
          events,  \* events used up
          submitted, gone  \* history: frames core 0 queued and those core 1 was done with

air == <<core1, line, rx>>
queue == <<tx, submitted, gone>>
signals == <<flags, node>>

None == "none"
Broadcast == "all"

Frame(kind, dst, src, id) == [kind |-> kind, dst |-> dst, src |-> src, id |-> id]
Quiet == Frame("quiet", None, None, 0)
NoFrame == Frame("none", None, None, 0)

Ring(n) == [slots |-> [i \in 0..n - 1 |-> NoFrame], head |-> 0, tail |-> 0]

Boot == [pc |-> "top", node |-> None, pending |-> NoFrame, attempts |-> MaxAttempts, asked |-> FALSE, seen |-> FALSE]

WireInit ==
    /\ core1 = Boot
    /\ line = <<>>
    /\ flags = {}
    /\ node = None
    /\ tx = Ring(TxSlots)
    /\ rx = Ring(RxSlots)
    /\ stackRx = <<>>
    /\ submitted = 0 /\ gone = <<>>

Event == events < MaxEvents /\ events' = events + 1

(* The rings.  Indices run free; a slot is written before its head is       *)
(* published and read before its tail is released.                          *)
Used(r) == (r.head - r.tail + Wrap) % Wrap
Push(r, n, f) == [r EXCEPT !.slots[r.head % n] = f, !.head = (@ + 1) % Wrap]
Front(r, n) == r.slots[r.tail % n]
Release(r) == [r EXCEPT !.tail = (@ + 1) % Wrap]

PushRx(f) == rx' = IF Used(rx) < RxSlots THEN Push(rx, RxSlots, f) ELSE rx

(* What core 1 answers by itself. *)
AutoReply(f, our) ==
    IF f.dst # our THEN NoFrame
    ELSE CASE f.kind = "enq" -> Frame("ack", our, our, 0)
           [] f.kind = "rts" -> Frame("cts", f.src, our, 0)
           [] OTHER -> NoFrame

CtsMatchesNodes(f, src, dst) == f.dst = src /\ f.src = dst

CtsMatches(f, src, dst) == f.kind = "cts" /\ f.dst = src /\ f.src = dst

Directed(f) == f.dst # Broadcast

(***************************************************************************)
(* The receive engine, which the main loop and the CSMA waits share: `c` is *)
(* core 1 as the caller leaves it.  What core 1 sends comes back to it.     *)
(***************************************************************************)
IsEcho(f, c) == f.src = c.node

FrameEnd(f, c) ==
    IF IsEcho(f, c) THEN core1' = c /\ UNCHANGED rx
    ELSE /\ PushRx(f)
         /\ core1' = IF AutoReply(f, c.node) # NoFrame THEN [c EXCEPT !.pending = AutoReply(f, c.node)] ELSE c

(* The marker says that the sender has let go of the line.  A pending reply *)
(* goes out unless its window has closed.                                   *)
SendPending(rest, c) ==
    /\ core1' = [c EXCEPT !.pending = NoFrame]
    /\ UNCHANGED rx
    /\ \/ line' = rest
       \/ c.pending # NoFrame /\ line' = rest \o <<c.pending, Quiet>>

Feed(c) ==
    /\ line # <<>>
    /\ IF Head(line) = Quiet THEN SendPending(Tail(line), c)
       ELSE FrameEnd(Head(line), c) /\ line' = Tail(line)

ExpirePending(c) ==
    /\ line = <<>>
    /\ c.pending # NoFrame
    /\ core1' = [c EXCEPT !.pending = NoFrame]
    /\ UNCHANGED <<line, rx>>

(***************************************************************************)
(* The main loop: the flags ("top"), then a word of the DMA ring or a frame *)
(* to send ("work").  `seen` is NODE_UPDATED as it was read before parking. *)
(***************************************************************************)
Becomes(pc) == [core1 EXCEPT !.pc = pc]

NothingToDo == core1.pc = "work" /\ line = <<>> /\ core1.pending = NoFrame /\ Used(tx) = 0

ReadFlags ==
    /\ core1.pc = "top" \/ NothingToDo
    /\ IF "PARK_REQUEST" \in flags
       THEN /\ flags' = flags \cup {"PARKED"}
            /\ core1' = [Becomes("parked") EXCEPT !.seen = "NODE_UPDATED" \in flags]
       ELSE /\ flags' = flags \ {"NODE_UPDATED"}
            /\ core1' = [Becomes("work") EXCEPT !.node = IF "NODE_UPDATED" \in flags THEN node ELSE @]
    /\ UNCHANGED <<line, rx, node>> /\ UNCHANGED <<queue, stackRx>>

(* park_in_ram: the spin ends once the request is gone, and only then is    *)
(* PARKED cleared.                                                          *)
Unpark ==
    /\ core1.pc = "parked"
    /\ "PARK_REQUEST" \notin flags
    /\ core1' = Becomes("leaving")
    /\ UNCHANGED <<line, rx, queue, stackRx, signals>>

ClearParked ==
    /\ core1.pc = "leaving"
    /\ flags' = flags \ ({"PARKED"} \cup IF core1.seen THEN {"NODE_UPDATED"} ELSE {})
    /\ core1' = [Becomes("work") EXCEPT !.seen = FALSE, !.node = IF core1.seen THEN node ELSE @]
    /\ UNCHANGED <<line, rx, node, queue, stackRx>>

Receive ==
    /\ core1.pc = "work"
    /\ Feed(Becomes("top")) \/ ExpirePending(Becomes("top"))
    /\ UNCHANGED <<queue, stackRx, signals>>

(* prep_for_next_frame *)
StartTransmit ==
    /\ core1.pc = "work"
    /\ line = <<>> /\ core1.pending = NoFrame /\ Used(tx) > 0
    /\ core1' = [Becomes("csma") EXCEPT !.attempts = MaxAttempts]
    /\ UNCHANGED <<line, rx, queue, stackRx, signals>>

(***************************************************************************)
(* csma_transmit and directed_tx.  The slot stays the frame's until core 1  *)
(* is done with it, sent or not, and is read each time something goes out.  *)
(***************************************************************************)
Sending == Front(tx, TxSlots)

ConsumeAttempt(c) == [c EXCEPT !.attempts = IF @ > 0 THEN @ - 1 ELSE 0]

Finish(f) ==
    /\ tx' = Release(tx)
    /\ gone' = Append(gone, f.id)
    /\ core1' = Becomes("top")
    /\ UNCHANGED submitted

(* Frames that arrive before the silence the backoff asks for are decoded   *)
(* and answered; heard within it they defer the frame, like any noise.      *)
WaitIdle ==
    /\ core1.pc = "csma" /\ core1.attempts > 0
    /\ \E c \in {core1, ConsumeAttempt(core1)} : Feed(c) \/ ExpirePending(c)
    /\ UNCHANGED <<queue, stackRx, signals>>

Deferred ==
    /\ core1.pc = "csma" /\ core1.attempts > 0
    /\ line = <<>> /\ core1.pending = NoFrame
    /\ core1' = ConsumeAttempt(core1)
    /\ UNCHANGED <<line, rx, queue, stackRx, signals>>

Exhausted ==
    /\ core1.pc = "csma" /\ core1.attempts = 0
    /\ Finish(Sending)
    /\ UNCHANGED <<line, rx, stackRx, signals>>

Transmit ==
    /\ core1.pc = "csma" /\ core1.attempts > 0
    /\ line = <<>> /\ core1.pending = NoFrame
    /\ IF Directed(Sending)
       THEN /\ line' = <<Frame("rts", Sending.dst, Sending.src, 0), Quiet>>
            /\ core1' = [Becomes("listen") EXCEPT !.asked = TRUE]
            /\ UNCHANGED queue
       ELSE line' = <<Sending, Quiet>> /\ Finish(Sending)
    /\ UNCHANGED <<rx, stackRx, signals>>

(* While it listens for the CTS, core 1 decodes the line on its own: what   *)
(* is not the CTS is thrown away, an RTS or a broadcast like our own echo.  *)
Listen ==
    /\ core1.pc = "listen"
    /\ line # <<>> /\ line' = Tail(line)
    /\ IF CtsMatches(Head(line), Sending.src, Sending.dst)
       THEN PushRx(Head(line)) /\ core1' = Becomes("data")
       ELSE UNCHANGED <<core1, rx>>
    /\ UNCHANGED <<queue, stackRx, signals>>

CtsTimeoutUncounted ==
    /\ core1.pc = "listen"
    /\ \A i \in DOMAIN line : ~CtsMatches(line[i], Sending.src, Sending.dst)
    /\ core1' = [core1 EXCEPT !.pc = "csma", !.asked = FALSE]
    /\ UNCHANGED <<line, rx, queue, stackRx, signals>>

CtsTimeout ==
    /\ core1.pc = "listen"
    /\ \A i \in DOMAIN line : ~CtsMatches(line[i], Sending.src, Sending.dst)
    /\ core1' = [ConsumeAttempt(core1) EXCEPT !.pc = "csma", !.asked = FALSE]
    /\ UNCHANGED <<line, rx, queue, stackRx, signals>>

SendData ==
    /\ core1.pc = "data"
    /\ Finish(Sending)
    /\ line' = line \o <<Sending, Quiet>>
    /\ UNCHANGED <<rx, stackRx, signals>>

Core1 ==
    /\ \/ ReadFlags \/ Unpark \/ ClearParked \/ Receive \/ StartTransmit
       \/ WaitIdle \/ Deferred \/ Exhausted \/ Transmit \/ Listen \/ CtsTimeout \/ SendData
    /\ UNCHANGED events

(***************************************************************************)
(* Core 0's side of the rings, and the other node.                          *)
(***************************************************************************)
(* node_acquired: core 1 answers for the node from its next look at the     *)
(* flags on.                                                                *)
SetNode ==
    /\ node = None
    /\ "NODE_UPDATED" \notin flags
    /\ node' = Us
    /\ flags' = flags \cup {"NODE_UPDATED"}
    /\ UNCHANGED <<air, queue, stackRx, events>>

(* submit_tx waits for a free slot; nothing else runs between that and the  *)
(* publishing of the slot.                                                  *)
SubmitTx(dst) ==
    /\ Used(tx) < TxSlots
    /\ tx' = Push(tx, TxSlots, Frame("data", dst, node, submitted + 1))
    /\ submitted' = submitted + 1
    /\ UNCHANGED <<gone, air, stackRx, signals>>

(* rx_dispatch_task drops what the stack's channel has no room for. *)
Dispatch ==
    /\ Used(rx) > 0
    /\ stackRx' = IF Len(stackRx) < StackCap THEN Append(stackRx, Front(rx, RxSlots)) ELSE stackRx
    /\ rx' = Release(rx)
    /\ UNCHANGED <<core1, line, queue, signals, events>>

Take ==
    /\ stackRx # <<>>
    /\ stackRx' = Tail(stackRx)
    /\ UNCHANGED <<air, queue, signals, events>>

(* Data for everybody; data for this board alone is decoded no differently. *)
PeerSends(kind, dst) ==
    /\ Event
    /\ Len(line) + 2 <= LineCap
    /\ line' = line \o <<Frame(kind, dst, Peer, events'), Quiet>>
    /\ UNCHANGED <<core1, rx, queue, stackRx, signals>>

(* The peer answers an RTS while core 1 listens for it. *)
PeerAnswers ==
    /\ core1.pc = "listen" /\ core1.asked
    /\ core1' = [core1 EXCEPT !.asked = FALSE]
    /\ line' = line \o <<Frame("cts", Us, Peer, 0), Quiet>>
    /\ UNCHANGED <<rx, queue, stackRx, signals, events>>

=============================================================================
