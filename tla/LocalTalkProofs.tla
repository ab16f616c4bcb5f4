-------------------------- MODULE LocalTalkProofs --------------------------
(***************************************************************************)
(* Proofs about node numbers on the LocalTalk cable, for any numbers,      *)
(* any length of a burst and any order of events: the adapter listens for  *)
(* the host's address (NodeBits), and the embedded node settles on the     *)
(* host's number only after a whole burst of enquiries went unanswered     *)
(* (NodesUnique).                                                          *)
(***************************************************************************)
EXTENDS LocalTalk, TLAPS

-----------------------------------------------------------------------------
(* The inductive invariant *)

\* The embedded node's record, whatever is in its outbox.
EmbeddedNode(n) ==
    /\ n = [cand |-> n.cand, probes |-> n.probes, node |-> n.node, net |-> n.net, routed |-> n.routed, out |-> n.out]
    /\ n.cand \in Nodes /\ n.node \in Nodes \cup {0}
    /\ n.probes \in 0..DefaultProbes

Types ==
    /\ EmbeddedNode(m)
    /\ d = [node |-> d.node, net |-> d.net, settled |-> d.settled, heard |-> d.heard]
    /\ d.node \in Nodes /\ d.settled \in BOOLEAN
    /\ tash = [st |-> tash.st, bits |-> tash.bits, fresh |-> tash.fresh]
    /\ tash.fresh \in BOOLEAN /\ swallowed \in BOOLEAN /\ forced \in BOOLEAN
    /\ unheard \in Nat

\* While it probes for the host's number, the embedded node has counted as probes exactly the
\* enquiries the host did not answer: whatever makes it take a candidate starts both counts anew.
BurstCounted == m.node = 0 /\ m.cand = d.node /\ d.settled => forced \/ unheard = m.probes

IInv == Types /\ NodeBits /\ BurstCounted /\ NodesUnique

-----------------------------------------------------------------------------
(* What a frame does to the embedded node *)

\* A frame never takes the number it has settled on, and a new candidate starts a new burst.
Reacts(n, r) ==
    /\ EmbeddedNode(r) /\ r.node = n.node
    /\ \/ r.cand = n.cand /\ r.probes = n.probes
       \/ n.node = 0 /\ r.cand # n.cand /\ r.probes = 0

\* A claim of the number it probes for makes the node take another; any other changes nothing.
LEMMA OnAckReacts ==
    ASSUME NEW n, EmbeddedNode(n), NEW src, NEW r \in OnAck(n, src)
    PROVE  /\ Reacts(n, r)
           /\ n.node = 0 /\ n.cand = src => r.cand # n.cand
           /\ n.cand # src => r = n
<1>0. DefaultProbes \in Nat  BY LocalTalkBounds
<1>1. CASE n.node = 0 /\ n.cand = src
  <2>1. PICK c \in Nodes \ {src} : r = [n EXCEPT !.cand = c, !.probes = 0]  BY <1>1 DEF OnAck
  <2>2. r = [cand |-> c, probes |-> 0, node |-> n.node, net |-> n.net, routed |-> n.routed, out |-> n.out]
    BY <2>1 DEF EmbeddedNode
  <2>3. /\ r.cand = c /\ r.probes = 0 /\ r.node = n.node
        /\ r.net = n.net /\ r.routed = n.routed /\ r.out = n.out
    BY <2>2
  <2>4. r.cand \in Nodes /\ r.node \in Nodes \cup {0} /\ r.probes \in 0..DefaultProbes
    BY <1>0, <2>3 DEF EmbeddedNode
  <2>5. r = [cand |-> r.cand, probes |-> r.probes, node |-> r.node, net |-> r.net, routed |-> r.routed, out |-> r.out]
    BY <2>2, <2>3
  <2> QED BY <1>1, <2>1, <2>3, <2>4, <2>5 DEF Reacts, EmbeddedNode
<1>2. CASE ~(n.node = 0 /\ n.cand = src)
  BY <1>2 DEF OnAck, Reacts
<1> QED BY <1>1, <1>2

\* A datagram it sends takes room in its outbox only.
LEMMA SendDdpReacts ==
    ASSUME NEW n, EmbeddedNode(n), NEW to, NEW body
    PROVE  Reacts(n, SendDdp(n, to, body))
BY DEF SendDdp, Reacts, EmbeddedNode

\* Whatever frame arrives.
LEMMA HandleFrameReacts ==
    ASSUME NEW n, EmbeddedNode(n), NEW f, NEW r \in HandleFrame(n, f)
    PROVE  Reacts(n, r)
<1>0. Reacts(n, n)  BY DEF Reacts
<1>1. CASE f.kind = "ack"  BY <1>1, OnAckReacts DEF HandleFrame
<1>2. CASE f.kind # "ack"
  <2>1. r = n \/ r = Dispatch(n, f)  BY <1>2 DEF HandleFrame
  <2>2. Reacts(n, Dispatch(n, f))
    BY <1>0, SendDdpReacts DEF Dispatch, NbpHandlePacket, AepRespond
  <2> QED BY <1>0, <2>1, <2>2
<1> QED BY <1>1, <1>2

-----------------------------------------------------------------------------
(* Every step preserves the invariant *)

\* The node starts a burst, and the host has sent no probe yet.
LEMMA InitInv == Init => IInv
<1> SUFFICES ASSUME Init PROVE IInv  OBVIOUS
<1>0. DefaultProbes \in Nat  BY LocalTalkBounds
<1>1. EmbeddedNode(m) /\ m.cand \in Nodes  BY <1>0 DEF Init, EmbeddedNode
<1>2. d.node \in Nodes  BY <1>1 DEF Init
<1> QED BY <1>1, <1>2 DEF Init, IInv, Types, NodeBits, BurstCounted, NodesUnique

\* Every step: those of the embedded node's own poll are the ones that count and settle.
LEMMA NextInv == IInv /\ [Next]_vars => IInv'
<1> SUFFICES ASSUME IInv, [Next]_vars PROVE IInv'  OBVIOUS
<1> USE DEF IInv
<1>0. DefaultProbes \in Nat \ {0} /\ 0 \notin Nodes  BY LocalTalkBounds, LocalTalkNodes
<1>1. CASE Poll
  <2> USE DEF Poll
  <2>1. UNCHANGED <<d, tash, forced, swallowed>>  BY <1>1
  <2>2. CASE m.probes < DefaultProbes
    <3> DEFINE heard == tash.st = "online" /\ tash.bits = m.cand
               probed == [m EXCEPT !.probes = @ + 1]
    <3>1. EmbeddedNode(probed) /\ probed.cand = m.cand /\ probed.node = m.node /\ probed.probes = m.probes + 1
      BY <1>0, <2>2 DEF Types, EmbeddedNode
    <3>2. CASE /\ m' \in OnAck(probed, IF heard THEN m.cand ELSE 0)
               /\ unheard' = IF heard \/ m.cand # d.node THEN 0 ELSE unheard + 1
      <4>1. CASE heard
        <5>0. m' \in OnAck(probed, m.cand) /\ probed.node = 0  BY <1>1, <3>1, <3>2, <4>1
        <5> HIDE DEF probed, heard
        <5>1. Reacts(probed, m') /\ m'.cand # m.cand  BY <3>1, <5>0, OnAckReacts
        <5>2. unheard' = 0 /\ m'.probes = 0 /\ m'.node = 0  BY <1>1, <3>1, <3>2, <4>1, <5>1 DEF Reacts
        <5> QED BY <2>1, <5>1, <5>2, <1>0 DEF Types, Reacts, NodeBits, BurstCounted, NodesUnique
      <4>2. CASE ~heard
        <5>1. m' = probed
          <6>1. m' \in OnAck(probed, 0) /\ probed.cand # 0
            BY <1>0, <3>1, <3>2, <4>2 DEF EmbeddedNode
          <6> HIDE DEF probed
          <6> QED BY <3>1, <6>1, OnAckReacts
        <5> HIDE DEF probed
        <5>2. m'.cand = m.cand /\ m'.node = 0 /\ m'.probes = m.probes + 1  BY <1>1, <3>1, <5>1
        <5> QED BY <2>1, <3>1, <3>2, <4>2, <5>1, <5>2, <1>0 DEF Types, NodeBits, BurstCounted, NodesUnique
      <4> QED BY <4>1, <4>2
    <3>3. CASE m' = probed /\ unheard' = IF m.cand # d.node THEN 0 ELSE unheard + 1
      <4> HIDE DEF probed
      <4>2. m'.cand = m.cand /\ m'.node = 0 /\ m'.probes = m.probes + 1  BY <1>1, <3>1, <3>3
      <4> QED BY <2>1, <3>1, <3>3, <4>2, <1>0 DEF Types, NodeBits, BurstCounted, NodesUnique
    <3> QED BY <1>1, <2>2, <3>2, <3>3
  <2>3. CASE ~(m.probes < DefaultProbes)
    <3>1. m' = [m EXCEPT !.node = m.cand, !.probes = 0] /\ unheard' = IF m.cand = d.node THEN unheard ELSE 0
      BY <1>1, <2>3
    <3>2. m' = [cand |-> m.cand, probes |-> 0, node |-> m.cand, net |-> m.net, routed |-> m.routed, out |-> m.out]
      BY <3>1 DEF Types, EmbeddedNode
    <3>3. m.probes = DefaultProbes /\ m.node = 0  BY <1>0, <1>1, <2>3 DEF Types, EmbeddedNode
    <3>4. EmbeddedNode(m') /\ m'.node = m.cand /\ m'.node # 0  BY <1>0, <3>2 DEF Types, EmbeddedNode
    <3>5. unheard' \in Nat  BY <3>1 DEF Types
    <3>6. m'.node = d.node /\ d.settled => forced \/ unheard' = DefaultProbes
      BY <3>1, <3>3, <3>4 DEF BurstCounted
    <3> QED BY <2>1, <3>4, <3>5, <3>6 DEF Types, NodeBits, BurstCounted, NodesUnique
  <2> QED BY <2>2, <2>3
<1>2. CASE Transmit
  <2>1. m' = [cand |-> m.cand, probes |-> m.probes, node |-> m.node, net |-> m.net, routed |-> m.routed, out |-> Tail(m.out)]
    BY <1>2 DEF Transmit, Types, EmbeddedNode
  <2> QED BY <1>2, <2>1 DEF Transmit, Types, EmbeddedNode, NodeBits, BurstCounted, NodesUnique
<1>3. CASE Confirm
  <2>1. d' = [node |-> d.node, net |-> d.net, settled |-> TRUE, heard |-> d.heard]
        /\ tash' = [st |-> tash.st, bits |-> tash.bits, fresh |-> TRUE]
    BY <1>3 DEF Confirm, Types
  <2>2. forced' = (d.node \in {m.node, m.cand}) /\ UNCHANGED <<m, unheard, swallowed>>  BY <1>3 DEF Confirm
  <2>3. Types'  BY <2>1, <2>2 DEF Types, EmbeddedNode
  <2> QED BY <2>1, <2>2, <2>3 DEF NodeBits, BurstCounted, NodesUnique
<1>4. CASE SetAddr
  <2>1. PICK n \in Nodes \ {d.node} : d' = [d EXCEPT !.node = n] /\ forced' = (n \in {m.node, m.cand})
    BY <1>4 DEF SetAddr
  <2>2. d' = [node |-> n, net |-> d.net, settled |-> d.settled, heard |-> d.heard]
        /\ tash' = [st |-> tash.st, bits |-> tash.bits, fresh |-> TRUE]
    BY <1>4, <2>1 DEF SetAddr, Types
  <2>3. unheard' = 0 /\ UNCHANGED <<m, swallowed>>  BY <1>4 DEF SetAddr
  <2>4. Types'  BY <2>1, <2>2, <2>3 DEF Types, EmbeddedNode
  <2> QED BY <2>1, <2>2, <2>3, <2>4 DEF NodeBits, BurstCounted, NodesUnique
<1>5. CASE OpenSerial
  <2>1. tash' = [st |-> "opened", bits |-> tash.bits, fresh |-> tash.fresh]  BY <1>5 DEF OpenSerial, Types
  <2> QED BY <1>5, <2>1 DEF OpenSerial, Types, NodeBits, BurstCounted, NodesUnique
<1>6. CASE SetNodeIds
  <2>1. tash' = [st |-> "programmed", bits |-> d.node, fresh |-> tash.fresh]  BY <1>6 DEF SetNodeIds, Types
  <2> QED BY <1>6, <2>1 DEF SetNodeIds, Types, NodeBits, BurstCounted, NodesUnique
<1>7. CASE Online
  <2>1. tash' = [st |-> "online", bits |-> tash.bits, fresh |-> FALSE]  BY <1>7 DEF Online, Types
  <2> QED BY <1>7, <2>1 DEF Online, Types, NodeBits, BurstCounted, NodesUnique
<1>8. CASE AddrChanged
  <2>1. tash' = [st |-> tash.st, bits |-> d.node, fresh |-> FALSE]  BY <1>8 DEF AddrChanged, Types
  <2> QED BY <1>8, <2>1 DEF AddrChanged, Types, NodeBits, BurstCounted, NodesUnique
<1>9. CASE Unplug
  <2>1. tash' = [st |-> "closed", bits |-> 0, fresh |-> tash.fresh]  BY <1>9 DEF Unplug, Types
  <2> QED BY <1>9, <2>1 DEF Unplug, Types, NodeBits, BurstCounted, NodesUnique
<1>10. CASE Outbound
  <2>1. UNCHANGED <<d, tash, forced, swallowed>>  BY <1>10 DEF Outbound
  <2>2. CASE /\ m' \in HandleFrame(m, Head(outq))
             /\ unheard' = IF m'.cand = m.cand THEN unheard ELSE 0
    <3>1. Reacts(m, m')  BY <2>2, HandleFrameReacts DEF Types
    <3> QED BY <1>0, <2>1, <2>2, <3>1 DEF Types, Reacts, NodeBits, BurstCounted, NodesUnique
  <2>3. CASE UNCHANGED <<m, unheard>>
    BY <2>1, <2>3 DEF Types, EmbeddedNode, NodeBits, BurstCounted, NodesUnique
  <2> QED BY <1>10, <2>2, <2>3 DEF Outbound
<1>11. CASE Broadcast
  <2>1. PICK by \in SUBSET {"m", "d"} \ {{}} :
          /\ m' = IF "m" \in by /\ m.node # 0 THEN [m EXCEPT !.routed = TRUE, !.net = Net] ELSE m
          /\ LET hears == "d" \in by /\ tash.st = "online" IN
             /\ d' = IF hears THEN [d EXCEPT !.net = Net, !.heard = "live"] ELSE d
             /\ tash' = IF hears /\ d.net # Net THEN [tash EXCEPT !.fresh = TRUE] ELSE tash
    BY <1>11 DEF Broadcast
  <2>2. EmbeddedNode(m') /\ m'.cand = m.cand /\ m'.node = m.node /\ m'.probes = m.probes
    BY <2>1 DEF Types, EmbeddedNode
  <2>3. /\ d' = [node |-> d'.node, net |-> d'.net, settled |-> d'.settled, heard |-> d'.heard]
        /\ d'.node = d.node /\ d'.settled = d.settled
    BY <2>1 DEF Types
  <2>4. /\ tash' = [st |-> tash'.st, bits |-> tash'.bits, fresh |-> tash'.fresh]
        /\ tash'.st = tash.st /\ tash'.bits = tash.bits /\ tash'.fresh \in {TRUE, tash.fresh}
    BY <2>1 DEF Types
  <2>5. UNCHANGED <<forced, unheard, swallowed>>  BY <1>11 DEF Broadcast
  <2> QED BY <2>2, <2>3, <2>4, <2>5 DEF Types, NodeBits, BurstCounted, NodesUnique
<1>12. CASE ExpireRouter
  <2>1. d' = [node |-> d.node, net |-> d.net, settled |-> d.settled, heard |-> "expired"]
    BY <1>12 DEF ExpireRouter, Types
  <2> QED BY <1>12, <2>1 DEF ExpireRouter, Types, EmbeddedNode, NodeBits, BurstCounted, NodesUnique
<1>13. CASE \E b \in fwd : Forward(b)
  <2>1. PICK b \in fwd : Forward(b)  BY <1>13
  <2>2. PICK f : f.kind = "ddp" /\ m' \in HandleFrame(m, f)  BY <2>1 DEF Forward, Ddp
  <2>3. UNCHANGED <<d, tash, forced, unheard, swallowed>>  BY <2>1 DEF Forward
  <2>4. Reacts(m, m')  BY <2>2, HandleFrameReacts DEF Types
  <2>5. m'.cand = m.cand /\ m'.probes = m.probes
    BY <2>2, SendDdpReacts DEF HandleFrame, Dispatch, NbpHandlePacket, AepRespond, SendDdp, Types, EmbeddedNode
  <2> QED BY <2>3, <2>4, <2>5 DEF Types, Reacts, NodeBits, BurstCounted, NodesUnique
<1>14. CASE UNCHANGED node
  BY <1>14 DEF node, Types, EmbeddedNode, NodeBits, BurstCounted, NodesUnique
<1>15. CASE \E n \in {"m", "d"} : Register(n)
  BY <1>15 DEF Register, Types, EmbeddedNode, NodeBits, BurstCounted, NodesUnique
<1>16. CASE AnswerEnq \/ NbpActor \/ EchoActor \/ \E i \in ids : CallLookup(i) \/ CallEcho(i)
  <2>1. UNCHANGED node
    BY <1>16 DEF AnswerEnq, NbpActor, EchoActor, CallLookup, CallEcho, HandleReply, HandleLkUp, HandleLookup,
       CheckTimeouts, HandleEcho, HandleEchoed, SendEcho
  <2> QED BY <1>14, <2>1
<1> QED BY <1>1, <1>2, <1>3, <1>4, <1>5, <1>6, <1>7, <1>8, <1>9, <1>10, <1>11, <1>12, <1>13, <1>14, <1>15, <1>16
        DEF Next, vars

-----------------------------------------------------------------------------
\* Whatever addresses are set, adapters unplugged and frames lost: an adapter in use, with no change
\* left to be programmed, takes the frames for the host's address, unless a change was swallowed.
THEOREM Listens == Spec => []NodeBits
<1>1. IInv => NodeBits  BY DEF IInv
<1> QED BY <1>1, InitInv, NextInv, PTL DEF Spec

\* The embedded node and the settled host hold one number only when a whole burst of enquiries for it
\* went unanswered since the node took it as a candidate, or the host took a number held or probed.
THEOREM NumbersUnique == Spec => []NodesUnique
<1>1. IInv => NodesUnique  BY DEF IInv
<1> QED BY <1>1, InitInv, NextInv, PTL DEF Spec
=============================================================================
