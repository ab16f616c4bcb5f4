----------------------------- MODULE AdspProofs -----------------------------
(***************************************************************************)
(* Proofs about the data stream of an established ADSP connection, for any *)
(* packet size, windows, buffers and retries: what arrives is what was     *)
(* written, an empty backlog means received, and readers read what arrived *)
(* and whole messages.                                                     *)
(***************************************************************************)
EXTENDS Adsp, TLAPS, SequenceTheorems, FiniteSetTheorems, WellFoundedInduction

-----------------------------------------------------------------------------
(* The inductive invariant *)

Bit(eom) == IF eom THEN 1 ELSE 0

\* What follows the first x of the stream S is data and, if eom, a mark.
At(S, x, data, eom) ==
    /\ x + Len(data) + Bit(eom) <= Len(S)
    /\ \A i \in 1..Len(data) : S[x + i] = data[i]
    /\ eom => S[x + Len(data) + 1] = MARK

\* A packet takes an end that has x of the stream to y of it: it is what comes next, or it
\* brings nothing new.
Link(S, x, p, y) ==
    \/ y = x /\ (p.kind = "close" \/ p.seq + TotalLen(p) <= x)
    \/ p.kind # "close" /\ p.seq = x /\ At(S, x, p.data, p.eom) /\ y = x + TotalLen(p)

\* Packets one after the other take it from x to y.
Runs(S, x, ps, y) ==
    \E at \in [0..Len(ps) -> 0..Len(S)] :
        /\ at[0] = x /\ at[Len(ps)] = y
        /\ \A k \in 1..Len(ps) : Link(S, at[k - 1], ps[k], at[k])

\* A packet says the truth about a stream without marks.
Honest(S, p) == p.kind = "close" \/ (~p.eom /\ At(S, p.seq, p.data, FALSE))

\* The writes waiting are the stream from x to its end.
Laid(S, x, ws) ==
    \E at \in [0..Len(ws) -> 0..Len(S)] :
        /\ at[0] = x /\ at[Len(ws)] = Len(S)
        /\ \A k \in 1..Len(ws) : /\ At(S, at[k - 1], ws[k].data, ws[k].eom)
                                 /\ at[k] = at[k - 1] + Len(ws[k].data) + Bit(ws[k].eom)

\* What a connection holds toward its peer: what waits follows what was sent, and the flight
\* buffer ends no later than that; without marks it is just what is not acknowledged.
Sender(S, c) ==
    /\ Laid(S, c.send_seq, c.pending_writes)
    /\ c.send_seq <= Len(S)
    /\ c.oldest_unacked_seq + Len(c.flight_buffer) <= c.send_seq
    /\ NoMarks(S) => /\ c.oldest_unacked_seq + Len(c.flight_buffer) = c.send_seq
                     /\ At(S, c.oldest_unacked_seq, c.flight_buffer, FALSE)

\* One direction: S was written at an end with connection c in state se and A of it delivered at
\* the other, d in state sd; ahead is on its way there, back on its way from there, and los lost.
Sending(S, A, c, se) == se = "open" => Sender(S, c) /\ c.oldest_unacked_seq <= Len(A)
Counted(A, d, sd) == sd = "open" => d.recv_seq = Len(A)
Acked(A, back) == \A k \in 1..Len(back) : back[k].kind # "close" => back[k].ack <= Len(A)
Truthful(S, ahead) == NoMarks(S) => \A k \in 1..Len(ahead) : Honest(S, ahead[k])
InLine(S, A, c, se, sd, ahead, los) ==
    los = <<>> /\ sd = "open" => \E y \in 0..Len(S) : /\ Runs(S, Len(A), ahead, y)
                                                      /\ se = "open" => y = c.send_seq
Intact(S, A, los) == NoMarks(S) \/ los = <<>> => IsPrefix(A, S)

Way(S, A, c, se, d, sd, ahead, back, los) ==
    /\ Sending(S, A, c, se)
    /\ Counted(A, d, sd)
    /\ Acked(A, back)
    /\ Truthful(S, ahead)
    /\ InLine(S, A, c, se, sd, ahead, los)
    /\ Intact(S, A, los)

Ways ==
    \A e \in Ends :
        Way(sent[e], arrived[Peer(e)], conn[e], st[e], conn[Peer(e)], st[Peer(e)],
            cable[Peer(e)], cable[e], lost)

\* What the stream A goes on with after its first g is in the queue: rx, with the marks that es
\* lists in between.
Held(A, g, rx0, es) ==
    /\ Len(A) = g + Len(rx0) + Len(es)
    /\ \A j \in 1..Len(es) : es[j] <= Len(rx0) /\ A[g + es[j] + j] = MARK
    /\ \A i, j \in 1..Len(es) : i <= j => es[i] <= es[j]
    /\ \A k \in 1..Len(rx0), j \in 0..Len(es) :
           (j > 0 => es[j] < k) /\ (j < Len(es) => k <= es[j + 1]) => A[g + k + j] = rx0[k]

\* A reader of bytes has read what arrived up to where the queue starts.
ByteReader(A, G, rx0, es, skips, s) ==
    /\ ~skips
    /\ IsPrefix(G, A)
    /\ s # "dropped" => Held(A, Len(G), rx0, es)

\* Every message read arrived.
Whole(G, A) ==
    \A i \in DOMAIN G :
        IF i = 1 \/ G[i - 1] = MARK THEN G[i] \in Starts(A) ELSE Follows(A, G[i - 1], G[i])

\* After the first g of A a message starts.
Between(A, g) == g = 0 \/ (g \in 1..Len(A) /\ A[g] = MARK)

MessageReader(A, G, rx0, es, skips, s) ==
    /\ Whole(G, A)
    /\ Between(G, Len(G))
    /\ s # "dropped" => IF skips THEN rx0 = <<>> /\ es = <<>>
                        ELSE \E g \in 0..Len(A) : Between(A, g) /\ Held(A, g, rx0, es)

Readers ==
    \A e \in Ends :
        IF e \in MessageReaders
        THEN MessageReader(arrived[e], got[e], rx[e], eoms[e], skipping[e], st[e])
        ELSE ByteReader(arrived[e], got[e], rx[e], eoms[e], skipping[e], st[e])

\* The inductive invariant: types, both directions, and what both readers see.
AdspIInv == AdspTypeOK /\ Ways /\ Readers

-----------------------------------------------------------------------------
(* Stretches of a stream *)

\* The constants, as the assumption has them.
LEMMA Constants ==
    /\ ADSP_MAX_DATA \in Nat \ {0} /\ RX_WINDOW \in Nat \ {0} /\ ADSP_MAX_DATA <= RX_WINDOW
    /\ ADSP_MAX_RETRIES \in Nat /\ MaxWritten \in Nat /\ TX_BUFFER \in Nat
    /\ \A n \in WriteSizes : n \in Nat
    /\ \A n \in ReadSizes : n \in Nat \ {0}
    /\ \A eom \in EomChoices : eom \in BOOLEAN
  BY AdspAssumption

\* What a stream that goes on has had it keeps.
LEMMA AtMore ==
    ASSUME NEW S \in Seq(Nat), NEW T \in Seq(Nat), NEW x \in Nat, NEW data \in Seq(Nat),
           NEW eom \in BOOLEAN, At(S, x, data, eom)
    PROVE  At(S \o T, x, data, eom)
  <1>1. Len(S) \in Nat /\ Len(T) \in Nat /\ Len(data) \in Nat  OBVIOUS
  <1>2. Len(S \o T) = Len(S) + Len(T)  BY ConcatProperties
  <1>3. \A i \in 1..Len(S) : (S \o T)[i] = S[i]
    <2>1. TAKE i \in 1..Len(S)
    <2>2. i \in 1..(Len(S) + Len(T)) /\ i <= Len(S)  BY <1>1
    <2>. QED  BY <2>2, ConcatProperties
  <1>4. x + Len(data) + Bit(eom) <= Len(S)  BY DEF At
  <1>5. Bit(eom) \in {0, 1} /\ (eom => Bit(eom) = 1)  BY DEF Bit
  <1>6. \A i \in 1..Len(data) : (S \o T)[x + i] = data[i]
    <2>1. TAKE i \in 1..Len(data)
    <2>2. x + i \in 1..Len(S)  BY <1>1, <1>4, <1>5
    <2>. QED  BY <1>3, <2>2 DEF At
  <1>7. eom => (S \o T)[x + Len(data) + 1] = MARK
    <2>1. SUFFICES ASSUME eom PROVE (S \o T)[x + Len(data) + 1] = MARK  OBVIOUS
    <2>2. Bit(eom) = 1  BY <2>1 DEF Bit
    <2>3. x + Len(data) + 1 \in 1..Len(S)  BY <1>1, <1>4, <2>2
    <2>. QED  BY <1>3, <2>1, <2>3 DEF At
  <1>. QED  BY <1>1, <1>2, <1>4, <1>5, <1>6, <1>7 DEF At

\* The end of a stream.
LEMMA AtEnd ==
    ASSUME NEW S \in Seq(Nat), NEW data \in Seq(Nat), NEW eom \in BOOLEAN
    PROVE  /\ S \o Marked(data, eom) \in Seq(Nat)
           /\ Len(S \o Marked(data, eom)) = Len(S) + Len(data) + Bit(eom)
           /\ At(S \o Marked(data, eom), Len(S), data, eom)
  <1> DEFINE M == Marked(data, eom)
  <1>1. M \in Seq(Nat) /\ Len(M) = Len(data) + Bit(eom) /\ (\A i \in 1..Len(data) : M[i] = data[i])
        /\ (eom => M[Len(data) + 1] = MARK)
    <2>1. CASE eom
      <3>1. M = data \o <<MARK>>  BY <2>1 DEF Marked
      <3>2. PICK w \in Seq(Nat) : w = <<MARK>> /\ Len(w) = 1 /\ w[1] = MARK
        <4>1. MARK \in Nat  BY DEF MARK
        <4>2. <<MARK>> \in Seq(Nat)  BY <4>1
        <4>3. Len(<<MARK>>) = 1 /\ <<MARK>>[1] = MARK  OBVIOUS
        <4>. QED  BY <4>2, <4>3
      <3>3. /\ M \in Seq(Nat) /\ Len(M) = Len(data) + 1
            /\ \A i \in 1..Len(data) + 1 : M[i] = IF i <= Len(data) THEN data[i] ELSE w[i - Len(data)]
        BY <3>1, <3>2, ConcatProperties
      <3>4. Len(data) \in Nat /\ Bit(eom) = 1  BY <2>1 DEF Bit
      <3>5. \A i \in 1..Len(data) : M[i] = data[i]  BY <3>3, <3>4
      <3>6. M[Len(data) + 1] = MARK
        <4>1. Len(data) + 1 \in 1..Len(data) + 1 /\ ~(Len(data) + 1 <= Len(data)) /\ Len(data) + 1 - Len(data) = 1
          BY <3>4
        <4>2. M[Len(data) + 1] = w[Len(data) + 1 - Len(data)]  BY <3>3, <4>1
        <4>. QED  BY <3>2, <4>1, <4>2
      <3>. QED  BY <3>3, <3>4, <3>5, <3>6
    <2>2. CASE ~eom
      <3>1. M = data \o <<>>  BY <2>2 DEF Marked
      <3>2. M = data  BY <3>1, ConcatEmptySeq
      <3>. QED  BY <2>2, <3>2 DEF Bit
    <2>. QED  BY <2>1, <2>2
  <1> HIDE DEF M
  <1>2. Len(S) \in Nat /\ Len(data) \in Nat /\ Bit(eom) \in {0, 1} /\ (eom => Bit(eom) = 1)  BY DEF Bit
  <1>3. /\ S \o M \in Seq(Nat) /\ Len(S \o M) = Len(S) + Len(M)
        /\ \A i \in 1..Len(S) + Len(M) : (S \o M)[i] = IF i <= Len(S) THEN S[i] ELSE M[i - Len(S)]
    BY <1>1, ConcatProperties
  <1>4. \A i \in 1..Len(M) : (S \o M)[Len(S) + i] = M[i]
    <2>1. TAKE i \in 1..Len(M)
    <2>2. Len(M) \in Nat  BY <1>1
    <2>3. Len(S) + i \in 1..Len(S) + Len(M) /\ ~(Len(S) + i <= Len(S)) /\ (Len(S) + i) - Len(S) = i
      BY <1>2, <2>2
    <2>. QED  BY <1>3, <2>3
  <1>5. \A i \in 1..Len(data) : (S \o M)[Len(S) + i] = data[i]
    <2>1. TAKE i \in 1..Len(data)
    <2>2. i \in 1..Len(M)  BY <1>1, <1>2
    <2>. QED  BY <1>1, <1>4, <2>2
  <1>6. eom => (S \o M)[Len(S) + Len(data) + 1] = MARK
    <2>1. SUFFICES ASSUME eom PROVE (S \o M)[Len(S) + Len(data) + 1] = MARK  OBVIOUS
    <2>2. Bit(eom) = 1  BY <2>1 DEF Bit
    <2>3. Len(data) + 1 \in 1..Len(M) /\ Len(S) + Len(data) + 1 = Len(S) + (Len(data) + 1)
      BY <1>1, <1>2, <2>2
    <2>. QED  BY <1>1, <1>4, <2>1, <2>3
  <1>7. At(S \o M, Len(S), data, eom)  BY <1>1, <1>2, <1>3, <1>5, <1>6 DEF At
  <1>. QED  BY <1>1, <1>2, <1>3, <1>7 DEF M

\* A stretch in two.
LEMMA AtSplit ==
    ASSUME NEW S \in Seq(Nat), NEW x \in Nat, NEW data \in Seq(Nat), NEW eom \in BOOLEAN,
           NEW n \in 0..Len(data), At(S, x, data, eom)
    PROVE  /\ SubSeq(data, 1, n) \in Seq(Nat) /\ Len(SubSeq(data, 1, n)) = n
           /\ SubSeq(data, n + 1, Len(data)) \in Seq(Nat)
           /\ Len(SubSeq(data, n + 1, Len(data))) = Len(data) - n
           /\ At(S, x, SubSeq(data, 1, n), eom /\ n = Len(data))
           /\ At(S, x + n, SubSeq(data, n + 1, Len(data)), eom)
  <1> DEFINE D == SubSeq(data, 1, n)
             R == SubSeq(data, n + 1, Len(data))
  <1>1. Len(S) \in Nat /\ Len(data) \in Nat /\ n \in Nat /\ n <= Len(data)  OBVIOUS
  <1>2. \A i \in 1..Len(data) : data[i] \in Nat  BY ElementOfSeq
  <1>3. D \in Seq(Nat) /\ Len(D) = n /\ \A i \in 1..n : D[i] = data[i]
    BY <1>1, <1>2, SubSeqProperties
  <1>4. R \in Seq(Nat) /\ Len(R) = Len(data) - n /\ \A i \in 1..Len(data) - n : R[i] = data[n + i]
    <2>1. \A i \in n + 1..Len(data) : data[i] \in Nat  BY <1>1, <1>2
    <2>2. /\ R \in Seq(Nat) /\ Len(R) = IF n + 1 <= Len(data) THEN Len(data) - (n + 1) + 1 ELSE 0
          /\ \A i \in 1..Len(data) - (n + 1) + 1 : R[i] = data[n + 1 + i - 1]
      BY <1>1, <2>1, SubSeqProperties
    <2>3. \A i \in 1..Len(data) - n : i \in 1..Len(data) - (n + 1) + 1 /\ n + 1 + i - 1 = n + i  BY <1>1
    <2>4. Len(R) = Len(data) - n  BY <1>1, <2>2
    <2>5. \A i \in 1..Len(data) - n : R[i] = data[n + i]
      <3>1. TAKE i \in 1..Len(data) - n
      <3>2. R[i] = data[n + 1 + i - 1] /\ n + 1 + i - 1 = n + i  BY <2>2, <2>3
      <3>. QED  BY <3>2
    <2>. QED  BY <2>2, <2>4, <2>5
  <1> HIDE DEF D, R
  <1>5. Bit(eom) \in {0, 1} /\ x + Len(data) + Bit(eom) <= Len(S)  BY DEF Bit, At
  <1>6. At(S, x, D, eom /\ n = Len(data))
    <2>1. \A i \in 1..Len(D) : S[x + i] = D[i]
      <3>1. TAKE i \in 1..Len(D)
      <3>2. i \in 1..n  BY <1>3
      <3>3. i \in 1..Len(data) /\ D[i] = data[i]  BY <1>1, <1>3, <3>2
      <3>. QED  BY <3>3 DEF At
    <2>2. CASE eom /\ n = Len(data)
      BY <1>1, <1>3, <2>1, <2>2 DEF At, Bit
    <2>3. CASE ~(eom /\ n = Len(data))
      <3>1. Bit(eom /\ n = Len(data)) = 0  BY <2>3 DEF Bit
      <3>2. x + Len(D) + 0 <= Len(S)  BY <1>1, <1>3, <1>5
      <3>. QED  BY <2>1, <2>3, <3>1, <3>2 DEF At
    <2>. QED  BY <2>2, <2>3
  <1>7. At(S, x + n, R, eom)
    <2>1. x + n + Len(R) = x + Len(data)  BY <1>1, <1>4
    <2>2. \A i \in 1..Len(R) : S[x + n + i] = R[i]
      <3>1. TAKE i \in 1..Len(R)
      <3>2. n + i \in 1..Len(data) /\ R[i] = data[n + i] /\ x + n + i = x + (n + i)  BY <1>1, <1>4
      <3>. QED  BY <3>2 DEF At
    <2>3. eom => S[x + n + Len(R) + 1] = MARK  BY <2>1 DEF At
    <2>. QED  BY <1>5, <2>1, <2>2, <2>3 DEF At
  <1>. QED  BY <1>3, <1>4, <1>6, <1>7 DEF D, R

\* Two stretches in one.
LEMMA AtJoin ==
    ASSUME NEW S \in Seq(Nat), NEW x \in Nat, NEW d1 \in Seq(Nat), NEW d2 \in Seq(Nat), NEW eom \in BOOLEAN,
           At(S, x, d1, FALSE), At(S, x + Len(d1), d2, eom)
    PROVE  /\ d1 \o d2 \in Seq(Nat) /\ Len(d1 \o d2) = Len(d1) + Len(d2)
           /\ At(S, x, d1 \o d2, eom)
  <1>1. Len(S) \in Nat /\ Len(d1) \in Nat /\ Len(d2) \in Nat  OBVIOUS
  <1>2. /\ d1 \o d2 \in Seq(Nat) /\ Len(d1 \o d2) = Len(d1) + Len(d2)
        /\ \A i \in 1..Len(d1) + Len(d2) : (d1 \o d2)[i] = IF i <= Len(d1) THEN d1[i] ELSE d2[i - Len(d1)]
    BY ConcatProperties
  <1>3. \A i \in 1..Len(d1) + Len(d2) : S[x + i] = (d1 \o d2)[i]
    <2>1. TAKE i \in 1..Len(d1) + Len(d2)
    <2>2. CASE i <= Len(d1)
      <3>1. i \in 1..Len(d1)  BY <1>1, <2>2
      <3>. QED  BY <1>2, <2>2, <3>1 DEF At
    <2>3. CASE ~(i <= Len(d1))
      <3>1. i - Len(d1) \in 1..Len(d2) /\ x + Len(d1) + (i - Len(d1)) = x + i  BY <1>1, <2>3
      <3>2. S[x + Len(d1) + (i - Len(d1))] = d2[i - Len(d1)]  BY <3>1 DEF At
      <3>. QED  BY <1>2, <2>3, <3>1, <3>2
    <2>. QED  BY <2>2, <2>3
  <1>4. x + (Len(d1) + Len(d2)) = (x + Len(d1)) + Len(d2)  BY <1>1
  <1>5. Bit(eom) \in Nat  BY DEF Bit
  <1>6. (x + Len(d1)) + Len(d2) + Bit(eom) <= Len(S) /\ (eom => S[(x + Len(d1)) + Len(d2) + 1] = MARK)  BY DEF At
  <1>. QED  BY <1>2, <1>3, <1>4, <1>6 DEF At

\* In a stream without marks nothing ends a message.
LEMMA AtUnmarked ==
    ASSUME NEW S \in Seq(Nat), NEW x \in Nat, NEW data \in Seq(Nat), NEW eom \in BOOLEAN,
           At(S, x, data, eom), NoMarks(S)
    PROVE  ~eom
  <1>1. SUFFICES ASSUME eom PROVE FALSE  OBVIOUS
  <1>2. Len(S) \in Nat /\ Len(data) \in Nat /\ DOMAIN S = 1..Len(S)  OBVIOUS
  <1>3. x + Len(data) + 1 \in DOMAIN S  BY <1>1, <1>2 DEF At, Bit
  <1>. QED  BY <1>1, <1>3 DEF At, NoMarks

\* The start of a stream without marks has none.
LEMMA NoMarksLess ==
    ASSUME NEW S \in Seq(Nat), NEW T \in Seq(Nat), NoMarks(S \o T)
    PROVE  NoMarks(S)
  <1>1. \A i \in 1..Len(S) : i \in 1..Len(S) + Len(T) /\ (S \o T)[i] = S[i]
    <2>1. Len(S) \in Nat /\ Len(T) \in Nat  OBVIOUS
    <2>. QED  BY <2>1, ConcatProperties
  <1>2. DOMAIN S = 1..Len(S) /\ DOMAIN (S \o T) = 1..Len(S) + Len(T)
    BY ConcatProperties, LenProperties
  <1>. QED  BY <1>1, <1>2 DEF NoMarks

-----------------------------------------------------------------------------
(* Packets in a row *)

\* A set of numbers has a least one: induction, without a predicate as a parameter.
LEMMA LeastNumber ==
    ASSUME NEW T \in SUBSET Nat, T # {}
    PROVE  \E n \in T : \A m \in T : n <= m
  <1> DEFINE R == {ss \in Nat \X Nat : ss[1] < ss[2]}
  <1>1. R = OpToRel(<, Nat)  BY DEF OpToRel
  <1>2. IsWellFoundedOn(R, Nat)  BY <1>1, NatLessThanWellFounded
  <1> HIDE DEF R
  <1>3. PICK n \in T : \A m \in T : ~(<<m, n>> \in R)  BY <1>2, WFMin
  <1>4. \A m \in T : ~(m < n)
    <2> TAKE m \in T
    <2>1. ~(<<m, n>> \in R)  BY <1>3
    <2>. QED  BY <2>1 DEF R
  <1>. QED  BY <1>3, <1>4

\* What a packet with data or an acknowledgement is made of.
LEMMA PacketFacts ==
    ASSUME NEW p \in Packet, p.kind # "close"
    PROVE  /\ p.seq \in Nat /\ p.ack \in Nat /\ p.data \in Seq(Nat) /\ p.eom \in BOOLEAN
           /\ p.window \in 0..RX_WINDOW /\ p.kind \in {"data", "ack"}
           /\ Len(p.data) \in Nat /\ TotalLen(p) \in Nat /\ TotalLen(p) = Len(p.data) + Bit(p.eom)
  <1>1. p \in [kind : {"data", "ack"}, seq : Nat, data : Seq(Nat), eom : BOOLEAN, ack : Nat, window : 0..RX_WINDOW]
    BY DEF Packet, CloseAdvice
  <1>2. /\ p.seq \in Nat /\ p.ack \in Nat /\ p.data \in Seq(Nat) /\ p.eom \in BOOLEAN
        /\ p.window \in 0..RX_WINDOW /\ p.kind \in {"data", "ack"}
    BY <1>1
  <1>3. Len(p.data) \in Nat  BY <1>2
  <1>4. TotalLen(p) = Len(p.data) + Bit(p.eom)  BY DEF TotalLen, Bit
  <1>5. Bit(p.eom) \in Nat  BY DEF Bit
  <1>. QED  BY <1>2, <1>3, <1>4, <1>5

\* No packets take it nowhere.
LEMMA RunsNone ==
    ASSUME NEW S \in Seq(Nat), NEW x \in 0..Len(S)
    PROVE  Runs(S, x, <<>>, x)
  <1> DEFINE at == [k \in 0..0 |-> x]
  <1>1. Len(<<>>) = 0  OBVIOUS
  <1>2. at \in [0..0 -> 0..Len(S)] /\ at[0] = x  OBVIOUS
  <1> HIDE DEF at
  <1>3. \A k \in 1..0 : Link(S, at[k - 1], <<>>[k], at[k])  OBVIOUS
  <1>. QED  BY <1>1, <1>2, <1>3 DEF Runs

\* One after others.
LEMMA RunsAppend ==
    ASSUME NEW S \in Seq(Nat), NEW x, NEW ps \in Seq(Packet), NEW y, Runs(S, x, ps, y),
           NEW p \in Packet, NEW z \in 0..Len(S), Link(S, y, p, z)
    PROVE  Runs(S, x, Append(ps, p), z)
  <1>0. Len(S) \in Nat /\ Len(ps) \in Nat  OBVIOUS
  <1>1. PICK at \in [0..Len(ps) -> 0..Len(S)] :
          /\ at[0] = x /\ at[Len(ps)] = y
          /\ \A k \in 1..Len(ps) : Link(S, at[k - 1], ps[k], at[k])
    BY DEF Runs
  <1> DEFINE n == Len(ps)
             q == Append(ps, p)
             to == [k \in 0..n + 1 |-> IF k = n + 1 THEN z ELSE at[k]]
  <1>2. Len(q) = n + 1 /\ q[n + 1] = p /\ \A k \in 1..n : q[k] = ps[k]  BY AppendProperties
  <1>3. to \in [0..n + 1 -> 0..Len(S)]  BY <1>0, <1>1
  <1>4. to[n + 1] = z /\ \A k \in 0..n : to[k] = at[k]  BY <1>0
  <1> HIDE DEF to, q
  <1>5. \A k \in 1..n + 1 : Link(S, to[k - 1], q[k], to[k])
    <2>1. TAKE k \in 1..n + 1
    <2>2. CASE k = n + 1
      <3>1. to[k - 1] = y /\ to[k] = z /\ q[k] = p  BY <1>0, <1>1, <1>2, <1>4, <2>2
      <3>. QED  BY <3>1
    <2>3. CASE k # n + 1
      <3>1. k \in 1..n /\ k - 1 \in 0..n /\ k \in 0..n  BY <1>0, <2>3
      <3>2. to[k - 1] = at[k - 1] /\ to[k] = at[k] /\ q[k] = ps[k]  BY <1>2, <1>4, <3>1
      <3>. QED  BY <1>1, <3>1, <3>2
    <2>. QED  BY <2>2, <2>3
  <1>6. to[0] = x  BY <1>0, <1>1, <1>4
  <1>. QED  BY <1>2, <1>3, <1>4, <1>5, <1>6 DEF Runs, q

\* Some after others.
LEMMA RunsConcat ==
    ASSUME NEW S \in Seq(Nat), NEW x, NEW ps \in Seq(Packet), NEW y, Runs(S, x, ps, y),
           NEW qs \in Seq(Packet), NEW z, Runs(S, y, qs, z)
    PROVE  Runs(S, x, ps \o qs, z)
  <1>0. Len(S) \in Nat /\ Len(ps) \in Nat /\ Len(qs) \in Nat  OBVIOUS
  <1>1. PICK at \in [0..Len(ps) -> 0..Len(S)] :
          /\ at[0] = x /\ at[Len(ps)] = y
          /\ \A k \in 1..Len(ps) : Link(S, at[k - 1], ps[k], at[k])
    BY DEF Runs
  <1>2. PICK bt \in [0..Len(qs) -> 0..Len(S)] :
          /\ bt[0] = y /\ bt[Len(qs)] = z
          /\ \A k \in 1..Len(qs) : Link(S, bt[k - 1], qs[k], bt[k])
    BY DEF Runs
  <1> DEFINE n == Len(ps)
             m == Len(qs)
             r == ps \o qs
             to == [k \in 0..n + m |-> IF k <= n THEN at[k] ELSE bt[k - n]]
  <1>3. Len(r) = n + m /\ \A k \in 1..n + m : r[k] = IF k <= n THEN ps[k] ELSE qs[k - n]
    BY ConcatProperties
  <1>4. to \in [0..n + m -> 0..Len(S)]
    <2>1. \A k \in 0..n + m : (IF k <= n THEN at[k] ELSE bt[k - n]) \in 0..Len(S)
      <3>1. TAKE k \in 0..n + m
      <3>2. CASE k <= n
        <4>1. k \in 0..n  BY <1>0, <3>2
        <4>. QED  BY <1>1, <3>2, <4>1
      <3>3. CASE ~(k <= n)
        <4>1. k - n \in 0..m  BY <1>0, <3>3
        <4>. QED  BY <1>2, <3>3, <4>1
      <3>. QED  BY <3>2, <3>3
    <2>. QED  BY <2>1
  <1>5. /\ \A k \in 0..n : to[k] = at[k]
        /\ \A k \in 0..m : to[n + k] = bt[k]
    <2>1. \A k \in 0..n : to[k] = at[k]  BY <1>0
    <2>2. \A k \in 0..m : to[n + k] = bt[k]
      <3>1. TAKE k \in 0..m
      <3>2. CASE k = 0
        <4>1. n + k = n /\ n \in 0..n  BY <1>0, <3>2
        <4>. QED  BY <1>1, <1>2, <2>1, <3>2, <4>1
      <3>3. CASE k # 0
        <4>1. n + k \in 0..n + m /\ ~(n + k <= n) /\ n + k - n = k  BY <1>0, <3>3
        <4>. QED  BY <4>1
      <3>. QED  BY <3>2, <3>3
    <2>. QED  BY <2>1, <2>2
  <1> HIDE DEF to, r
  <1>6. \A k \in 1..n + m : Link(S, to[k - 1], r[k], to[k])
    <2>1. TAKE k \in 1..n + m
    <2>2. CASE k <= n
      <3>1. k \in 1..n /\ k - 1 \in 0..n /\ k \in 0..n  BY <1>0, <2>2
      <3>2. to[k - 1] = at[k - 1] /\ to[k] = at[k] /\ r[k] = ps[k]  BY <1>3, <1>5, <2>2, <3>1
      <3>. QED  BY <1>1, <3>1, <3>2
    <2>3. CASE ~(k <= n)
      <3>1. PICK j \in 1..m : j = k - n
        <4>1. k - n \in 1..m  BY <1>0, <2>3
        <4>. QED  BY <4>1
      <3>2. j \in 0..m /\ j - 1 \in 0..m /\ n + j = k /\ n + (j - 1) = k - 1  BY <1>0, <3>1
      <3>3. to[k] = bt[j] /\ to[k - 1] = bt[j - 1] /\ r[k] = qs[j]  BY <1>3, <1>5, <2>3, <3>1, <3>2
      <3>. QED  BY <1>2, <3>1, <3>3
    <2>. QED  BY <2>2, <2>3
  <1>7. to[0] = x /\ to[n + m] = z
    <2>1. 0 \in 0..n /\ m \in 0..m  BY <1>0
    <2>. QED  BY <1>1, <1>2, <1>5, <2>1
  <1>. QED  BY <1>3, <1>4, <1>6, <1>7 DEF Runs, r

\* The first of them.
LEMMA RunsTail ==
    ASSUME NEW S \in Seq(Nat), NEW x, NEW ps \in Seq(Packet), ps # <<>>, NEW z, Runs(S, x, ps, z)
    PROVE  \E y \in 0..Len(S) : Link(S, x, Head(ps), y) /\ Runs(S, y, Tail(ps), z)
  <1>0. Len(S) \in Nat /\ Len(ps) \in Nat \ {0}  BY EmptySeq
  <1>1. PICK at \in [0..Len(ps) -> 0..Len(S)] :
          /\ at[0] = x /\ at[Len(ps)] = z
          /\ \A k \in 1..Len(ps) : Link(S, at[k - 1], ps[k], at[k])
    BY DEF Runs
  <1> DEFINE n == Len(ps)
             q == Tail(ps)
             to == [k \in 0..n - 1 |-> at[k + 1]]
  <1>2. q \in Seq(Packet) /\ Len(q) = n - 1 /\ \A k \in 1..n - 1 : q[k] = ps[k + 1]  BY HeadTailProperties
  <1>3. to \in [0..n - 1 -> 0..Len(S)]
    <2>1. \A k \in 0..n - 1 : at[k + 1] \in 0..Len(S)
      <3>1. \A k \in 0..n - 1 : k + 1 \in 0..n  BY <1>0
      <3>. QED  BY <1>1, <3>1
    <2>. QED  BY <2>1
  <1>4. \A k \in 0..n - 1 : to[k] = at[k + 1]  OBVIOUS
  <1> HIDE DEF to, q
  <1>5. \A k \in 1..n - 1 : Link(S, to[k - 1], q[k], to[k])
    <2>1. TAKE k \in 1..n - 1
    <2>2. k - 1 \in 0..n - 1 /\ k \in 0..n - 1 /\ k + 1 \in 1..n /\ (k - 1) + 1 = k /\ (k + 1) - 1 = k  BY <1>0
    <2>3. to[k - 1] = at[(k + 1) - 1] /\ to[k] = at[k + 1] /\ q[k] = ps[k + 1]  BY <1>2, <1>4, <2>2
    <2>. QED  BY <1>1, <2>2, <2>3
  <1>6. to[0] = at[1] /\ to[n - 1] = z /\ at[1] \in 0..Len(S)
    <2>1. 0 \in 0..n - 1 /\ n - 1 \in 0..n - 1 /\ (n - 1) + 1 = n /\ 1 \in 0..n /\ 0 + 1 = 1  BY <1>0
    <2>. QED  BY <1>1, <1>4, <2>1
  <1>7. Runs(S, at[1], q, z)  BY <1>2, <1>3, <1>5, <1>6 DEF Runs
  <1>8. Link(S, x, Head(ps), at[1])
    <2>1. 1 \in 1..n /\ 1 - 1 = 0 /\ Head(ps) = ps[1]  BY <1>0
    <2>. QED  BY <1>1, <2>1
  <1>. QED  BY <1>6, <1>7, <1>8 DEF q

\* They are as good for a longer stream.
LEMMA LinkMore ==
    ASSUME NEW S \in Seq(Nat), NEW T \in Seq(Nat), NEW x \in Nat, NEW p \in Packet, NEW y, Link(S, x, p, y)
    PROVE  Link(S \o T, x, p, y)
  <1>1. CASE y = x /\ (p.kind = "close" \/ p.seq + TotalLen(p) <= x)  BY <1>1 DEF Link
  <1>2. CASE p.kind # "close" /\ p.seq = x /\ At(S, x, p.data, p.eom) /\ y = x + TotalLen(p)
    <2>1. At(S \o T, x, p.data, p.eom)  BY <1>2, AtMore, PacketFacts
    <2>. QED  BY <1>2, <2>1 DEF Link
  <1>. QED  BY <1>1, <1>2 DEF Link

\* So are packets in a row.
LEMMA RunsMore ==
    ASSUME NEW S \in Seq(Nat), NEW T \in Seq(Nat), NEW x, NEW ps \in Seq(Packet), NEW y, Runs(S, x, ps, y)
    PROVE  Runs(S \o T, x, ps, y)
  <1>0. Len(S) \in Nat /\ Len(T) \in Nat /\ Len(ps) \in Nat /\ Len(S \o T) = Len(S) + Len(T)
    BY ConcatProperties
  <1>1. PICK at \in [0..Len(ps) -> 0..Len(S)] :
          /\ at[0] = x /\ at[Len(ps)] = y
          /\ \A k \in 1..Len(ps) : Link(S, at[k - 1], ps[k], at[k])
    BY DEF Runs
  <1>2. 0..Len(S) \subseteq 0..Len(S \o T)  BY <1>0
  <1>3. at \in [0..Len(ps) -> 0..Len(S \o T)]  BY <1>2
  <1>4. \A k \in 1..Len(ps) : Link(S \o T, at[k - 1], ps[k], at[k])
    <2>1. TAKE k \in 1..Len(ps)
    <2>2. k - 1 \in 0..Len(ps)  BY <1>0
    <2>3. at[k - 1] \in 0..Len(S)  BY <1>1, <2>2
    <2>4. ps[k] \in Packet  BY ElementOfSeq
    <2>5. at[k - 1] \in Nat  BY <1>0, <2>3
    <2>. QED  BY <1>1, <2>4, <2>5, LinkMore
  <1>. QED  BY <1>1, <1>3, <1>4 DEF Runs

\* A packet with nothing new leaves an end where it was,
LEMMA LinkStale ==
    ASSUME NEW S, NEW x, NEW p, p.kind = "close" \/ p.seq + TotalLen(p) <= x
    PROVE  Link(S, x, p, x)
  BY DEF Link

\* and one that comes next takes it on by what it carries.
LEMMA LinkNext ==
    ASSUME NEW S, NEW x, NEW p, p.kind # "close", p.seq = x, At(S, x, p.data, p.eom), NEW y, y = x + TotalLen(p)
    PROVE  Link(S, x, p, y)
  BY DEF Link

-----------------------------------------------------------------------------
(* Writes that wait *)

WriteType == [data : Seq(Nat), eom : BOOLEAN]

\* All was sent.
LEMMA LaidNone ==
    ASSUME NEW S \in Seq(Nat)
    PROVE  Laid(S, Len(S), <<>>)
  <1> DEFINE at == [k \in 0..0 |-> Len(S)]
  <1>1. Len(<<>>) = 0 /\ Len(S) \in Nat  OBVIOUS
  <1>2. at \in [0..0 -> 0..Len(S)] /\ at[0] = Len(S)  BY <1>1
  <1> HIDE DEF at
  <1>. QED  BY <1>1, <1>2 DEF Laid

\* The first write that waits, and the others.
LEMMA LaidTail ==
    ASSUME NEW S \in Seq(Nat), NEW x, NEW ws \in Seq(WriteType), ws # <<>>, Laid(S, x, ws)
    PROVE  LET y == x + Len(Head(ws).data) + Bit(Head(ws).eom) IN
           /\ x \in 0..Len(S) /\ y \in 0..Len(S)
           /\ At(S, x, Head(ws).data, Head(ws).eom)
           /\ Laid(S, y, Tail(ws))
  <1>0. Len(S) \in Nat /\ Len(ws) \in Nat \ {0}  BY EmptySeq
  <1>1. PICK at \in [0..Len(ws) -> 0..Len(S)] :
          /\ at[0] = x /\ at[Len(ws)] = Len(S)
          /\ \A k \in 1..Len(ws) : /\ At(S, at[k - 1], ws[k].data, ws[k].eom)
                                   /\ at[k] = at[k - 1] + Len(ws[k].data) + Bit(ws[k].eom)
    BY DEF Laid
  <1> DEFINE n == Len(ws)
             q == Tail(ws)
             to == [k \in 0..n - 1 |-> at[k + 1]]
  <1>2. q \in Seq(WriteType) /\ Len(q) = n - 1 /\ \A k \in 1..n - 1 : q[k] = ws[k + 1]  BY HeadTailProperties
  <1>3. to \in [0..n - 1 -> 0..Len(S)]
    <2>1. \A k \in 0..n - 1 : at[k + 1] \in 0..Len(S)
      <3>1. \A k \in 0..n - 1 : k + 1 \in 0..n  BY <1>0
      <3>. QED  BY <1>1, <3>1
    <2>. QED  BY <2>1
  <1>4. \A k \in 0..n - 1 : to[k] = at[k + 1]  OBVIOUS
  <1> HIDE DEF to, q
  <1>5. \A k \in 1..n - 1 : /\ At(S, to[k - 1], q[k].data, q[k].eom)
                            /\ to[k] = to[k - 1] + Len(q[k].data) + Bit(q[k].eom)
    <2>1. TAKE k \in 1..n - 1
    <2>2. k - 1 \in 0..n - 1 /\ k \in 0..n - 1 /\ k + 1 \in 1..n /\ (k - 1) + 1 = k /\ (k + 1) - 1 = k  BY <1>0
    <2>3. to[k - 1] = at[(k + 1) - 1] /\ to[k] = at[k + 1] /\ q[k] = ws[k + 1]  BY <1>2, <1>4, <2>2
    <2>. QED  BY <1>1, <2>2, <2>3
  <1>6. to[0] = at[1] /\ to[n - 1] = Len(S) /\ at[1] \in 0..Len(S) /\ x \in 0..Len(S)
    <2>1. 0 \in 0..n - 1 /\ n - 1 \in 0..n - 1 /\ (n - 1) + 1 = n /\ 1 \in 0..n /\ 0 + 1 = 1 /\ 0 \in 0..n  BY <1>0
    <2>. QED  BY <1>1, <1>4, <2>1
  <1>7. Laid(S, at[1], q)  BY <1>2, <1>3, <1>5, <1>6 DEF Laid
  <1>8. At(S, x, Head(ws).data, Head(ws).eom) /\ at[1] = x + Len(Head(ws).data) + Bit(Head(ws).eom)
    <2>1. 1 \in 1..n /\ 1 - 1 = 0 /\ Head(ws) = ws[1]  BY <1>0
    <2>. QED  BY <1>1, <2>1
  <1>. QED  BY <1>6, <1>7, <1>8 DEF q

\* A write put first.
LEMMA LaidFirst ==
    ASSUME NEW S \in Seq(Nat), NEW x \in 0..Len(S), NEW w \in WriteType, At(S, x, w.data, w.eom),
           NEW ws \in Seq(WriteType), Laid(S, x + Len(w.data) + Bit(w.eom), ws)
    PROVE  <<w>> \o ws \in Seq(WriteType) /\ Laid(S, x, <<w>> \o ws)
  <1>0. Len(S) \in Nat /\ Len(ws) \in Nat  OBVIOUS
  <1>1. PICK at \in [0..Len(ws) -> 0..Len(S)] :
          /\ at[0] = x + Len(w.data) + Bit(w.eom) /\ at[Len(ws)] = Len(S)
          /\ \A k \in 1..Len(ws) : /\ At(S, at[k - 1], ws[k].data, ws[k].eom)
                                   /\ at[k] = at[k - 1] + Len(ws[k].data) + Bit(ws[k].eom)
    BY DEF Laid
  <1> DEFINE n == Len(ws)
             q == <<w>> \o ws
             to == [k \in 0..n + 1 |-> IF k = 0 THEN x ELSE at[k - 1]]
  <1>2. q \in Seq(WriteType) /\ Len(q) = n + 1 /\ q[1] = w /\ \A k \in 2..n + 1 : q[k] = ws[k - 1]
    <2>1. PICK v \in Seq(WriteType) : v = <<w>> /\ Len(v) = 1 /\ v[1] = w
      <3>1. <<w>> \in Seq(WriteType) /\ Len(<<w>>) = 1 /\ <<w>>[1] = w  OBVIOUS
      <3>. QED  BY <3>1
    <2>2. /\ q \in Seq(WriteType) /\ Len(q) = 1 + n
          /\ \A k \in 1..1 + n : q[k] = IF k <= 1 THEN v[k] ELSE ws[k - 1]
      BY <2>1, ConcatProperties
    <2>3. 1 \in 1..1 + n /\ n + 1 = 1 + n  BY <1>0
    <2>4. q[1] = w  BY <2>1, <2>2, <2>3
    <2>5. \A k \in 2..n + 1 : q[k] = ws[k - 1]
      <3>1. TAKE k \in 2..n + 1
      <3>2. k \in 1..1 + n /\ ~(k <= 1)  BY <1>0
      <3>. QED  BY <2>2, <3>2
    <2>. QED  BY <2>2, <2>3, <2>4, <2>5
  <1>3. to \in [0..n + 1 -> 0..Len(S)]
    <2>1. \A k \in 0..n + 1 : (IF k = 0 THEN x ELSE at[k - 1]) \in 0..Len(S)
      <3>1. TAKE k \in 0..n + 1
      <3>2. k # 0 => k - 1 \in 0..n  BY <1>0
      <3>. QED  BY <1>1, <3>2
    <2>. QED  BY <2>1
  <1>4. to[0] = x /\ \A k \in 0..n : to[k + 1] = at[k]
    <2>1. 0 \in 0..n + 1 /\ \A k \in 0..n : k + 1 \in 0..n + 1 /\ k + 1 # 0 /\ (k + 1) - 1 = k  BY <1>0
    <2>. QED  BY <2>1
  <1> HIDE DEF to, q
  <1>5. \A k \in 1..n + 1 : /\ At(S, to[k - 1], q[k].data, q[k].eom)
                            /\ to[k] = to[k - 1] + Len(q[k].data) + Bit(q[k].eom)
    <2>1. TAKE k \in 1..n + 1
    <2>2. CASE k = 1
      <3>1. 0 \in 0..n /\ 0 + 1 = 1 /\ k - 1 = 0  BY <1>0, <2>2
      <3>2. to[k - 1] = x /\ to[k] = at[0] /\ q[k] = w  BY <1>2, <1>4, <2>2, <3>1
      <3>. QED  BY <1>1, <3>2
    <2>3. CASE k # 1
      <3>1. PICK j \in 1..n : j = k - 1
        <4>1. k - 1 \in 1..n  BY <1>0, <2>3
        <4>. QED  BY <4>1
      <3>2. k \in 2..n + 1 /\ j \in 0..n /\ j - 1 \in 0..n /\ j + 1 = k /\ (j - 1) + 1 = k - 1  BY <1>0, <3>1
      <3>3. to[k - 1] = at[j - 1] /\ to[k] = at[j] /\ q[k] = ws[j]  BY <1>2, <1>4, <3>1, <3>2
      <3>. QED  BY <1>1, <3>1, <3>3
    <2>. QED  BY <2>2, <2>3
  <1>6. to[n + 1] = Len(S)
    <2>1. n \in 0..n  BY <1>0
    <2>. QED  BY <1>1, <1>4, <2>1
  <1>. QED  BY <1>2, <1>3, <1>4, <1>5, <1>6 DEF Laid, q

\* A write put last is what the stream goes on with.
LEMMA LaidLast ==
    ASSUME NEW S \in Seq(Nat), NEW x, NEW ws \in Seq(WriteType), Laid(S, x, ws), NEW w \in WriteType
    PROVE  Laid(S \o Marked(w.data, w.eom), x, Append(ws, w))
  <1> DEFINE T == S \o Marked(w.data, w.eom)
  <1>a. w.data \in Seq(Nat) /\ w.eom \in BOOLEAN  BY DEF WriteType
  <1>b. Marked(w.data, w.eom) \in Seq(Nat)
    <2>1. MARK \in Nat  BY DEF MARK
    <2>2. <<MARK>> \in Seq(Nat) /\ <<>> \in Seq(Nat)  BY <2>1
    <2>3. (IF w.eom THEN <<MARK>> ELSE <<>>) \in Seq(Nat)  BY <2>2
    <2>. QED  BY <1>a, <2>3, ConcatProperties DEF Marked
  <1>c. T \in Seq(Nat) /\ Len(T) = Len(S) + Len(w.data) + Bit(w.eom) /\ At(T, Len(S), w.data, w.eom)
    BY <1>a, AtEnd
  <1>d. Len(w.data) \in Nat /\ Bit(w.eom) \in Nat  BY <1>a DEF Bit
  <1>0. Len(S) \in Nat /\ Len(ws) \in Nat /\ Len(T) \in Nat /\ Len(S) <= Len(T)  BY <1>c, <1>d
  <1>1. PICK at \in [0..Len(ws) -> 0..Len(S)] :
          /\ at[0] = x /\ at[Len(ws)] = Len(S)
          /\ \A k \in 1..Len(ws) : /\ At(S, at[k - 1], ws[k].data, ws[k].eom)
                                   /\ at[k] = at[k - 1] + Len(ws[k].data) + Bit(ws[k].eom)
    BY DEF Laid
  <1> DEFINE n == Len(ws)
             q == Append(ws, w)
             to == [k \in 0..n + 1 |-> IF k = n + 1 THEN Len(T) ELSE at[k]]
  <1> HIDE DEF T
  <1>2. Len(q) = n + 1 /\ q[n + 1] = w /\ \A k \in 1..n : q[k] = ws[k]  BY AppendProperties
  <1>3. to \in [0..n + 1 -> 0..Len(T)]
    <2>1. \A k \in 0..n + 1 : (IF k = n + 1 THEN Len(T) ELSE at[k]) \in 0..Len(T)
      <3>1. TAKE k \in 0..n + 1
      <3>2. k # n + 1 => k \in 0..n  BY <1>0
      <3>3. k # n + 1 => at[k] \in 0..Len(S)  BY <1>1, <3>2
      <3>. QED  BY <1>0, <3>3
    <2>. QED  BY <2>1
  <1>4. to[n + 1] = Len(T) /\ \A k \in 0..n : to[k] = at[k]
    <2>1. n + 1 \in 0..n + 1 /\ \A k \in 0..n : k \in 0..n + 1 /\ k # n + 1  BY <1>0
    <2>. QED  BY <2>1
  <1> HIDE DEF to, q
  <1>5. \A k \in 1..n + 1 : /\ At(T, to[k - 1], q[k].data, q[k].eom)
                            /\ to[k] = to[k - 1] + Len(q[k].data) + Bit(q[k].eom)
    <2>1. TAKE k \in 1..n + 1
    <2>2. CASE k = n + 1
      <3>1. n \in 0..n /\ k - 1 = n  BY <1>0, <2>2
      <3>2. to[k - 1] = Len(S) /\ to[k] = Len(T) /\ q[k] = w  BY <1>1, <1>2, <1>4, <2>2, <3>1
      <3>. QED  BY <1>c, <3>2
    <2>3. CASE k # n + 1
      <3>1. k \in 1..n /\ k - 1 \in 0..n /\ k \in 0..n  BY <1>0, <2>3
      <3>2. to[k - 1] = at[k - 1] /\ to[k] = at[k] /\ q[k] = ws[k]  BY <1>2, <1>4, <3>1
      <3>3. at[k - 1] \in 0..Len(S)  BY <1>1, <3>1
      <3>4. at[k - 1] \in Nat  BY <1>0, <3>3
      <3>5. ws[k].data \in Seq(Nat) /\ ws[k].eom \in BOOLEAN
        <4>1. ws[k] \in WriteType  BY <3>1, ElementOfSeq
        <4>. QED  BY <4>1 DEF WriteType
      <3>6. At(S, at[k - 1], ws[k].data, ws[k].eom)  BY <1>1, <3>1
      <3>7. At(T, at[k - 1], ws[k].data, ws[k].eom)  BY <1>b, <3>4, <3>5, <3>6, AtMore DEF T
      <3>. QED  BY <1>1, <3>1, <3>2, <3>7
    <2>. QED  BY <2>2, <2>3
  <1>6. to[0] = x
    <2>1. 0 \in 0..n  BY <1>0
    <2>. QED  BY <1>1, <1>4, <2>1
  <1>7. Laid(T, x, q)  BY <1>2, <1>3, <1>4, <1>5, <1>6 DEF Laid
  <1>. QED  BY <1>7 DEF q, T

\* If no write that waits has a byte, and there are no marks, all was sent.
LEMMA LaidEmpty ==
    ASSUME NEW S \in Seq(Nat), NoMarks(S), NEW x, NEW ws \in Seq(WriteType), Laid(S, x, ws),
           \A k \in 1..Len(ws) : Len(ws[k].data) = 0
    PROVE  x = Len(S)
  <1>0. Len(S) \in Nat /\ Len(ws) \in Nat  OBVIOUS
  <1>1. PICK at \in [0..Len(ws) -> 0..Len(S)] :
          /\ at[0] = x /\ at[Len(ws)] = Len(S)
          /\ \A k \in 1..Len(ws) : /\ At(S, at[k - 1], ws[k].data, ws[k].eom)
                                   /\ at[k] = at[k - 1] + Len(ws[k].data) + Bit(ws[k].eom)
    BY DEF Laid
  <1>2. \A k \in 1..Len(ws) : at[k] = at[k - 1]
    <2>1. TAKE k \in 1..Len(ws)
    <2>2. ws[k].data \in Seq(Nat) /\ ws[k].eom \in BOOLEAN
      <3>1. ws[k] \in WriteType  BY ElementOfSeq
      <3>. QED  BY <3>1 DEF WriteType
    <2>3. at[k - 1] \in 0..Len(S)
      <3>1. k - 1 \in 0..Len(ws)  BY <1>0
      <3>. QED  BY <1>1, <3>1
    <2>4. at[k - 1] \in Nat  BY <1>0, <2>3
    <2>5. At(S, at[k - 1], ws[k].data, ws[k].eom)  BY <1>1
    <2>6. ~ws[k].eom  BY <2>2, <2>4, <2>5, AtUnmarked
    <2>7. at[k] = at[k - 1] + 0 + 0  BY <1>1, <2>6 DEF Bit
    <2>. QED  BY <2>4, <2>7
  <1> DEFINE T == {k \in 0..Len(ws) : at[k] # x}
  <1>3. T = {}
    <2>1. SUFFICES ASSUME T # {} PROVE FALSE  OBVIOUS
    <2>2. T \in SUBSET Nat  BY <1>0
    <2>3. PICK n \in T : \A m \in T : n <= m
      <3> HIDE DEF T
      <3>. QED  BY <2>1, <2>2, LeastNumber
    <2>4. n \in 1..Len(ws) /\ n - 1 \in 0..Len(ws) /\ ~(n <= n - 1)  BY <1>0, <1>1
    <2>5. n - 1 \notin T
      <3> HIDE DEF T
      <3>. QED  BY <2>3, <2>4
    <2>6. at[n - 1] = x  BY <2>4, <2>5
    <2>7. at[n] = x  BY <1>2, <2>4, <2>6
    <2>. QED  BY <2>7
  <1>4. Len(ws) \in 0..Len(ws)  BY <1>0
  <1>5. at[Len(ws)] = x  BY <1>3, <1>4
  <1>. QED  BY <1>1, <1>5

-----------------------------------------------------------------------------
(* The endpoint of an end that has written S *)

Endpoint == [c : Connection, out : Seq(Packet)]

\* s is connection c after some packets were sent.
Steps(S, c, s) ==
    /\ s \in Endpoint
    /\ Sender(S, s.c)
    /\ s.c.recv_seq = c.recv_seq /\ s.c.oldest_unacked_seq = c.oldest_unacked_seq
    /\ Runs(S, c.send_seq, s.out, s.c.send_seq)
    /\ \A k \in 1..Len(s.out) : /\ s.out[k].kind # "close" /\ s.out[k].ack = c.recv_seq
                                /\ NoMarks(S) => Honest(S, s.out[k])

\* What a Connection is made of.
LEMMA ConnectionFacts ==
    ASSUME NEW c \in Connection
    PROVE  /\ c.send_seq \in Nat /\ c.oldest_unacked_seq \in Nat /\ c.recv_seq \in Nat
           /\ c.send_window \in 0..RX_WINDOW /\ c.recv_window \in 0..RX_WINDOW
           /\ c.flight_buffer \in Seq(Nat) /\ Len(c.flight_buffer) \in Nat
           /\ c.pending_writes \in Seq(WriteType) /\ Len(c.pending_writes) \in Nat
           /\ c.retries \in 0..ADSP_MAX_RETRIES
  <1>1. c.flight_buffer \in Seq(Nat) /\ c.pending_writes \in Seq(WriteType)  BY DEF Connection, WriteType
  <1>2. Len(c.flight_buffer) \in Nat /\ Len(c.pending_writes) \in Nat  BY <1>1
  <1>. QED  BY <1>1, <1>2 DEF Connection

\* A connection and its outbox.
LEMMA EndpointFacts ==
    ASSUME NEW c \in Connection, NEW out \in Seq(Packet), NEW s, s = [c |-> c, out |-> out]
    PROVE  s \in Endpoint /\ s.c = c /\ s.out = out
  BY DEF Endpoint

\* Nothing sent yet.
LEMMA StepsNone ==
    ASSUME NEW S \in Seq(Nat), NEW c \in Connection, Sender(S, c), NEW s, s = [c |-> c, out |-> <<>>]
    PROVE  Steps(S, c, s)
  <1>1. s.c = c /\ s.out = <<>> /\ s \in Endpoint /\ Len(s.out) = 0
    <2>1. <<>> \in Seq(Packet)  OBVIOUS
    <2>. QED  BY <2>1, EndpointFacts
  <1>2. c.send_seq \in 0..Len(S)
    <2>1. Len(S) \in Nat  OBVIOUS
    <2>. QED  BY <2>1, ConnectionFacts DEF Sender
  <1>3. Runs(S, c.send_seq, <<>>, c.send_seq)  BY <1>2, RunsNone
  <1>4. \A k \in 1..0 : FALSE  OBVIOUS
  <1>. QED  BY <1>1, <1>3, <1>4 DEF Steps

\* A packet more.
LEMMA StepsEmit ==
    ASSUME NEW S \in Seq(Nat), NEW c, NEW s, Steps(S, c, s),
           NEW p \in Packet, p.kind # "close", p.ack = c.recv_seq, NoMarks(S) => Honest(S, p),
           NEW d \in Connection, Sender(S, d), d.recv_seq = s.c.recv_seq, d.oldest_unacked_seq = s.c.oldest_unacked_seq,
           Link(S, s.c.send_seq, p, d.send_seq), NEW t, t = [c |-> d, out |-> Append(s.out, p)]
    PROVE  Steps(S, c, t)
  <1> DEFINE q == Append(s.out, p)
  <1>1. s.out \in Seq(Packet)  BY DEF Steps, Endpoint
  <1>2. /\ q \in Seq(Packet) /\ Len(q) = Len(s.out) + 1 /\ q[Len(s.out) + 1] = p
        /\ \A k \in 1..Len(s.out) : q[k] = s.out[k]
    BY <1>1, AppendProperties
  <1>3. d.send_seq \in 0..Len(S)
    <2>1. Len(S) \in Nat  OBVIOUS
    <2>. QED  BY <2>1, ConnectionFacts DEF Sender
  <1>4. Runs(S, c.send_seq, q, d.send_seq)  BY <1>1, <1>3, RunsAppend DEF Steps
  <1> HIDE DEF q
  <1>5. t \in Endpoint /\ t.c = d /\ t.out = q  BY <1>2, EndpointFacts DEF q
  <1>6. \A k \in 1..Len(q) : /\ q[k].kind # "close" /\ q[k].ack = c.recv_seq
                             /\ NoMarks(S) => Honest(S, q[k])
    <2>1. TAKE k \in 1..Len(q)
    <2>2. Len(s.out) \in Nat  BY <1>1
    <2>3. CASE k = Len(s.out) + 1  BY <1>2, <2>3
    <2>4. CASE k # Len(s.out) + 1
      <3>1. k \in 1..Len(s.out)  BY <1>2, <2>2, <2>4
      <3>. QED  BY <1>2, <3>1 DEF Steps
    <2>. QED  BY <2>3, <2>4
  <1>. QED  BY <1>4, <1>5, <1>6 DEF Steps

\* No packet, and a change of what is not about the stream.
LEMMA StepsQuiet ==
    ASSUME NEW S \in Seq(Nat), NEW c, NEW s, Steps(S, c, s),
           NEW d \in Connection, Sender(S, d), d.recv_seq = s.c.recv_seq, d.oldest_unacked_seq = s.c.oldest_unacked_seq,
           d.send_seq = s.c.send_seq, NEW t, t = [c |-> d, out |-> s.out]
    PROVE  Steps(S, c, t)
  <1>1. s.out \in Seq(Packet)  BY DEF Steps, Endpoint
  <1>2. t \in Endpoint /\ t.c = d /\ t.out = s.out  BY <1>1, EndpointFacts
  <1>. QED  BY <1>2 DEF Steps

\* The packets that are built.
LEMMA DataPacketFacts ==
    ASSUME NEW c \in Connection, NEW seq \in Nat, NEW data \in Seq(Nat), NEW eom \in BOOLEAN,
           NEW p, p = DataPacket(c, seq, data, eom)
    PROVE  /\ p \in Packet /\ p.kind = "data" /\ p.seq = seq /\ p.data = data /\ p.eom = eom /\ p.ack = c.recv_seq
           /\ TotalLen(p) = Len(data) + Bit(eom)
  <1>1. c.recv_seq \in Nat /\ c.recv_window \in 0..RX_WINDOW  BY ConnectionFacts
  <1>2. p = [kind |-> "data", seq |-> seq, data |-> data, eom |-> eom, ack |-> c.recv_seq, window |-> c.recv_window]
    BY DEF DataPacket
  <1>3. p \in [kind : {"data", "ack"}, seq : Nat, data : Seq(Nat), eom : BOOLEAN, ack : Nat, window : 0..RX_WINDOW]
    BY <1>1, <1>2
  <1>4. p.kind = "data" /\ p.seq = seq /\ p.data = data /\ p.eom = eom /\ p.ack = c.recv_seq  BY <1>2
  <1>. QED  BY <1>3, <1>4 DEF Packet, TotalLen, Bit

\* send_ack: an acknowledgement carries nothing.
LEMMA AckPacketFacts ==
    ASSUME NEW c \in Connection, NEW p, p = AckPacket(c)
    PROVE  /\ p \in Packet /\ p.kind = "ack" /\ p.seq = c.send_seq /\ p.data = <<>> /\ ~p.eom /\ p.ack = c.recv_seq
           /\ TotalLen(p) = 0
  <1>1. c.recv_seq \in Nat /\ c.send_seq \in Nat /\ c.recv_window \in 0..RX_WINDOW  BY ConnectionFacts
  <1>2. p = [kind |-> "ack", seq |-> c.send_seq, data |-> <<>>, eom |-> FALSE, ack |-> c.recv_seq, window |-> c.recv_window]
    BY DEF AckPacket
  <1>3. p \in [kind : {"data", "ack"}, seq : Nat, data : Seq(Nat), eom : BOOLEAN, ack : Nat, window : 0..RX_WINDOW]
    BY <1>1, <1>2
  <1>4. p.kind = "ack" /\ p.seq = c.send_seq /\ p.data = <<>> /\ p.eom = FALSE /\ p.ack = c.recv_seq  BY <1>2
  <1>5. Len(p.data) = 0  BY <1>4
  <1>. QED  BY <1>3, <1>4, <1>5 DEF Packet, TotalLen

\* send_ack.
LEMMA SendAckSteps ==
    ASSUME NEW S \in Seq(Nat), NEW c, NEW s, Steps(S, c, s)
    PROVE  Steps(S, c, SendAck(s))
  <1>1. s.c \in Connection /\ s.out \in Seq(Packet) /\ s = [c |-> s.c, out |-> s.out]  BY DEF Steps, Endpoint
  <1>2. PICK p : p = AckPacket(s.c)  OBVIOUS
  <1>3. /\ p \in Packet /\ p.kind = "ack" /\ p.seq = s.c.send_seq /\ p.data = <<>> /\ ~p.eom /\ p.ack = s.c.recv_seq
        /\ TotalLen(p) = 0
    BY <1>1, <1>2, AckPacketFacts
  <1>4. s.c.send_seq \in Nat /\ s.c.send_seq <= Len(S)  BY <1>1, ConnectionFacts DEF Steps, Sender
  <1>5. Link(S, s.c.send_seq, p, s.c.send_seq)  BY <1>3, <1>4 DEF Link
  <1>6. Honest(S, p)
    <2>1. Len(p.data) = 0  BY <1>3
    <2>2. At(S, p.seq, p.data, FALSE)  BY <1>3, <1>4, <2>1 DEF At, Bit
    <2>. QED  BY <1>3, <2>2 DEF Honest
  <1>7. SendAck(s) = [c |-> s.c, out |-> Append(s.out, p)]
    <2>1. SendAck(s) = [s EXCEPT !.out = Append(@, p)]  BY <1>2 DEF SendAck, Emit
    <2>. QED  BY <1>1, <2>1
  <1>8. Sender(S, s.c) /\ p.ack = c.recv_seq  BY <1>3 DEF Steps
  <1>. QED  BY <1>1, <1>3, <1>5, <1>6, <1>7, <1>8, StepsEmit

\* A connection with other contents.
Cut(c, F, n, W) == [c EXCEPT !.flight_buffer = F, !.send_seq = n, !.pending_writes = W]

\* It is a Connection, and the rest of it is as it was.
LEMMA ConnectionCut ==
    ASSUME NEW c \in Connection, NEW F \in Seq(Nat), NEW n \in Nat, NEW W \in Seq(WriteType),
           NEW d, d = Cut(c, F, n, W)
    PROVE  /\ d \in Connection /\ d.flight_buffer = F /\ d.send_seq = n /\ d.pending_writes = W
           /\ d.recv_seq = c.recv_seq /\ d.oldest_unacked_seq = c.oldest_unacked_seq
           /\ d.send_window = c.send_window /\ d.recv_window = c.recv_window /\ d.retries = c.retries
  <1>1. d = [send_seq |-> n, oldest_unacked_seq |-> c.oldest_unacked_seq, recv_seq |-> c.recv_seq,
             send_window |-> c.send_window, recv_window |-> c.recv_window,
             flight_buffer |-> F, pending_writes |-> W, retries |-> c.retries]
    BY DEF Connection, Cut
  <1>. QED  BY <1>1, ConnectionFacts DEF Connection, WriteType

-----------------------------------------------------------------------------
(* What the endpoint does, one function after the other *)

\* The numbers of a sender.
LEMMA SenderFacts ==
    ASSUME NEW S \in Seq(Nat), NEW c \in Connection, Sender(S, c)
    PROVE  /\ Len(S) \in Nat /\ c.send_seq \in 0..Len(S)
           /\ c.oldest_unacked_seq + Len(c.flight_buffer) <= c.send_seq
           /\ c.send_seq - c.oldest_unacked_seq \in Nat
  <1>1. Len(S) \in Nat  OBVIOUS
  <1>2. c.send_seq \in Nat /\ c.oldest_unacked_seq \in Nat /\ Len(c.flight_buffer) \in Nat  BY ConnectionFacts
  <1>3. c.send_seq <= Len(S) /\ c.oldest_unacked_seq + Len(c.flight_buffer) <= c.send_seq  BY DEF Sender
  <1>. QED  BY <1>1, <1>2, <1>3

\* The first bytes of a write go out: what is left of it is laid out after them.
FirstPart(w, take) == [data |-> SubSeq(w.data, 1, take), eom |-> w.eom /\ take = Len(w.data)]
WhatIsLeft(w, T, take) ==
    IF take = Len(w.data) THEN T ELSE <<[w EXCEPT !.data = SubSeq(@, take + 1, Len(@))]>> \o T

\* pump: a chunk cut from a write, and what is left of the write, are the stream as before.
LEMMA ChunkLaid ==
    ASSUME NEW S \in Seq(Nat), NEW x \in 0..Len(S), NEW w \in WriteType, NEW T \in Seq(WriteType),
           At(S, x, w.data, w.eom), Laid(S, x + Len(w.data) + Bit(w.eom), T), NEW take \in 0..Len(w.data)
    PROVE  LET first == FirstPart(w, take)
               left == WhatIsLeft(w, T, take)
           IN  /\ first.data \in Seq(Nat) /\ Len(first.data) = take
               /\ At(S, x, first.data, first.eom)
               /\ left \in Seq(WriteType)
               /\ Laid(S, x + take + Bit(first.eom), left)
  <1>1. PICK data, ends : data = w.data /\ ends = w.eom  OBVIOUS
  <1>2. data \in Seq(Nat) /\ Len(data) \in Nat /\ ends \in BOOLEAN /\ Len(S) \in Nat /\ x \in Nat /\ take \in Nat /\ take <= Len(data)
    <2>1. data \in Seq(Nat) /\ ends \in BOOLEAN  BY <1>1 DEF WriteType
    <2>. QED  BY <1>1, <2>1
  <1>3. PICK tail : tail = SubSeq(data, take + 1, Len(data))  OBVIOUS
  <1>4. PICK chunk : chunk = SubSeq(data, 1, take)  OBVIOUS
  <1>5. PICK eom \in BOOLEAN : eom = (ends /\ take = Len(data))  BY <1>2
  <1>6. take \in 0..Len(data) /\ At(S, x, data, ends) /\ Laid(S, x + Len(data) + Bit(ends), T)  BY <1>1
  <1>7. /\ chunk \in Seq(Nat) /\ Len(chunk) = take /\ tail \in Seq(Nat) /\ Len(tail) = Len(data) - take
        /\ At(S, x, chunk, ends /\ take = Len(data)) /\ At(S, x + take, tail, ends)
    <2>1. S \in Seq(Nat) /\ x \in Nat /\ data \in Seq(Nat) /\ ends \in BOOLEAN /\ take \in 0..Len(data)
      BY <1>2, <1>6
    <2>. QED  BY ONLY <1>3, <1>4, <1>6, <2>1, AtSplit
  <1>8. At(S, x, chunk, eom)  BY <1>5, <1>7
  <1>11. FirstPart(w, take).data = chunk /\ FirstPart(w, take).eom = eom  BY <1>1, <1>4, <1>5 DEF FirstPart
  <1>9. CASE take = Len(data)
    <2>1. eom = ends  BY <1>2, <1>5, <1>9
    <2>2. x + take + Bit(eom) = x + Len(data) + Bit(ends)  BY <1>9, <2>1
    <2>3. Laid(S, x + take + Bit(eom), T)  BY <1>6, <2>2
    <2>4. WhatIsLeft(w, T, take) = T  BY <1>1, <1>9 DEF WhatIsLeft
    <2>. QED  BY <1>2, <1>7, <1>8, <1>11, <2>3, <2>4
  <1>10. CASE take # Len(data)
    <2>1. ~eom /\ Bit(eom) = 0  BY <1>5, <1>10 DEF Bit
    <2>2. PICK rest : rest = [w EXCEPT !.data = SubSeq(@, take + 1, Len(@))]  OBVIOUS
    <2>3. rest \in WriteType /\ rest.data = tail /\ rest.eom = ends
      <3>1. rest = [data |-> tail, eom |-> ends]  BY <1>1, <1>3, <2>2 DEF WriteType
      <3>. QED  BY <1>2, <1>7, <3>1 DEF WriteType
    <2>4. Bit(ends) \in Nat  BY DEF Bit
    <2>5. x + take + Len(tail) + Bit(ends) = x + Len(data) + Bit(ends)  BY <1>2, <1>7, <2>4
    <2>6. x + take \in 0..Len(S)
      <3>1. x + Len(chunk) + Bit(eom) <= Len(S)  BY <1>8 DEF At
      <3>2. x + take <= Len(S)  BY <1>2, <1>7, <2>1, <3>1
      <3>. QED  BY <1>2, <3>2
    <2>7. At(S, x + take, rest.data, rest.eom) /\ Laid(S, x + take + Len(rest.data) + Bit(rest.eom), T)
      BY <1>6, <1>7, <2>3, <2>5
    <2>8. <<rest>> \o T \in Seq(WriteType) /\ Laid(S, x + take, <<rest>> \o T)  BY <2>3, <2>6, <2>7, LaidFirst
    <2>9. x + take + Bit(eom) = x + take  BY <1>2, <2>1
    <2>10. Laid(S, x + take + Bit(eom), <<rest>> \o T)  BY <2>8, <2>9
    <2>11. WhatIsLeft(w, T, take) = <<rest>> \o T  BY <1>1, <1>10, <2>2 DEF WhatIsLeft
    <2>. QED  BY <1>2, <1>7, <1>8, <1>11, <2>8, <2>10, <2>11
  <1>. QED  BY <1>9, <1>10

\* The connection after it.
LEMMA ChunkSent ==
    ASSUME NEW S \in Seq(Nat), NEW c \in Connection, Sender(S, c), NEW chunk \in Seq(Nat), NEW eom \in BOOLEAN,
           At(S, c.send_seq, chunk, eom), NEW n \in Nat, n = c.send_seq + Len(chunk) + Bit(eom),
           NEW d \in Connection, d.flight_buffer = c.flight_buffer \o chunk, d.send_seq = n,
           Laid(S, n, d.pending_writes), d.oldest_unacked_seq = c.oldest_unacked_seq
    PROVE  Sender(S, d) /\ (NoMarks(S) => ~eom)
  <1>1. PICK x, o, f, F : x = c.send_seq /\ o = c.oldest_unacked_seq /\ f = c.flight_buffer /\ F = d.flight_buffer  OBVIOUS
  <1>2. x \in Nat /\ o \in Nat /\ f \in Seq(Nat) /\ Len(f) \in Nat /\ Len(chunk) \in Nat /\ Len(S) \in Nat
    BY <1>1, ConnectionFacts
  <1>3. F \in Seq(Nat) /\ Len(F) = Len(f) + Len(chunk)  BY <1>1, <1>2, ConcatProperties
  <1>4. Bit(eom) \in {0, 1} /\ (~eom => Bit(eom) = 0)  BY DEF Bit
  <1>5. o + Len(f) <= x /\ n = x + Len(chunk) + Bit(eom)  BY <1>1 DEF Sender
  <1>6. n <= Len(S)  BY <1>5, <1>1 DEF At
  <1>7. o + Len(F) <= n  BY <1>2, <1>3, <1>4, <1>5
  <1>8. NoMarks(S) => ~eom /\ o + Len(F) = n /\ At(S, o, F, FALSE)
    <2>1. SUFFICES ASSUME NoMarks(S) PROVE ~eom /\ o + Len(F) = n /\ At(S, o, F, FALSE)  OBVIOUS
    <2>2. ~eom  BY <1>1, <1>2, <2>1, AtUnmarked
    <2>3. o + Len(f) = x /\ At(S, o, f, FALSE)  BY <1>1, <2>1 DEF Sender
    <2>4. At(S, o + Len(f), chunk, FALSE)  BY <1>1, <2>2, <2>3
    <2>5. At(S, o, f \o chunk, FALSE)  BY <1>2, <2>3, <2>4, AtJoin
    <2>6. Bit(eom) = 0  BY <1>4, <2>2
    <2>7. o + Len(F) = n
      <3>1. PICK lf, lc, lF, b : lf = Len(f) /\ lc = Len(chunk) /\ lF = Len(F) /\ b = Bit(eom)  OBVIOUS
      <3>2. lf \in Nat /\ lc \in Nat /\ lF = lf + lc /\ b = 0 /\ n = x + lc + b /\ o + lf = x
        BY <1>2, <1>3, <1>5, <2>3, <2>6, <3>1
      <3>2a. o \in Nat /\ x \in Nat  BY <1>2
      <3>3. o + lF = n  BY ONLY <3>2a, <3>2
      <3>. QED  BY <3>1, <3>3
    <2>. QED  BY <1>1, <2>2, <2>5, <2>7
  <1>. QED  BY <1>1, <1>6, <1>7, <1>8 DEF Sender

\* pump's loop: one turn.
LEMMA CutOneSteps ==
    ASSUME NEW S \in Seq(Nat), NEW c0, NEW s, Steps(S, c0, s)
    PROVE  Steps(S, c0, CutOne(s))
  <1>0. PICK c : c = s.c  OBVIOUS
  <1> DEFINE front == Head(c.pending_writes)
             in_flight == c.send_seq - c.oldest_unacked_seq
             available == Room(c.send_window, in_flight)
             take == Least(Least(Len(front.data), available), ADSP_MAX_DATA)
             done == take = Len(front.data)
             eom == front.eom /\ done
             chunk == SubSeq(front.data, 1, take)
             rest == [front EXCEPT !.data = SubSeq(@, take + 1, Len(@))]
  <1>1. c \in Connection /\ Sender(S, c) /\ s.out \in Seq(Packet) /\ s = [c |-> c, out |-> s.out]  BY <1>0 DEF Steps, Endpoint
  <1>2. CASE c.pending_writes = <<>> \/ (available = 0 /\ front.data # <<>>)
    <2>1. CutOne(s) = s  BY <1>0, <1>2 DEF CutOne
    <2>. QED  BY <2>1
  <1>3. CASE ~(c.pending_writes = <<>> \/ (available = 0 /\ front.data # <<>>))
    <2>1. c.pending_writes # <<>> /\ c.pending_writes \in Seq(WriteType)  BY <1>1, <1>3, ConnectionFacts
    <2>2. front \in WriteType /\ Tail(c.pending_writes) \in Seq(WriteType)  BY <2>1, HeadTailProperties
    <2>3. front.data \in Seq(Nat) /\ Len(front.data) \in Nat /\ front.eom \in BOOLEAN
      <3>1. front.data \in Seq(Nat) /\ front.eom \in BOOLEAN  BY <2>2 DEF WriteType
      <3>. QED  BY <3>1
    <2>4. CASE front.data = <<>> /\ ~front.eom
      <3>1. CutOne(s) = [s EXCEPT !.c.pending_writes = Tail(@)]  BY <1>0, <1>3, <2>4 DEF CutOne
      <3>2. PICK d : d = [c EXCEPT !.flight_buffer = c.flight_buffer, !.send_seq = c.send_seq, !.pending_writes = Tail(c.pending_writes)]
        OBVIOUS
      <3>3. /\ d \in Connection /\ d.flight_buffer = c.flight_buffer /\ d.send_seq = c.send_seq /\ d.pending_writes = Tail(c.pending_writes)
            /\ d.recv_seq = c.recv_seq /\ d.oldest_unacked_seq = c.oldest_unacked_seq
        <4>1. c.flight_buffer \in Seq(Nat) /\ c.send_seq \in Nat  BY <1>1, ConnectionFacts
        <4>2. PICK F, n, W : F = c.flight_buffer /\ n = c.send_seq /\ W = Tail(c.pending_writes)  OBVIOUS
        <4>3. F \in Seq(Nat) /\ n \in Nat /\ W \in Seq(WriteType)  BY <2>2, <4>1, <4>2
        <4>4. d = Cut(c, F, n, W)  BY <3>2, <4>2 DEF Cut
        <4>5. c \in Connection  BY <1>1
        <4>6. /\ d \in Connection /\ d.flight_buffer = F /\ d.send_seq = n /\ d.pending_writes = W
              /\ d.recv_seq = c.recv_seq /\ d.oldest_unacked_seq = c.oldest_unacked_seq
          BY <4>3, <4>4, <4>5, ConnectionCut
        <4>. QED  BY <4>2, <4>6
      <3>4. CutOne(s) = [c |-> d, out |-> s.out]
        <4>1. [c EXCEPT !.pending_writes = Tail(@)] = d  BY <1>1, <3>2 DEF Connection
        <4>2. PICK o : o = s.out  OBVIOUS
        <4>3. s = [c |-> c, out |-> o]  BY <1>0, <1>1, <4>2
        <4>4. CutOne(s) = [c |-> [c EXCEPT !.pending_writes = Tail(@)], out |-> o]  BY <3>1, <4>3
        <4>. QED  BY <4>1, <4>2, <4>4
      <3>5. Laid(S, c.send_seq, Tail(c.pending_writes))
        <4>1. Laid(S, c.send_seq, c.pending_writes)  BY <1>1 DEF Sender
        <4>2. Laid(S, c.send_seq + Len(front.data) + Bit(front.eom), Tail(c.pending_writes))
          BY <2>1, <4>1, LaidTail
        <4>3. c.send_seq \in Nat  BY <1>1, ConnectionFacts
        <4>4. Len(front.data) = 0 /\ Bit(front.eom) = 0  BY <2>4 DEF Bit
        <4>5. c.send_seq + Len(front.data) + Bit(front.eom) = c.send_seq  BY <4>3, <4>4
        <4>. QED  BY <4>2, <4>5
      <3>6. Sender(S, d)  BY <1>1, <3>3, <3>5 DEF Sender
      <3>. QED  BY <1>0, <3>3, <3>4, <3>6, StepsQuiet
    <2>5. CASE ~(front.data = <<>> /\ ~front.eom)
      <3>1. c.send_window \in Nat /\ in_flight \in Nat /\ ADSP_MAX_DATA \in Nat
        BY <1>1, ConnectionFacts, SenderFacts, Constants
      <3>2. available \in Nat  BY <3>1 DEF Room
      <3>3. take \in 0..Len(front.data)  BY <2>3, <3>1, <3>2 DEF Least
      <3>4. PICK x, W, F, p, n :
              /\ x = c.send_seq
              /\ W = (IF done THEN Tail(c.pending_writes) ELSE <<rest>> \o Tail(c.pending_writes))
              /\ F = c.flight_buffer \o chunk
              /\ p = DataPacket(c, c.send_seq, chunk, eom)
              /\ n = c.send_seq + take + (IF eom THEN 1 ELSE 0)
        OBVIOUS
      <3>5. PICK d : d = [c EXCEPT !.flight_buffer = F, !.send_seq = n, !.pending_writes = W]  OBVIOUS
      <3>6. CutOne(s) = [c |-> d, out |-> Append(s.out, p)]  BY <1>0, <1>3, <2>5, <3>4, <3>5 DEF CutOne
      <3>7. x \in 0..Len(S) /\ x \in Nat /\ Len(S) \in Nat
        <4>1. c.send_seq \in 0..Len(S) /\ Len(S) \in Nat  BY <1>1, SenderFacts
        <4>. QED  BY <3>4, <4>1
      <3>8. At(S, x, front.data, front.eom) /\ Laid(S, x + Len(front.data) + Bit(front.eom), Tail(c.pending_writes))
        <4>1. Laid(S, x, c.pending_writes)  BY <1>1, <3>4 DEF Sender
        <4>. QED  BY <2>1, <4>1, LaidTail
      <3> HIDE DEF take
      <3>9. /\ chunk \in Seq(Nat) /\ Len(chunk) = take
            /\ At(S, x, chunk, eom) /\ W \in Seq(WriteType) /\ Laid(S, x + take + Bit(eom), W)
        <4>1. PICK w, T : w = front /\ T = Tail(c.pending_writes)  OBVIOUS
        <4>2. /\ w \in WriteType /\ T \in Seq(WriteType) /\ At(S, x, w.data, w.eom)
              /\ Laid(S, x + Len(w.data) + Bit(w.eom), T) /\ take \in 0..Len(w.data)
          BY <2>2, <3>3, <3>8, <4>1
        <4>3. FirstPart(w, take).data = chunk /\ FirstPart(w, take).eom = eom  BY <4>1 DEF FirstPart
        <4>4. WhatIsLeft(w, T, take) = W  BY <3>4, <4>1 DEF WhatIsLeft
        <4>5. /\ FirstPart(w, take).data \in Seq(Nat) /\ Len(FirstPart(w, take).data) = take
              /\ At(S, x, FirstPart(w, take).data, FirstPart(w, take).eom)
              /\ WhatIsLeft(w, T, take) \in Seq(WriteType)
              /\ Laid(S, x + take + Bit(FirstPart(w, take).eom), WhatIsLeft(w, T, take))
          BY <3>7, <4>2, ChunkLaid
        <4>. QED  BY <4>3, <4>4, <4>5
      <3>10. eom \in BOOLEAN  BY <2>3
      <3> HIDE DEF eom, chunk
      <3>11. Bit(eom) \in {0, 1} /\ n = x + take + Bit(eom)  BY <3>4 DEF Bit
      <3>12. n = x + Len(chunk) + Bit(eom) /\ n \in Nat  BY <2>3, <3>3, <3>7, <3>9, <3>11
      <3>13. F \in Seq(Nat)
        <4>1. c.flight_buffer \in Seq(Nat)  BY <1>1, ConnectionFacts
        <4>. QED  BY <3>4, <3>9, <4>1, ConcatProperties
      <3>14. /\ d \in Connection /\ d.flight_buffer = F /\ d.send_seq = n /\ d.pending_writes = W
             /\ d.recv_seq = c.recv_seq /\ d.oldest_unacked_seq = c.oldest_unacked_seq
        <4>1. d = Cut(c, F, n, W) /\ c \in Connection /\ W \in Seq(WriteType)  BY <1>1, <3>5, <3>9 DEF Cut
        <4>2. F \in Seq(Nat) /\ n \in Nat  BY <3>12, <3>13
        <4>. QED  BY ONLY <4>1, <4>2, ConnectionCut
      <3>15. Sender(S, d) /\ (NoMarks(S) => ~eom)
        <4>1. Laid(S, n, d.pending_writes)  BY <3>9, <3>11, <3>14
        <4>2. At(S, c.send_seq, chunk, eom) /\ n = c.send_seq + Len(chunk) + Bit(eom)  BY <3>4, <3>9, <3>12
        <4>3. d.flight_buffer = c.flight_buffer \o chunk  BY <3>4, <3>14
        <4>. QED  BY <1>1, <3>9, <3>10, <3>12, <3>14, <4>1, <4>2, <4>3, ChunkSent
      <3>16. /\ p \in Packet /\ p.kind = "data" /\ p.seq = x /\ p.data = chunk /\ p.eom = eom /\ p.ack = c.recv_seq
             /\ TotalLen(p) = Len(chunk) + Bit(eom)
        <4>1. c \in Connection /\ x \in Nat /\ chunk \in Seq(Nat) /\ eom \in BOOLEAN  BY <1>1, <3>7, <3>9, <3>10
        <4>2. p = DataPacket(c, x, chunk, eom) /\ x = c.send_seq  BY <3>4
        <4>. QED  BY ONLY <4>1, <4>2, DataPacketFacts
      <3>17. Link(S, x, p, n)
        <4>1. p.kind # "close"  BY <3>16
        <4>2. n = x + TotalLen(p)  BY <2>3, <3>3, <3>7, <3>9, <3>11, <3>16
        <4>3. At(S, x, p.data, p.eom)  BY <3>9, <3>16
        <4>. QED  BY <3>16, <4>1, <4>2, <4>3, LinkNext
      <3>18. NoMarks(S) => Honest(S, p)
        <4>1. SUFFICES ASSUME NoMarks(S) PROVE Honest(S, p)  OBVIOUS
        <4>2. ~eom /\ ~p.eom /\ eom = FALSE  BY <3>10, <3>15, <3>16, <4>1
        <4>3. At(S, p.seq, p.data, FALSE)  BY <3>9, <3>16, <4>2
        <4>. QED  BY <4>2, <4>3 DEF Honest
      <3>19. p.kind # "close" /\ p.ack = c0.recv_seq  BY <1>0, <3>16 DEF Steps
      <3>20. d.recv_seq = s.c.recv_seq /\ d.oldest_unacked_seq = s.c.oldest_unacked_seq /\ Link(S, s.c.send_seq, p, d.send_seq)
        BY <1>0, <3>4, <3>14, <3>17
      <3>21. PICK t : t = CutOne(s)  OBVIOUS
      <3>22. Steps(S, c0, t)  BY <3>6, <3>14, <3>15, <3>16, <3>18, <3>19, <3>20, <3>21, StepsEmit
      <3>. QED  BY <3>21, <3>22
    <2>. QED  BY <2>4, <2>5
  <1>. QED  BY <1>2, <1>3

\* pump's loop, turn by turn.
Turned(T) == {CutOne(t) : t \in T}
Turns(s, n, f) == f = [k \in 0..n |-> IF k = 0 THEN {s} ELSE Turned(f[k - 1])]

\* The turns of the loop are a function on 0..n.
LEMMA TurnsExist ==
    ASSUME NEW s, NEW n \in Nat
    PROVE  \E f : Turns(s, n, f)
  <1> DEFINE None == {m \in Nat : ~\E f : Turns(s, m, f)}
  <1>1. SUFFICES ASSUME None # {} PROVE FALSE  OBVIOUS
  <1>2. PICK m \in None : \A i \in None : m <= i  BY <1>1, LeastNumber
  <1>3. m \in Nat /\ ~\E f : Turns(s, m, f)  OBVIOUS
  <1>4. CASE m = 0
    <2> DEFINE f == [k \in 0..0 |-> {s}]
    <2>1. f = [k \in 0..0 |-> IF k = 0 THEN {s} ELSE Turned(f[k - 1])]  OBVIOUS
    <2> HIDE DEF f
    <2>2. Turns(s, 0, f)  BY <2>1 DEF Turns
    <2>. QED  BY <1>3, <1>4, <2>2
  <1>5. CASE m # 0
    <2>1. m - 1 \in Nat /\ ~(m <= m - 1)  BY <1>3, <1>5
    <2>2. m - 1 \notin None  BY <1>2, <2>1
    <2>3. PICK f : Turns(s, m - 1, f)  BY <2>1, <2>2
    <2>4. f = [k \in 0..m - 1 |-> IF k = 0 THEN {s} ELSE Turned(f[k - 1])]  BY <2>3 DEF Turns
    <2> DEFINE g == [k \in 0..m |-> IF k = m THEN Turned(f[m - 1]) ELSE f[k]]
    <2>5. \A k \in 0..m - 1 : k \in 0..m /\ k # m  BY <1>3
    <2>6. (\A k \in 0..m - 1 : g[k] = f[k]) /\ g[m] = Turned(f[m - 1])  BY <1>3, <2>5
    <2>7. DOMAIN g = 0..m /\ g = [k \in 0..m |-> g[k]]  OBVIOUS
    <2> HIDE DEF g
    <2>8. \A k \in 0..m : g[k] = IF k = 0 THEN {s} ELSE Turned(g[k - 1])
      <3>1. TAKE k \in 0..m
      <3>2. CASE k = m
        <4>1. k # 0 /\ k - 1 = m - 1 /\ m - 1 \in 0..m - 1  BY <1>3, <1>5, <2>1, <3>2
        <4>2. g[k] = Turned(f[m - 1]) /\ g[k - 1] = f[m - 1]  BY <2>6, <3>2, <4>1
        <4>. QED  BY <4>1, <4>2
      <3>3. CASE k # m
        <4>1. k \in 0..m - 1  BY <1>3, <3>3
        <4>2. g[k] = f[k]  BY <2>6, <4>1
        <4>3. f[k] = IF k = 0 THEN {s} ELSE Turned(f[k - 1])  BY <2>4, <4>1
        <4>4. CASE k = 0  BY <4>2, <4>3, <4>4
        <4>5. CASE k # 0
          <5>1. k - 1 \in 0..m - 1  BY <1>3, <4>1, <4>5
          <5>2. g[k - 1] = f[k - 1]  BY <2>6, <5>1
          <5>. QED  BY <4>2, <4>3, <4>5, <5>2
        <4>. QED  BY <4>4, <4>5
      <3>. QED  BY <3>2, <3>3
    <2>9. g = [k \in 0..m |-> IF k = 0 THEN {s} ELSE Turned(g[k - 1])]  BY <2>7, <2>8
    <2>10. Turns(s, m, g)  BY <2>9 DEF Turns
    <2>. QED  BY <1>3, <2>10
  <1>. QED  BY <1>4, <1>5

\* pump: all its turns.
LEMMA PumpSteps ==
    ASSUME NEW S \in Seq(Nat), NEW c0, NEW s, Steps(S, c0, s)
    PROVE  Steps(S, c0, Pump(s))
  <1>1. PICK turn : Turns(s, MaxWritten, turn) /\ Pump(s) = CHOOSE t \in turn[MaxWritten] : TRUE
    <2>1. MaxWritten \in Nat  BY Constants
    <2>2. \E f : f = [k \in 0..MaxWritten |-> IF k = 0 THEN {s} ELSE {CutOne(t) : t \in f[k - 1]}]
      <3>1. PICK f : Turns(s, MaxWritten, f)  BY <2>1, TurnsExist
      <3>2. f = [k \in 0..MaxWritten |-> IF k = 0 THEN {s} ELSE {CutOne(t) : t \in f[k - 1]}]
        BY <3>1 DEF Turns, Turned
      <3>. QED  BY <3>2
    <2>3. PICK turn : turn = CHOOSE f : f = [k \in 0..MaxWritten |-> IF k = 0 THEN {s} ELSE {CutOne(t) : t \in f[k - 1]}]
      OBVIOUS
    <2>4. turn = [k \in 0..MaxWritten |-> IF k = 0 THEN {s} ELSE {CutOne(t) : t \in turn[k - 1]}]  BY <2>2, <2>3
    <2>5. Pump(s) = CHOOSE t \in turn[MaxWritten] : TRUE  BY <2>3 DEF Pump
    <2>. QED  BY <2>4, <2>5 DEF Turns, Turned
  <1>2. turn = [k \in 0..MaxWritten |-> IF k = 0 THEN {s} ELSE Turned(turn[k - 1])]  BY <1>1 DEF Turns
  <1> DEFINE Good(T) == T # {} /\ \A t \in T : Steps(S, c0, t)
             Bad == {k \in Nat : k <= MaxWritten /\ ~Good(turn[k])}
  <1>3. Bad = {}
    <2>1. SUFFICES ASSUME Bad # {} PROVE FALSE  OBVIOUS
    <2>2. PICK k \in Bad : \A i \in Bad : k <= i  BY <2>1, LeastNumber
    <2>3. k \in Nat /\ k <= MaxWritten /\ k \in 0..MaxWritten /\ ~Good(turn[k])  BY Constants
    <2>4. k # 0
      <3>1. 0 \in 0..MaxWritten  BY Constants
      <3>2. turn[0] = {s}  BY <1>2, <3>1
      <3>3. Good(turn[0])  BY <3>2
      <3>. QED  BY <2>3, <3>3
    <2>5. k - 1 \in Nat /\ k - 1 <= MaxWritten /\ ~(k <= k - 1)  BY <2>3, <2>4, Constants
    <2>6. Good(turn[k - 1])  BY <2>2, <2>5
    <2>7. turn[k] = Turned(turn[k - 1])  BY <1>2, <2>3, <2>4
    <2>8. Turned(turn[k - 1]) # {}  BY <2>6 DEF Turned
    <2>9. \A t \in Turned(turn[k - 1]) : Steps(S, c0, t)
      <3>1. TAKE t \in Turned(turn[k - 1])
      <3>2. PICK u \in turn[k - 1] : t = CutOne(u)  BY <3>1 DEF Turned
      <3>3. Steps(S, c0, u)  BY <2>6
      <3>. QED  BY <3>2, <3>3, CutOneSteps
    <2>. QED  BY <2>3, <2>7, <2>8, <2>9
  <1>4. Good(turn[MaxWritten])
    <2>1. MaxWritten \in Nat /\ MaxWritten <= MaxWritten  BY Constants
    <2>. QED  BY <1>3, <2>1
  <1>5. Pump(s) \in turn[MaxWritten]  BY <1>1, <1>4
  <1>. QED  BY <1>4, <1>5

\* A part of a stretch of the stream.
LEMMA AtPart ==
    ASSUME NEW S \in Seq(Nat), NEW x \in Nat, NEW data \in Seq(Nat), At(S, x, data, FALSE),
           NEW a \in 0..Len(data), NEW b \in a..Len(data)
    PROVE  /\ SubSeq(data, a + 1, b) \in Seq(Nat) /\ Len(SubSeq(data, a + 1, b)) = b - a
           /\ At(S, x + a, SubSeq(data, a + 1, b), FALSE)
  <1> DEFINE R == SubSeq(data, a + 1, b)
  <1>1. Len(S) \in Nat /\ Len(data) \in Nat /\ a \in Nat /\ b \in Nat /\ a <= b /\ b <= Len(data)  OBVIOUS
  <1>2. \A i \in 1..Len(data) : data[i] \in Nat  BY ElementOfSeq
  <1>3. R \in Seq(Nat) /\ Len(R) = b - a /\ \A i \in 1..b - a : R[i] = data[a + i]
    <2>1. \A i \in a + 1..b : data[i] \in Nat  BY <1>1, <1>2
    <2>2. /\ R \in Seq(Nat) /\ Len(R) = IF a + 1 <= b THEN b - (a + 1) + 1 ELSE 0
          /\ \A i \in 1..b - (a + 1) + 1 : R[i] = data[a + 1 + i - 1]
      BY <1>1, <2>1, SubSeqProperties
    <2>3. \A i \in 1..b - a : i \in 1..b - (a + 1) + 1 /\ a + 1 + i - 1 = a + i  BY <1>1
    <2>4. Len(R) = b - a  BY <1>1, <2>2
    <2>5. \A i \in 1..b - a : R[i] = data[a + i]
      <3>1. TAKE i \in 1..b - a
      <3>2. R[i] = data[a + 1 + i - 1] /\ a + 1 + i - 1 = a + i  BY <2>2, <2>3
      <3>. QED  BY <3>2
    <2>. QED  BY <2>2, <2>4, <2>5
  <1> HIDE DEF R
  <1>4. x + Len(data) + 0 <= Len(S)  BY DEF At, Bit
  <1>5. \A i \in 1..Len(R) : S[x + a + i] = R[i]
    <2>1. TAKE i \in 1..Len(R)
    <2>2. a + i \in 1..Len(data) /\ R[i] = data[a + i] /\ x + a + i = x + (a + i)  BY <1>1, <1>3
    <2>. QED  BY <2>2 DEF At
  <1>6. x + a + Len(R) + 0 <= Len(S)  BY <1>1, <1>3, <1>4
  <1>7. At(S, x + a, R, FALSE)  BY <1>5, <1>6 DEF At, Bit
  <1>. QED  BY <1>3, <1>7 DEF R

\* What a connection holds is about a part of it.
LEMMA SenderSame ==
    ASSUME NEW S, NEW c, NEW d, Sender(S, c), d.send_seq = c.send_seq, d.pending_writes = c.pending_writes,
           d.oldest_unacked_seq = c.oldest_unacked_seq, d.flight_buffer = c.flight_buffer
    PROVE  Sender(S, d)
  BY DEF Sender

\* Connections with other contents.
Acknowledged(c, w, F, o, r) ==
    [c EXCEPT !.send_window = w, !.flight_buffer = F, !.oldest_unacked_seq = o, !.retries = r]
Opened(c, w) == [c EXCEPT !.recv_window = w]
Delivered(c, r) == [c EXCEPT !.recv_seq = r]

\* apply_ack changes nothing else.
LEMMA ConnectionAcknowledged ==
    ASSUME NEW c \in Connection, NEW w \in 0..RX_WINDOW, NEW F \in Seq(Nat), NEW o \in Nat, NEW r \in 0..ADSP_MAX_RETRIES,
           NEW d, d = Acknowledged(c, w, F, o, r)
    PROVE  /\ d \in Connection /\ d.flight_buffer = F /\ d.oldest_unacked_seq = o /\ d.pending_writes = c.pending_writes
           /\ d.send_seq = c.send_seq /\ d.recv_seq = c.recv_seq
  <1>1. d = [send_seq |-> c.send_seq, oldest_unacked_seq |-> o, recv_seq |-> c.recv_seq,
             send_window |-> w, recv_window |-> c.recv_window,
             flight_buffer |-> F, pending_writes |-> c.pending_writes, retries |-> r]
    BY DEF Connection, Acknowledged
  <1>. QED  BY <1>1, ConnectionFacts DEF Connection, WriteType

\* set_recv_window changes nothing else.
LEMMA ConnectionOpened ==
    ASSUME NEW c \in Connection, NEW w \in 0..RX_WINDOW, NEW d, d = Opened(c, w)
    PROVE  /\ d \in Connection /\ d.flight_buffer = c.flight_buffer /\ d.oldest_unacked_seq = c.oldest_unacked_seq
           /\ d.pending_writes = c.pending_writes /\ d.send_seq = c.send_seq /\ d.recv_seq = c.recv_seq
  <1>1. d = [send_seq |-> c.send_seq, oldest_unacked_seq |-> c.oldest_unacked_seq, recv_seq |-> c.recv_seq,
             send_window |-> c.send_window, recv_window |-> w,
             flight_buffer |-> c.flight_buffer, pending_writes |-> c.pending_writes, retries |-> c.retries]
    BY DEF Connection, Opened
  <1>. QED  BY <1>1, ConnectionFacts DEF Connection, WriteType

\* handle_data changes nothing else on the receiving side.
LEMMA ConnectionDelivered ==
    ASSUME NEW c \in Connection, NEW r \in Nat, NEW d, d = Delivered(c, r)
    PROVE  /\ d \in Connection /\ d.flight_buffer = c.flight_buffer /\ d.oldest_unacked_seq = c.oldest_unacked_seq
           /\ d.pending_writes = c.pending_writes /\ d.send_seq = c.send_seq /\ d.recv_seq = r
  <1>1. d = [send_seq |-> c.send_seq, oldest_unacked_seq |-> c.oldest_unacked_seq, recv_seq |-> r,
             send_window |-> c.send_window, recv_window |-> c.recv_window,
             flight_buffer |-> c.flight_buffer, pending_writes |-> c.pending_writes, retries |-> c.retries]
    BY DEF Connection, Delivered
  <1>. QED  BY <1>1, ConnectionFacts DEF Connection, WriteType

\* The part of the flight buffer an acknowledgement leaves.
Drained(f, ack, o) == SubSeq(f, Least(ack - o, Len(f)) + 1, Len(f))

\* apply_ack: what is left of the flight buffer starts at the acknowledgement.
LEMMA DrainKeeps ==
    ASSUME NEW S \in Seq(Nat), NEW o \in Nat, NEW x \in Nat, NEW ack \in Nat, NEW f \in Seq(Nat),
           o + Len(f) <= x, o < ack, ack <= x
    PROVE  LET F == Drained(f, ack, o) IN
           /\ F \in Seq(Nat) /\ ack + Len(F) <= x
           /\ o + Len(f) = x /\ At(S, o, f, FALSE) => ack + Len(F) = x /\ At(S, ack, F, FALSE)
  <1>0. o \in Nat /\ x \in Nat /\ ack \in Nat /\ o < ack /\ ack <= x  OBVIOUS
  <1>1. PICK k, n : k = Len(f) /\ n = Least(ack - o, Len(f))  OBVIOUS
  <1>2. k \in Nat  BY <1>1
  <1>3. n \in 0..k /\ n <= ack - o /\ (n # k => n = ack - o)  BY <1>1, <1>2 DEF Least
  <1>4. n \in 0..Len(f)  BY <1>1, <1>3
  <1>5. SubSeq(f, n + 1, Len(f)) \in Seq(Nat) /\ Len(SubSeq(f, n + 1, Len(f))) = Len(f) - n
    <2>1. At(f, 0, f, FALSE)
      <3>1. 0 + Len(f) + 0 <= Len(f) /\ \A i \in 1..Len(f) : 0 + i = i  BY <1>1, <1>2
      <3>. QED  BY <3>1 DEF At, Bit
    <2>2. 0 \in Nat  OBVIOUS
    <2>. QED  BY <1>4, <2>1, <2>2, AtSplit
  <1>6. PICK F : F = SubSeq(f, n + 1, Len(f))  OBVIOUS
  <1>7. Len(F) = k - n /\ F \in Seq(Nat)  BY <1>1, <1>5, <1>6
  <1>8. o + k <= x  BY <1>1
  <1>9. ack + Len(F) <= x  BY <1>2, <1>3, <1>7, <1>8
  <1>10. ASSUME o + Len(f) = x, At(S, o, f, FALSE)
         PROVE  ack + Len(F) = x /\ At(S, ack, F, FALSE)
    <2>1. o + k = x  BY <1>1, <1>10
    <2>2. n = ack - o  BY ONLY <1>0, <1>2, <1>3, <2>1
    <2>3. At(S, o + n, SubSeq(f, n + 1, Len(f)), FALSE)  BY <1>4, <1>10, AtSplit
    <2>4. o + n = ack /\ ack + Len(F) = x  BY ONLY <1>0, <1>2, <1>3, <1>7, <2>1, <2>2
    <2>. QED  BY <1>6, <2>3, <2>4
  <1>11. F = Drained(f, ack, o)  BY <1>1, <1>6 DEF Drained
  <1>. QED  BY <1>7, <1>9, <1>10, <1>11

\* apply_ack, all but the pump.
Within(c, p, L) == c.oldest_unacked_seq <= L /\ p.ack <= L

Start(c) == [c |-> c, out |-> <<>>]

\* apply_ack: an acknowledgement of no more than was delivered leaves a sender, which pumps.
LEMMA AckApplied ==
    ASSUME NEW S \in Seq(Nat), NEW c \in Connection, Sender(S, c), NEW p \in Packet, p.kind # "close",
           NEW L \in Nat, Within(c, p, L)
    PROVE  \E b \in Connection :
               /\ Sender(S, b) /\ b.oldest_unacked_seq \in 0..L
               /\ b.send_seq = c.send_seq /\ b.recv_seq = c.recv_seq
               /\ ApplyAck(Start(c), p) = Pump(Start(b))
  <1>s. PICK s : s = [c |-> c, out |-> <<>>]  OBVIOUS
  <1> DEFINE acked == p.ack - c.oldest_unacked_seq
             max_valid == c.send_seq - c.oldest_unacked_seq
             valid == acked > 0 /\ acked <= max_valid
             drain == Least(acked, Len(c.flight_buffer))
             c1 == [c EXCEPT !.send_window = p.window]
             c2 == IF ~valid THEN c1 ELSE
                   [c1 EXCEPT !.flight_buffer = SubSeq(@, drain + 1, Len(@)),
                              !.oldest_unacked_seq = p.ack, !.retries = 0]
  <1>0. S \in Seq(Nat) /\ c \in Connection  OBVIOUS
  <1>1. ApplyAck(s, p) = Pump([c |-> c2, out |-> <<>>])
    <2>1. s.c = c  BY <1>s
    <2>2. ApplyAck(s, p) = Pump([s EXCEPT !.c = c2])  BY <2>1 DEF ApplyAck
    <2> HIDE DEF c2
    <2>3. [s EXCEPT !.c = c2] = [c |-> c2, out |-> <<>>]  BY <1>s
    <2>. QED  BY <2>2, <2>3
  <1>2. PICK x, o, f, w, a, r : /\ x = c.send_seq /\ o = c.oldest_unacked_seq /\ f = c.flight_buffer
                                /\ w = p.window /\ a = p.ack /\ r = c.retries
    OBVIOUS
  <1>3. /\ x \in Nat /\ o \in Nat /\ f \in Seq(Nat) /\ w \in 0..RX_WINDOW /\ a \in Nat /\ r \in 0..ADSP_MAX_RETRIES
        /\ 0 \in 0..ADSP_MAX_RETRIES
    BY <1>2, ConnectionFacts, PacketFacts, Constants
  <1>4. o + Len(f) <= x  BY <1>2, SenderFacts
  <1>5. CASE ~valid
    <2>1. PICK b : b = c2  OBVIOUS
    <2>2. b = Acknowledged(c, w, f, o, r)
      <3>1. b = [c EXCEPT !.send_window = w]  BY <1>2, <1>5, <2>1
      <3>. QED  BY <1>2, <3>1 DEF Acknowledged, Connection
    <2>3. /\ b \in Connection /\ b.flight_buffer = f /\ b.oldest_unacked_seq = o /\ b.pending_writes = c.pending_writes
          /\ b.send_seq = c.send_seq /\ b.recv_seq = c.recv_seq
      <3> HIDE DEF c2
      <3>1. /\ c \in Connection /\ w \in 0..RX_WINDOW /\ f \in Seq(Nat) /\ o \in Nat /\ r \in 0..ADSP_MAX_RETRIES
            /\ b = Acknowledged(c, w, f, o, r)
        BY ONLY <1>0, <1>3, <2>2
      <3>. QED  BY ONLY <3>1, ConnectionAcknowledged
    <2>4. Sender(S, b)  BY <1>2, <2>3, SenderSame
    <2>5. b.oldest_unacked_seq \in 0..L
      <3>1. o <= L  BY <1>2 DEF Within
      <3>. QED  BY <1>3, <2>3, <3>1
    <2>6. ApplyAck(Start(c), p) = Pump(Start(b))  BY <1>s, <1>1, <2>1 DEF Start
    <2>. QED  BY <2>3, <2>4, <2>5, <2>6
  <1>6. CASE valid
    <2>1. PICK b : b = c2  OBVIOUS
    <2>2. PICK n : n = Least(a - o, Len(f))  OBVIOUS
    <2>3. PICK F : F = SubSeq(f, n + 1, Len(f))  OBVIOUS
    <2>3a. F = Drained(f, a, o)  BY <2>2, <2>3 DEF Drained
    <2>3b. PICK z : z = 0 /\ z \in 0..ADSP_MAX_RETRIES  BY <1>3
    <2>4. o < a /\ a <= x
      <3> HIDE DEF c2, c1, drain
      <3>1. a - o > 0 /\ a - o <= x - o  BY <1>2, <1>6
      <3>2. a \in Nat /\ o \in Nat /\ x \in Nat  BY <1>3
      <3>. QED  BY ONLY <3>1, <3>2
    <2>5. /\ F \in Seq(Nat) /\ a + Len(F) <= x
          /\ o + Len(f) = x /\ At(S, o, f, FALSE) => a + Len(F) = x /\ At(S, a, F, FALSE)
      <3>1. /\ S \in Seq(Nat) /\ o \in Nat /\ x \in Nat /\ a \in Nat /\ f \in Seq(Nat)
            /\ o + Len(f) <= x /\ o < a /\ a <= x
        BY <1>3, <1>4, <2>4
      <3>2. /\ Drained(f, a, o) \in Seq(Nat) /\ a + Len(Drained(f, a, o)) <= x
            /\ o + Len(f) = x /\ At(S, o, f, FALSE)
                 => a + Len(Drained(f, a, o)) = x /\ At(S, a, Drained(f, a, o), FALSE)
        BY ONLY <3>1, DrainKeeps
      <3>. QED  BY <2>3a, <3>2
    <2>5a. F \in Seq(Nat)  BY <2>5
    <2>5b. z \in 0..ADSP_MAX_RETRIES  BY <2>3b
    <2>6. b = Acknowledged(c, w, F, a, z)
      <3>1. b = [c1 EXCEPT !.flight_buffer = SubSeq(@, n + 1, Len(@)),
                           !.oldest_unacked_seq = a, !.retries = 0]
        BY <1>2, <1>6, <2>1, <2>2
      <3>2. c1 = [c EXCEPT !.send_window = w] /\ c1.flight_buffer = f  BY <1>2 DEF Connection
      <3>. QED  BY <2>3, <2>3b, <3>1, <3>2 DEF Acknowledged, Connection
    <2>7. /\ b \in Connection /\ b.flight_buffer = F /\ b.oldest_unacked_seq = a /\ b.pending_writes = c.pending_writes
          /\ b.send_seq = c.send_seq /\ b.recv_seq = c.recv_seq
      <3>1. /\ c \in Connection /\ w \in 0..RX_WINDOW /\ F \in Seq(Nat) /\ a \in Nat /\ z \in 0..ADSP_MAX_RETRIES
            /\ b = Acknowledged(c, w, F, a, z)
        BY <1>3, <2>5a, <2>5b, <2>6
      <3>. QED  BY ONLY <3>1, ConnectionAcknowledged
    <2>8. Sender(S, b)  BY <1>2, <2>5, <2>7 DEF Sender
    <2>9. b.oldest_unacked_seq \in 0..L
      <3>1. a <= L  BY <1>2 DEF Within
      <3>. QED  BY <1>3, <2>7, <3>1
    <2>10. ApplyAck(Start(c), p) = Pump(Start(b))  BY <1>s, <1>1, <2>1 DEF Start
    <2>. QED  BY <2>7, <2>8, <2>9, <2>10
  <1>. QED  BY <1>5, <1>6

\* handle_data's answer.
NextSeq(c, p) == IF InSequence(c, p) THEN p.seq + TotalLen(p) ELSE c.recv_seq

\* handle_data is such an acknowledgement, and packets sent.
LEMMA HandleDataSteps ==
    ASSUME NEW S \in Seq(Nat), NEW c \in Connection, Sender(S, c), NEW p \in Packet, p.kind # "close",
           NEW L \in Nat, Within(c, p, L)
    PROVE  \E b \in Connection :
               /\ b.oldest_unacked_seq \in 0..L /\ b.send_seq = c.send_seq /\ b.recv_seq = NextSeq(c, p)
               /\ Steps(S, b, HandleData(c, p))
  <1>0. c \in Connection /\ S \in Seq(Nat) /\ L \in Nat /\ p \in Packet /\ p.kind # "close"  OBVIOUS
  <1>1. PICK r : r = NextSeq(c, p)  OBVIOUS
  <1>2. r \in Nat
    <2>1. c.recv_seq \in Nat /\ p.seq + TotalLen(p) \in Nat  BY ConnectionFacts, PacketFacts
    <2>. QED  BY <1>1, <2>1 DEF NextSeq
  <1>3. PICK d : d = Delivered(c, r)  OBVIOUS
  <1>4. /\ d \in Connection /\ d.flight_buffer = c.flight_buffer /\ d.oldest_unacked_seq = c.oldest_unacked_seq
        /\ d.pending_writes = c.pending_writes /\ d.send_seq = c.send_seq /\ d.recv_seq = r
    BY ONLY <1>0, <1>2, <1>3, ConnectionDelivered
  <1>4a. d \in Connection  BY <1>4
  <1>5. Sender(S, d)  BY <1>4, SenderSame
  <1>6. PICK s : s = Start(d)  OBVIOUS
  <1>7. Within(d, p, L)  BY <1>4 DEF Within
  <1>8. PICK b \in Connection : /\ Sender(S, b) /\ b.oldest_unacked_seq \in 0..L
                                /\ b.send_seq = d.send_seq /\ b.recv_seq = d.recv_seq
                                /\ ApplyAck(Start(d), p) = Pump(Start(b))
    BY ONLY <1>0, <1>4a, <1>5, <1>7, AckApplied
  <1>9. Steps(S, b, ApplyAck(s, p))
    <2>1. PICK t : t = Start(b) /\ t = [c |-> b, out |-> <<>>]  BY DEF Start
    <2>2. Steps(S, b, t)  BY <1>8, <2>1, StepsNone
    <2>3. Steps(S, b, Pump(t))  BY <2>2, PumpSteps
    <2>. QED  BY <1>6, <1>8, <2>1, <2>3
  <1>10. Steps(S, b, HandleData(c, p))
    <2>1. [c EXCEPT !.recv_seq = IF InSequence(c, p) THEN p.seq + TotalLen(p) ELSE @] = d
      BY <1>1, <1>3 DEF Delivered, NextSeq
    <2>2. HandleData(c, p) = IF p.kind = "data" THEN SendAck(ApplyAck(s, p)) ELSE ApplyAck(s, p)
      BY <1>6, <2>1 DEF HandleData, Start
    <2>3. Steps(S, b, SendAck(ApplyAck(s, p)))  BY <1>9, SendAckSteps
    <2>. QED  BY <1>9, <2>2, <2>3
  <1>. QED  BY <1>1, <1>4, <1>8, <1>10

\* set_recv_window.
LEMMA SetRecvWindowSteps ==
    ASSUME NEW S \in Seq(Nat), NEW c, NEW s, Steps(S, c, s), NEW w \in 0..RX_WINDOW
    PROVE  Steps(S, c, SetRecvWindow(s, w))
  <1>1. s.c \in Connection /\ s.out \in Seq(Packet) /\ s = [c |-> s.c, out |-> s.out]  BY DEF Steps, Endpoint
  <1>2. PICK d : d = Opened(s.c, w)  OBVIOUS
  <1>3. /\ d \in Connection /\ d.flight_buffer = s.c.flight_buffer /\ d.oldest_unacked_seq = s.c.oldest_unacked_seq
        /\ d.pending_writes = s.c.pending_writes /\ d.send_seq = s.c.send_seq /\ d.recv_seq = s.c.recv_seq
    BY <1>1, <1>2, ConnectionOpened
  <1>4. Sender(S, s.c)  BY DEF Steps
  <1>5. Sender(S, d)  BY <1>3, <1>4, SenderSame
  <1>6. PICK t : t = [c |-> d, out |-> s.out]  OBVIOUS
  <1>7. Steps(S, c, t)  BY <1>3, <1>5, <1>6, StepsQuiet
  <1>8. [s EXCEPT !.c.recv_window = w] = t
    <2>1. PICK o, b : o = s.out /\ b = s.c  OBVIOUS
    <2>2. s = [c |-> b, out |-> o]  BY <1>1, <2>1
    <2>3. PICK u : u = [b EXCEPT !.recv_window = w]  OBVIOUS
    <2>4. [s EXCEPT !.c.recv_window = w] = [c |-> u, out |-> o]
      <3>1. s.c = b  BY <2>2
      <3>2. [s EXCEPT !.c.recv_window = w] = [s EXCEPT !.c = u]  BY <2>3, <3>1
      <3>3. [s EXCEPT !.c = u] = [c |-> u, out |-> o]  BY <2>2
      <3>. QED  BY <3>2, <3>3
    <2>. QED  BY <1>2, <1>6, <2>1, <2>3, <2>4 DEF Opened
  <1>9. SetRecvWindow(s, w) = IF s.c.recv_window = 0 /\ w > 0 THEN SendAck(t) ELSE t  BY <1>8 DEF SetRecvWindow
  <1>10. Steps(S, c, SendAck(t))  BY <1>7, SendAckSteps
  <1>. QED  BY <1>7, <1>9, <1>10

\* resend_unacked's packets start inside the flight buffer.
LEMMA ChunkCount ==
    ASSUME NEW n \in Nat, NEW m \in Nat \ {0}
    PROVE  /\ (n + m - 1) \div m \in Nat
           /\ \A i \in 1..(n + m - 1) \div m : (i - 1) * m \in 0..n
  <1>1. PICK q : q = (n + m - 1) \div m  OBVIOUS
  <1>2. q \in Int  BY <1>1
  <1>3. (n + m - 1) % m \in 0..m - 1 /\ n + m - 1 = m * q + ((n + m - 1) % m)
    <2>1. n + m - 1 \in Int  OBVIOUS
    <2>. QED  BY <1>1, <2>1
  <1>4. PICK w : w = m * q  OBVIOUS
  <1>5. w \in Int /\ w <= n + m - 1 /\ w >= n  BY <1>2, <1>3, <1>4
  <1>6. q \in Nat
    <2>1. SUFFICES ASSUME q < 0 PROVE FALSE  BY <1>2
    <2>2. m * q < 0  BY <1>2, <2>1
    <2>. QED  BY <1>4, <1>5, <2>2
  <1>7. \A i \in 1..q : (i - 1) * m \in 0..n
    <2>1. TAKE i \in 1..q
    <2>2. PICK j, k : j = i - 1 /\ k = q - i  OBVIOUS
    <2>3. j \in Nat /\ k \in Nat /\ q = j + k + 1  BY <1>6, <2>2
    <2>4. m * q = j * m + k * m + m  BY <2>3
    <2>5. j * m \in Nat /\ k * m \in Nat  BY <2>3
    <2>6. PICK a, b : a = j * m /\ b = k * m  OBVIOUS
    <2>7. a \in Nat /\ b \in Nat /\ w = a + b + m  BY <1>4, <2>4, <2>5, <2>6
    <2>8. a \in 0..n  BY <1>5, <2>7
    <2>. QED  BY <2>2, <2>6, <2>8
  <1>. QED  BY <1>1, <1>6, <1>7

\* A packet sent again.
LEMMA ResendPacket ==
    ASSUME NEW S \in Seq(Nat), NEW c \in Connection, Sender(S, c), NEW a \in 0..Len(c.flight_buffer),
           NEW b \in a..Len(c.flight_buffer), NEW p,
           p = DataPacket(c, c.oldest_unacked_seq + a, SubSeq(c.flight_buffer, a + 1, b), FALSE)
    PROVE  /\ p \in Packet /\ p.kind # "close" /\ p.ack = c.recv_seq
           /\ NoMarks(S) => Honest(S, p)
           /\ Link(S, c.send_seq, p, c.send_seq)
  <1>1. PICK x, o, f, part : /\ x = c.send_seq /\ o = c.oldest_unacked_seq /\ f = c.flight_buffer
                             /\ part = SubSeq(c.flight_buffer, a + 1, b)
    OBVIOUS
  <1>2. x \in Nat /\ o \in Nat /\ f \in Seq(Nat) /\ Len(f) \in Nat /\ o + Len(f) <= x
    BY <1>1, ConnectionFacts, SenderFacts
  <1>3. a \in 0..Len(f) /\ b \in a..Len(f) /\ a \in Nat /\ b \in Nat /\ a <= b /\ b <= Len(f) /\ FALSE \in BOOLEAN
    BY <1>1, <1>2
  <1>4. part \in Seq(Nat) /\ Len(part) = b - a
    <2>1. At(f, 0, f, FALSE)
      <3>1. 0 + Len(f) + 0 <= Len(f) /\ \A i \in 1..Len(f) : 0 + i = i  BY <1>2
      <3>. QED  BY <3>1 DEF At, Bit
    <2>2. 0 \in Nat  OBVIOUS
    <2>3. SubSeq(f, a + 1, b) \in Seq(Nat) /\ Len(SubSeq(f, a + 1, b)) = b - a
      BY ONLY <1>2, <1>3, <2>1, <2>2, AtPart
    <2>. QED  BY <1>1, <2>3
  <1>4a. PICK y : y = o + a  OBVIOUS
  <1>5. p = DataPacket(c, y, part, FALSE) /\ y \in Nat  BY <1>1, <1>2, <1>3, <1>4a
  <1>6. /\ p \in Packet /\ p.kind = "data" /\ p.seq = y /\ p.data = part /\ p.eom = FALSE /\ p.ack = c.recv_seq
        /\ TotalLen(p) = Len(part) + Bit(FALSE)
    <2>1. PICK no \in BOOLEAN : no = FALSE  OBVIOUS
    <2>2. c \in Connection /\ part \in Seq(Nat) /\ no \in BOOLEAN /\ y \in Nat /\ p = DataPacket(c, y, part, no)
      BY <1>4, <1>5, <2>1
    <2>3. /\ p \in Packet /\ p.kind = "data" /\ p.seq = y /\ p.data = part /\ p.eom = no /\ p.ack = c.recv_seq
          /\ TotalLen(p) = Len(part) + Bit(no)
      BY ONLY <2>2, DataPacketFacts
    <2>. QED  BY <2>1, <2>3
  <1>7. Bit(FALSE) = 0  BY DEF Bit
  <1>8. p.seq + TotalLen(p) <= x
    <2>1. PICK lf : lf = Len(f)  OBVIOUS
    <2>2. p.seq + TotalLen(p) = o + a + (b - a)
      <3>1. TotalLen(p) = b - a
        <4>1. PICK l : l = Len(part)  OBVIOUS
        <4>2. TotalLen(p) = l + 0 /\ l = b - a  BY <1>4, <1>6, <1>7, <4>1
        <4>3. a \in Nat /\ b \in Nat  BY <1>3
        <4>. QED  BY ONLY <4>2, <4>3
      <3>. QED  BY <1>4a, <1>6, <3>1
    <2>3. lf \in Nat /\ o + lf <= x /\ b <= lf  BY <1>2, <1>3, <2>1
    <2>4. o + a + (b - a) <= x  BY <1>2, <1>3, <2>3
    <2>. QED  BY <2>2, <2>4
  <1>9. Link(S, x, p, x)  BY <1>8, LinkStale
  <1>10. ASSUME NoMarks(S) PROVE Honest(S, p)
    <2>1. At(S, o, f, FALSE)  BY <1>1, <1>10 DEF Sender
    <2>2. At(S, y, part, FALSE)  BY <1>1, <1>2, <1>3, <1>4a, <2>1, AtPart
    <2>. QED  BY <1>6, <2>2 DEF Honest
  <1>. QED  BY <1>1, <1>6, <1>9, <1>10

\* Packets that take nobody further.
LEMMA RunsStay ==
    ASSUME NEW S \in Seq(Nat), NEW x \in 0..Len(S), NEW ps \in Seq(Packet),
           \A k \in 1..Len(ps) : Link(S, x, ps[k], x)
    PROVE  Runs(S, x, ps, x)
  <1> DEFINE at == [k \in 0..Len(ps) |-> x]
  <1>1. Len(ps) \in Nat  OBVIOUS
  <1>2. at \in [0..Len(ps) -> 0..Len(S)] /\ \A k \in 0..Len(ps) : at[k] = x  OBVIOUS
  <1> HIDE DEF at
  <1>3. at[0] = x /\ at[Len(ps)] = x  BY <1>1, <1>2
  <1>4. \A k \in 1..Len(ps) : Link(S, at[k - 1], ps[k], at[k])
    <2>1. TAKE k \in 1..Len(ps)
    <2>2. k \in 0..Len(ps) /\ k - 1 \in 0..Len(ps)  BY <1>1
    <2>3. at[k] = x /\ at[k - 1] = x  BY <1>2, <2>2
    <2>. QED  BY <2>3
  <1>. QED  BY <1>2, <1>3, <1>4 DEF Runs

\* poll's resend.
LEMMA ResendSteps ==
    ASSUME NEW S \in Seq(Nat), NEW c \in Connection, Sender(S, c), NEW s, s = [c |-> c, out |-> ResendUnacked(c)]
    PROVE  Steps(S, c, s)
  <1> DEFINE n == Len(c.flight_buffer)
             m == ADSP_MAX_DATA
             count == (n + m - 1) \div m
             from(i) == (i - 1) * m
             P(i) == DataPacket(c, c.oldest_unacked_seq + from(i),
                                SubSeq(c.flight_buffer, from(i) + 1, Least(n, from(i) + m)), FALSE)
  <1>1. n \in Nat /\ m \in Nat \ {0}  BY ConnectionFacts, Constants
  <1>2. count \in Nat /\ \A i \in 1..count : from(i) \in 0..n  BY <1>1, ChunkCount
  <1>3. PICK out : out = ResendUnacked(c)  OBVIOUS
  <1>4. out = [i \in 1..count |-> P(i)]  BY <1>3 DEF ResendUnacked
  <1>5. \A i \in 1..count : /\ P(i) \in Packet /\ P(i).kind # "close" /\ P(i).ack = c.recv_seq
                            /\ NoMarks(S) => Honest(S, P(i))
                            /\ Link(S, c.send_seq, P(i), c.send_seq)
    <2>1. TAKE i \in 1..count
    <2>2. PICK a, b : a = from(i) /\ b = Least(n, from(i) + m)  OBVIOUS
    <2>3. a \in 0..n  BY <1>2, <2>2
    <2>4. b \in a..n  BY <1>1, <2>2, <2>3 DEF Least
    <2>5. PICK p : p = P(i)  OBVIOUS
    <2>6. p = DataPacket(c, c.oldest_unacked_seq + a, SubSeq(c.flight_buffer, a + 1, b), FALSE)  BY <2>2, <2>5
    <2>7. a \in 0..Len(c.flight_buffer) /\ b \in a..Len(c.flight_buffer)  BY <2>3, <2>4
    <2>8. /\ p \in Packet /\ p.kind # "close" /\ p.ack = c.recv_seq
          /\ NoMarks(S) => Honest(S, p)
          /\ Link(S, c.send_seq, p, c.send_seq)
      BY <2>6, <2>7, ResendPacket
    <2>. QED  BY <2>5, <2>8
  <1> HIDE DEF count, P
  <1>6. out \in Seq(Packet) /\ Len(out) = count /\ \A i \in 1..count : out[i] = P(i)
    <2>1. \A i \in 1..count : P(i) \in Packet  BY <1>5
    <2>. QED  BY <1>2, <1>4, <2>1
  <1>7. \A k \in 1..Len(out) : /\ out[k].kind # "close" /\ out[k].ack = c.recv_seq
                               /\ NoMarks(S) => Honest(S, out[k])
                               /\ Link(S, c.send_seq, out[k], c.send_seq)
    BY <1>5, <1>6
  <1>8. c.send_seq \in 0..Len(S)  BY SenderFacts
  <1>9. Runs(S, c.send_seq, out, c.send_seq)  BY <1>6, <1>7, <1>8, RunsStay
  <1>10. s.c = c /\ s.out = out /\ s \in Endpoint  BY <1>3, <1>6, EndpointFacts
  <1>. QED  BY <1>7, <1>9, <1>10 DEF Steps

-----------------------------------------------------------------------------
(* One direction of the stream *)

\* A prefix, element by element.
LEMMA PrefixIs ==
    ASSUME NEW A \in Seq(Nat), NEW S \in Seq(Nat)
    PROVE  IsPrefix(A, S) <=> Len(A) <= Len(S) /\ \A i \in 1..Len(A) : A[i] = S[i]
  <1>1. Len(A) \in Nat /\ Len(S) \in Nat  OBVIOUS
  <1>2. (\A i \in 1..Len(A) : A[i] \in Nat) /\ (\A i \in 1..Len(S) : S[i] \in Nat)  BY ElementOfSeq
  <1> DEFINE B == SubSeq(A, 1, Len(A))
             T == SubSeq(S, 1, Len(A))
  <1>3. B \in Seq(Nat) /\ Len(B) = Len(A) /\ \A i \in 1..Len(A) : B[i] = A[i]
    BY <1>1, <1>2, SubSeqProperties
  <1>4. Len(A) <= Len(S) => T \in Seq(Nat) /\ Len(T) = Len(A) /\ \A i \in 1..Len(A) : T[i] = S[i]
    <2>1. SUFFICES ASSUME Len(A) <= Len(S) PROVE T \in Seq(Nat) /\ Len(T) = Len(A) /\ \A i \in 1..Len(A) : T[i] = S[i]
      OBVIOUS
    <2>2. \A i \in 1..Len(A) : S[i] \in Nat  BY <1>1, <1>2, <2>1
    <2>. QED  BY <1>1, <2>1, <2>2, SubSeqProperties
  <1>5. IsPrefix(A, S) <=> Len(A) <= Len(S) /\ B = T  BY DEF IsPrefix
  <1> HIDE DEF B, T
  <1>6. ASSUME Len(A) <= Len(S), B = T PROVE \A i \in 1..Len(A) : A[i] = S[i]
    BY <1>3, <1>4, <1>6
  <1>7. ASSUME Len(A) <= Len(S), \A i \in 1..Len(A) : A[i] = S[i] PROVE B = T
    <2>1. Len(B) = Len(T) /\ \A i \in 1..Len(B) : B[i] = T[i]  BY <1>3, <1>4, <1>7
    <2>2. T \in Seq(Nat)  BY <1>4, <1>7
    <2>. QED  BY <1>3, <2>1, <2>2, SeqEqual
  <1>. QED  BY <1>5, <1>6, <1>7

\* A stream that goes on still has what it had.
LEMMA PrefixMore ==
    ASSUME NEW A \in Seq(Nat), NEW S \in Seq(Nat), NEW T \in Seq(Nat), IsPrefix(A, S)
    PROVE  IsPrefix(A, S \o T)
  <1>1. Len(A) \in Nat /\ Len(S) \in Nat /\ Len(T) \in Nat  OBVIOUS
  <1>2. Len(A) <= Len(S) /\ \A i \in 1..Len(A) : A[i] = S[i]  BY PrefixIs
  <1>3. PICK U \in Seq(Nat) : U = S \o T /\ Len(U) = Len(S) + Len(T)  BY ConcatProperties
  <1>4. \A i \in 1..Len(S) : U[i] = S[i]
    <2>1. TAKE i \in 1..Len(S)
    <2>2. i \in 1..Len(S) + Len(T) /\ i <= Len(S)  BY <1>1
    <2>. QED  BY <1>3, <2>2, ConcatProperties
  <1>5. Len(A) <= Len(U)  BY <1>1, <1>2, <1>3
  <1>6. \A i \in 1..Len(A) : A[i] = U[i]  BY <1>1, <1>2, <1>4
  <1>. QED  BY <1>3, <1>5, <1>6, PrefixIs

\* What comes next is taken.
LEMMA PrefixNext ==
    ASSUME NEW A \in Seq(Nat), NEW S \in Seq(Nat), NEW data \in Seq(Nat), NEW eom \in BOOLEAN,
           IsPrefix(A, S), At(S, Len(A), data, eom)
    PROVE  IsPrefix(A \o Marked(data, eom), S)
  <1>1. Len(A) \in Nat /\ Len(S) \in Nat /\ Len(data) \in Nat  OBVIOUS
  <1>2. PICK B : B = A \o Marked(data, eom)  OBVIOUS
  <1>3. PICK n : n = Len(A) + Len(data) + Bit(eom)  OBVIOUS
  <1>4. B \in Seq(Nat) /\ Len(B) = n /\ At(B, Len(A), data, eom)  BY <1>2, <1>3, AtEnd
  <1>5. Len(A) <= Len(S) /\ \A i \in 1..Len(A) : A[i] = S[i]  BY PrefixIs
  <1>6. Bit(eom) \in {0, 1} /\ (eom <=> Bit(eom) = 1)  BY DEF Bit
  <1>7. n <= Len(S)  BY <1>3 DEF At
  <1>8. \A i \in 1..Len(A) : B[i] = A[i]
    <2>1. PICK M \in Seq(Nat) : M = Marked(data, eom)
      <3>1. MARK \in Nat  BY DEF MARK
      <3>2. <<MARK>> \in Seq(Nat) /\ <<>> \in Seq(Nat)  BY <3>1
      <3>3. Marked(data, eom) \in Seq(Nat)  BY <3>2, ConcatProperties DEF Marked
      <3>. QED  BY <3>3
    <2>2. TAKE i \in 1..Len(A)
    <2>3. i \in 1..Len(A) + Len(M) /\ i <= Len(A)
      <3>1. Len(M) \in Nat  BY <2>1
      <3>. QED  BY <1>1, <3>1
    <2>. QED  BY <1>2, <2>1, <2>3, ConcatProperties
  <1>9. \A i \in 1..n : B[i] = S[i]
    <2>1. TAKE i \in 1..n
    <2>2. CASE i <= Len(A)
      <3>1. i \in 1..Len(A)  BY <1>1, <2>2
      <3>. QED  BY <1>5, <1>8, <3>1
    <2>3. CASE Len(A) < i /\ i <= Len(A) + Len(data)
      <3>1. PICK j : j = i - Len(A)  OBVIOUS
      <3>2. j \in 1..Len(data) /\ i = Len(A) + j  BY <1>1, <2>3, <3>1
      <3>3. B[Len(A) + j] = data[j] /\ S[Len(A) + j] = data[j]  BY <1>4, <3>2 DEF At
      <3>. QED  BY <3>2, <3>3
    <2>4. CASE i > Len(A) + Len(data)
      <3>1. eom /\ i = Len(A) + Len(data) + 1  BY <1>1, <1>3, <1>6, <2>4
      <3>2. B[Len(A) + Len(data) + 1] = MARK /\ S[Len(A) + Len(data) + 1] = MARK  BY <1>4, <3>1 DEF At
      <3>. QED  BY <3>1, <3>2
    <2>5. i \in Nat  BY <1>1, <1>3, <1>6
    <2>. QED  BY <1>1, <2>2, <2>3, <2>4, <2>5
  <1>. QED  BY <1>2, <1>4, <1>7, <1>9, PrefixIs

\* What an end takes of a packet.
Taken(d, p) == Marked(NewBytes(d, p), p.eom /\ InSequence(d, p))

\* A packet behind, or with nothing in it, brings nothing.
LEMMA TakenNone ==
    ASSUME NEW A \in Seq(Nat), NEW d, NEW p, ~InSequence(d, p)
    PROVE  Taken(d, p) = <<>> /\ A \o Taken(d, p) = A /\ NextSeq(d, p) = d.recv_seq
  <1>1. Taken(d, p) = <<>> \o <<>>  BY DEF Taken, Marked, NewBytes
  <1>2. Taken(d, p) = <<>>  BY <1>1
  <1>. QED  BY <1>2 DEF NextSeq

\* One in sequence brings what follows.
LEMMA TakenSome ==
    ASSUME NEW A \in Seq(Nat), NEW d, d.recv_seq = Len(A), NEW p \in Packet, p.kind # "close", InSequence(d, p)
    PROVE  \E n \in 0..Len(p.data), rest \in Seq(Nat) :
               /\ n = Len(A) - p.seq /\ rest = SubSeq(p.data, n + 1, Len(p.data))
               /\ Len(rest) = Len(p.data) - n
               /\ Taken(d, p) = Marked(rest, p.eom)
               /\ NextSeq(d, p) = Len(A) + Len(rest) + Bit(p.eom)
               /\ n < Len(p.data) + Bit(p.eom)
  <1>1. PICK data, eom, seq, len : data = p.data /\ eom = p.eom /\ seq = p.seq /\ len = Len(A)  OBVIOUS
  <1>2. data \in Seq(Nat) /\ eom \in BOOLEAN /\ seq \in Nat /\ Len(data) \in Nat /\ len \in Nat
        /\ TotalLen(p) = Len(data) + Bit(eom)
    BY <1>1, PacketFacts
  <1>3. Bit(eom) \in {0, 1}  BY DEF Bit
  <1>4. PICK n : n = len - seq  OBVIOUS
  <1>5. Behind(d, p) = n  BY <1>1, <1>4 DEF Behind
  <1>6. n \in Int /\ n >= 0 /\ n < Len(data) + Bit(eom)
    <2>1. n \in Int  BY <1>2, <1>4
    <2>. QED  BY <1>2, <1>5, <2>1 DEF InSequence
  <1>7. n \in 0..Len(data) /\ Least(n, Len(data)) = n  BY <1>2, <1>3, <1>6 DEF Least
  <1>8. PICK rest : rest = SubSeq(data, n + 1, Len(data))  OBVIOUS
  <1>9. rest \in Seq(Nat) /\ Len(rest) = Len(data) - n
    <2>1. PICK z : z = 0  OBVIOUS
    <2>2. z \in Nat /\ FALSE \in BOOLEAN  BY <2>1
    <2>3. At(data, z, data, FALSE)
      <3>1. 0 + Len(data) + 0 <= Len(data) /\ \A i \in 1..Len(data) : 0 + i = i  BY <1>2
      <3>. QED  BY <2>1, <3>1 DEF At, Bit
    <2>4. SubSeq(data, n + 1, Len(data)) \in Seq(Nat) /\ Len(SubSeq(data, n + 1, Len(data))) = Len(data) - n
      BY ONLY <1>2, <1>7, <2>2, <2>3, AtSplit
    <2>. QED  BY <1>8, <2>4
  <1>10. NewBytes(d, p) = rest  BY <1>1, <1>5, <1>7, <1>8 DEF NewBytes
  <1>11. Taken(d, p) = Marked(rest, p.eom)  BY <1>10 DEF Taken, Marked
  <1>12. NextSeq(d, p) = len + Len(rest) + Bit(eom)
    <2>1. NextSeq(d, p) = seq + TotalLen(p)  BY <1>1 DEF NextSeq
    <2>2. PICK a, b, r : a = Len(data) /\ b = Bit(eom) /\ r = Len(rest)  OBVIOUS
    <2>3. NextSeq(d, p) = seq + (a + b) /\ r = a - n /\ a \in Nat /\ b \in Nat /\ seq \in Nat /\ len \in Nat /\ n = len - seq
      BY <1>2, <1>3, <1>4, <1>9, <2>1, <2>2
    <2>4. seq + (a + b) = len + r + b  BY ONLY <2>3
    <2>. QED  BY <2>2, <2>3, <2>4
  <1>. QED  BY <1>1, <1>4, <1>6, <1>7, <1>8, <1>9, <1>11, <1>12

\* An end delivers just as much as it advances.
LEMMA TakenCounted ==
    ASSUME NEW A \in Seq(Nat), NEW d, d.recv_seq = Len(A), NEW p \in Packet, p.kind # "close"
    PROVE  A \o Taken(d, p) \in Seq(Nat) /\ Len(A \o Taken(d, p)) = NextSeq(d, p) /\ Len(A) <= NextSeq(d, p)
  <1>1. Len(A) \in Nat  OBVIOUS
  <1>2. CASE ~InSequence(d, p)
    <2>1. A \o Taken(d, p) = A /\ NextSeq(d, p) = d.recv_seq  BY <1>2, TakenNone
    <2>. QED  BY <1>1, <2>1
  <1>3. CASE InSequence(d, p)
    <2>1. PICK n \in 0..Len(p.data), rest \in Seq(Nat) :
               /\ Taken(d, p) = Marked(rest, p.eom)
               /\ NextSeq(d, p) = Len(A) + Len(rest) + Bit(p.eom)
      BY <1>3, TakenSome
    <2>2. PICK eom \in BOOLEAN : eom = p.eom  BY PacketFacts
    <2>3. /\ A \o Marked(rest, eom) \in Seq(Nat)
          /\ Len(A \o Marked(rest, eom)) = Len(A) + Len(rest) + Bit(eom)
      BY AtEnd
    <2>4. Len(rest) \in Nat /\ Bit(eom) \in Nat  BY DEF Bit
    <2>5. Len(A) <= Len(A) + Len(rest) + Bit(eom)  BY <1>1, <2>4
    <2>. QED  BY <2>1, <2>2, <2>3, <2>5
  <1>. QED  BY <1>2, <1>3

\* What comes next in line keeps it in line.
LEMMA TakenInLine ==
    ASSUME NEW A \in Seq(Nat), NEW S \in Seq(Nat), NEW d, d.recv_seq = Len(A), NEW p \in Packet, p.kind # "close",
           NEW y, Link(S, Len(A), p, y), IsPrefix(A, S)
    PROVE  y = NextSeq(d, p) /\ IsPrefix(A \o Taken(d, p), S)
  <1>1. PICK data, eom, seq, len : data = p.data /\ eom = p.eom /\ seq = p.seq /\ len = Len(A)  OBVIOUS
  <1>2. data \in Seq(Nat) /\ eom \in BOOLEAN /\ seq \in Nat /\ Len(data) \in Nat /\ len \in Nat
        /\ TotalLen(p) \in Nat /\ TotalLen(p) = Len(data) + Bit(eom)
    BY <1>1, PacketFacts
  <1>3. Behind(d, p) = len - seq  BY <1>1 DEF Behind
  <1>4. CASE ~InSequence(d, p)
    <2>1. A \o Taken(d, p) = A /\ NextSeq(d, p) = len  BY <1>1, <1>4, TakenNone
    <2>2. y = len
      <3>1. CASE y = Len(A)  BY <1>1, <3>1
      <3>2. CASE y # Len(A)
        <4>1. seq = len /\ y = len + TotalLen(p)  BY <1>1, <3>2 DEF Link
        <4>2. Behind(d, p) = 0  BY <1>2, <1>3, <4>1
        <4>3. TotalLen(p) = 0  BY <1>2, <1>4, <4>2 DEF InSequence
        <4>. QED  BY <1>2, <4>1, <4>3
      <3>. QED  BY <3>1, <3>2
    <2>. QED  BY <2>1, <2>2
  <1>5. CASE InSequence(d, p)
    <2>1. PICK n \in 0..Len(p.data), rest \in Seq(Nat) :
               /\ n = Len(A) - p.seq /\ rest = SubSeq(p.data, n + 1, Len(p.data))
               /\ Taken(d, p) = Marked(rest, p.eom)
               /\ NextSeq(d, p) = Len(A) + Len(rest) + Bit(p.eom)
      <3>1. d.recv_seq = Len(A) /\ p \in Packet /\ p.kind # "close" /\ A \in Seq(Nat)  OBVIOUS
      <3>. QED  BY ONLY <1>5, <3>1, TakenSome
    <2>2. n >= 0 /\ n < TotalLen(p) /\ n = len - seq
      <3>1. n = len - seq  BY <1>1, <2>1
      <3>. QED  BY <1>2, <1>3, <1>5, <3>1 DEF InSequence
    <2>3. ~(seq + TotalLen(p) <= len)  BY <1>2, <2>2
    <2>4. seq = len /\ At(S, len, data, eom) /\ y = len + TotalLen(p)  BY <1>1, <2>3 DEF Link
    <2>5. n = 0  BY <1>2, <2>2, <2>4
    <2>6. rest = data
      <3>1. n + 1 = 1 /\ rest = SubSeq(data, n + 1, Len(data))  BY <1>1, <2>1, <2>5
      <3>. QED  BY <1>2, <3>1
    <2>7. At(S, Len(A), rest, eom)  BY <1>1, <2>4, <2>6
    <2>8. IsPrefix(A \o Marked(rest, eom), S)  BY <1>2, <2>7, PrefixNext
    <2>9. NextSeq(d, p) = len + Len(data) + Bit(eom)  BY <1>1, <2>1, <2>6
    <2>10. len + Len(data) + Bit(eom) = len + TotalLen(p)
      <3>1. Bit(eom) \in Nat  BY DEF Bit
      <3>. QED  BY <1>2, <3>1
    <2>. QED  BY <1>1, <2>1, <2>4, <2>8, <2>9, <2>10
  <1>. QED  BY <1>4, <1>5

\* What is true about the stream keeps it, wherever it comes.
LEMMA TakenTrue ==
    ASSUME NEW A \in Seq(Nat), NEW S \in Seq(Nat), NEW d, d.recv_seq = Len(A), NEW p \in Packet, p.kind # "close",
           Honest(S, p), IsPrefix(A, S)
    PROVE  IsPrefix(A \o Taken(d, p), S)
  <1>1. PICK data, seq, len : data = p.data /\ seq = p.seq /\ len = Len(A)  OBVIOUS
  <1>2. data \in Seq(Nat) /\ seq \in Nat /\ Len(data) \in Nat /\ len \in Nat  BY <1>1, PacketFacts
  <1>3. CASE ~InSequence(d, p)
    <2>1. A \o Taken(d, p) = A  BY <1>3, TakenNone
    <2>. QED  BY <2>1
  <1>4. CASE InSequence(d, p)
    <2>1. PICK n \in 0..Len(p.data), rest \in Seq(Nat) :
               /\ n = Len(A) - p.seq /\ rest = SubSeq(p.data, n + 1, Len(p.data))
               /\ Taken(d, p) = Marked(rest, p.eom)
      BY <1>4, TakenSome
    <2>2. PICK no \in BOOLEAN : no = FALSE /\ p.eom = no
      <3>1. p.eom = FALSE  BY PacketFacts DEF Honest
      <3>. QED  BY <3>1
    <2>3. At(S, seq, data, no)  BY <1>1, <2>2 DEF Honest
    <2>4. n \in 0..Len(data)  BY <1>1, <2>1
    <2>5. At(S, seq + n, SubSeq(data, n + 1, Len(data)), no)  BY <1>2, <2>3, <2>4, AtSplit
    <2>6. seq + n = len  BY <1>1, <1>2, <2>1
    <2>7. At(S, Len(A), rest, no)  BY <1>1, <2>1, <2>5, <2>6
    <2>8. IsPrefix(A \o Marked(rest, no), S)  BY <2>7, PrefixNext
    <2>. QED  BY <2>1, <2>2, <2>8
  <1>. QED  BY <1>3, <1>4

\* A packet is taken from the cable: the acknowledgements behind it stay within what was delivered,
LEMMA AckedTail ==
    ASSUME NEW A, NEW ps \in Seq(Packet), ps # <<>>, Acked(A, ps)
    PROVE  Acked(A, Tail(ps))
  <1>1. Len(ps) \in Nat /\ Len(ps) # 0  OBVIOUS
  <1>2. Len(Tail(ps)) = Len(ps) - 1 /\ \A k \in 1..Len(ps) - 1 : Tail(ps)[k] = ps[k + 1]  BY HeadTailProperties
  <1>3. \A k \in 1..Len(Tail(ps)) : k + 1 \in 1..Len(ps) /\ Tail(ps)[k] = ps[k + 1]  BY <1>1, <1>2
  <1>. QED  BY <1>3 DEF Acked

\* and the data behind it stays true.
LEMMA TruthfulTail ==
    ASSUME NEW S, NEW ps \in Seq(Packet), ps # <<>>, Truthful(S, ps)
    PROVE  Truthful(S, Tail(ps))
  <1>1. Len(ps) \in Nat /\ Len(ps) # 0  OBVIOUS
  <1>2. Len(Tail(ps)) = Len(ps) - 1 /\ \A k \in 1..Len(ps) - 1 : Tail(ps)[k] = ps[k + 1]  BY HeadTailProperties
  <1>3. \A k \in 1..Len(Tail(ps)) : k + 1 \in 1..Len(ps) /\ Tail(ps)[k] = ps[k + 1]  BY <1>1, <1>2
  <1>. QED  BY <1>3 DEF Truthful

\* Acknowledgements put after others.
LEMMA AckedConcat ==
    ASSUME NEW A \in Seq(Nat), NEW B \in Seq(Nat), Len(A) <= Len(B), NEW ps \in Seq(Packet), Acked(A, ps),
           NEW out \in Seq(Packet), Acked(B, out)
    PROVE  Acked(B, ps \o out)
  <1>1. Len(ps) \in Nat /\ Len(out) \in Nat /\ Len(A) \in Nat /\ Len(B) \in Nat  OBVIOUS
  <1>2. PICK q : q = ps \o out  OBVIOUS
  <1>3. Len(q) = Len(ps) + Len(out) /\ \A i \in 1..Len(ps) + Len(out) :
            q[i] = IF i <= Len(ps) THEN ps[i] ELSE out[i - Len(ps)]
    BY <1>2, ConcatProperties
  <1>4. ASSUME NEW k \in 1..Len(q), q[k].kind # "close" PROVE q[k].ack <= Len(B)
    <2>1. CASE k <= Len(ps)
      <3>1. k \in 1..Len(ps) /\ q[k] = ps[k]  BY <1>1, <1>3, <2>1
      <3>2. PICK p \in Packet : p = ps[k]  BY <3>1, ElementOfSeq
      <3>3. p.ack \in Nat /\ p.ack <= Len(A)  BY <1>4, <3>1, <3>2, PacketFacts DEF Acked
      <3>. QED  BY <1>1, <3>1, <3>2, <3>3
    <2>2. CASE k > Len(ps)
      <3>1. k - Len(ps) \in 1..Len(out) /\ q[k] = out[k - Len(ps)]  BY <1>1, <1>3, <2>2
      <3>. QED  BY <1>4, <3>1 DEF Acked
    <2>. QED  BY <1>1, <2>1, <2>2
  <1>. QED  BY <1>2, <1>4 DEF Acked

\* The end that wrote S sends: something more may be written.
LEMMA WaySends ==
    ASSUME NEW S \in Seq(Nat), NEW T \in Seq(Nat), NEW A \in Seq(Nat), NEW c \in Connection, NEW se, se = "open",
           NEW d, NEW sd, NEW ahead \in Seq(Packet), NEW back, NEW los, Way(S, A, c, se, d, sd, ahead, back, los),
           NEW b, NEW s, Steps(S \o T, b, s), b.send_seq = c.send_seq, b.oldest_unacked_seq \in 0..Len(A),
           NEW back2, Acked(A, back2)
    PROVE  Way(S \o T, A, s.c, se, d, sd, ahead \o s.out, back2, los)
  <1>1. PICK R, out, x : R = S \o T /\ out = s.out /\ x = s.c.send_seq  OBVIOUS
  <1>2. R \in Seq(Nat) /\ out \in Seq(Packet) /\ s.c \in Connection  BY <1>1, ConcatProperties DEF Steps, Endpoint
  <1>3. Sending(R, A, s.c, se)
    <2>1. Sender(R, s.c) /\ s.c.oldest_unacked_seq = b.oldest_unacked_seq  BY <1>1 DEF Steps
    <2>. QED  BY <2>1 DEF Sending
  <1>4. NoMarks(R) => NoMarks(S)  BY <1>1, NoMarksLess
  <1>5. Truthful(R, ahead \o out)
    <2>1. SUFFICES ASSUME NoMarks(R), NEW k \in 1..Len(ahead \o out) PROVE Honest(R, (ahead \o out)[k])
      BY DEF Truthful
    <2>2. PICK q : q = ahead \o out  OBVIOUS
    <2>3. Len(ahead) \in Nat /\ Len(out) \in Nat  BY <1>2
    <2>4. Len(q) = Len(ahead) + Len(out) /\ \A i \in 1..Len(ahead) + Len(out) :
              q[i] = IF i <= Len(ahead) THEN ahead[i] ELSE out[i - Len(ahead)]
      BY <1>2, <2>2, ConcatProperties
    <2>5. k \in 1..Len(ahead) + Len(out)  BY <2>2, <2>4
    <2>6. CASE k <= Len(ahead)
      <3>1. k \in 1..Len(ahead) /\ q[k] = ahead[k]  BY <2>3, <2>4, <2>5, <2>6
      <3>2. PICK p \in Packet : p = ahead[k]  BY <3>1, ElementOfSeq
      <3>3. Honest(S, p)  BY <1>4, <2>1, <3>1, <3>2 DEF Way, Truthful
      <3>4. CASE p.kind = "close"  BY <2>2, <3>1, <3>2, <3>4 DEF Honest
      <3>5. CASE p.kind # "close"
        <4>1. p.seq \in Nat /\ p.data \in Seq(Nat)  BY <3>5, PacketFacts
        <4>2. PICK no \in BOOLEAN : no = FALSE  OBVIOUS
        <4>3. ~p.eom /\ At(S, p.seq, p.data, no)  BY <3>3, <3>5, <4>2 DEF Honest
        <4>4. At(S \o T, p.seq, p.data, no)  BY <4>1, <4>3, AtMore
        <4>5. Honest(R, p)  BY <1>1, <4>2, <4>3, <4>4 DEF Honest
        <4>. QED  BY <2>2, <3>1, <3>2, <4>5
      <3>. QED  BY <3>4, <3>5
    <2>7. CASE k > Len(ahead)
      <3>1. k - Len(ahead) \in 1..Len(out) /\ q[k] = out[k - Len(ahead)]  BY <2>3, <2>4, <2>5, <2>7
      <3>2. Honest(R, out[k - Len(ahead)])  BY <1>1, <2>1, <3>1 DEF Steps
      <3>. QED  BY <2>2, <3>1, <3>2
    <2>8. k \in Nat  BY <2>3, <2>5
    <2>. QED  BY <2>3, <2>6, <2>7, <2>8
  <1>6. InLine(R, A, s.c, se, sd, ahead \o out, los)
    <2>1. SUFFICES ASSUME los = <<>>, sd = "open"
                   PROVE  \E y \in 0..Len(R) : Runs(R, Len(A), ahead \o out, y) /\ (se = "open" => y = s.c.send_seq)
      BY DEF InLine
    <2>2. PICK y \in 0..Len(S) : Runs(S, Len(A), ahead, y) /\ y = c.send_seq  BY <2>1 DEF Way, InLine
    <2>3. PICK l : l = Len(A)  OBVIOUS
    <2>4. Runs(S, l, ahead, y)  BY <2>2, <2>3
    <2>5. Runs(S \o T, l, ahead, y)  BY <2>4, RunsMore
    <2>6. Runs(R, y, out, x)  BY <1>1, <2>2 DEF Steps
    <2>7. Runs(R, l, ahead \o out, x)  BY <1>1, <1>2, <2>5, <2>6, RunsConcat
    <2>8. x \in 0..Len(R)
      <3>1. Sender(R, s.c)  BY <1>1 DEF Steps
      <3>. QED  BY <1>1, <1>2, <3>1, SenderFacts
    <2>. QED  BY <1>1, <2>3, <2>7, <2>8
  <1>7. Intact(R, A, los)
    <2>1. SUFFICES ASSUME NoMarks(R) \/ los = <<>> PROVE IsPrefix(A, R)  BY DEF Intact
    <2>2. IsPrefix(A, S)  BY <1>4, <2>1 DEF Way, Intact
    <2>. QED  BY <1>1, <2>2, PrefixMore
  <1>8. Counted(A, d, sd)  BY DEF Way
  <1>. QED  BY <1>1, <1>3, <1>5, <1>6, <1>7, <1>8 DEF Way

\* The end it is for takes a packet, and sends.
LEMMA WayTakes ==
    ASSUME NEW S \in Seq(Nat), NEW A \in Seq(Nat), NEW c \in Connection, NEW se, NEW d, NEW sd, sd = "open",
           NEW ahead \in Seq(Packet), ahead # <<>>, NEW p \in Packet, p = Head(ahead), p.kind # "close",
           NEW back \in Seq(Packet), NEW los, Way(S, A, c, se, d, sd, ahead, back, los),
           NEW d2, d2.recv_seq = NextSeq(d, p), NEW out \in Seq(Packet),
           \A k \in 1..Len(out) : out[k].ack = NextSeq(d, p)
    PROVE  Way(S, A \o Taken(d, p), c, se, d2, sd, Tail(ahead), back \o out, los)
  <1>1. PICK B, l : B = A \o Taken(d, p) /\ l = Len(A)  OBVIOUS
  <1>2. d.recv_seq = Len(A)  BY DEF Way, Counted
  <1>3. B \in Seq(Nat) /\ Len(B) = NextSeq(d, p) /\ Len(A) <= Len(B)  BY <1>1, <1>2, TakenCounted
  <1>4. Len(A) \in Nat /\ Len(B) \in Nat  BY <1>3
  <1>5. Sending(S, B, c, se)
    <2>1. SUFFICES ASSUME se = "open" PROVE Sender(S, c) /\ c.oldest_unacked_seq <= Len(B)  BY DEF Sending
    <2>2. Sender(S, c) /\ c.oldest_unacked_seq <= Len(A)  BY <2>1 DEF Way, Sending
    <2>3. c.oldest_unacked_seq \in Nat  BY ConnectionFacts
    <2>. QED  BY <1>3, <1>4, <2>2, <2>3
  <1>6. Counted(B, d2, sd)  BY <1>3 DEF Counted
  <1>7. Acked(B, back \o out)
    <2>1. Acked(A, back)  BY DEF Way
    <2>2. Acked(B, out)  BY <1>3, <1>4 DEF Acked
    <2>. QED  BY <1>3, <2>1, <2>2, AckedConcat
  <1>8. Truthful(S, ahead)  BY DEF Way
  <1>9. Truthful(S, Tail(ahead))  BY <1>8, TruthfulTail
  <1>10. ASSUME los = <<>>
         PROVE  IsPrefix(B, S) /\ InLine(S, B, c, se, sd, Tail(ahead), los)
    <2>1. PICK z \in 0..Len(S) : Runs(S, l, ahead, z) /\ (se = "open" => z = c.send_seq)
      BY <1>1, <1>10 DEF Way, InLine
    <2>2. PICK y \in 0..Len(S) : Link(S, l, p, y) /\ Runs(S, y, Tail(ahead), z)  BY <2>1, RunsTail
    <2>3. IsPrefix(A, S)  BY <1>10 DEF Way, Intact
    <2>4. y = NextSeq(d, p) /\ IsPrefix(B, S)  BY <1>1, <1>2, <2>2, <2>3, TakenInLine
    <2>5. Runs(S, Len(B), Tail(ahead), z)  BY <1>3, <2>2, <2>4
    <2>6. InLine(S, B, c, se, sd, Tail(ahead), los)  BY <2>1, <2>5 DEF InLine
    <2>. QED  BY <2>4, <2>6
  <1>11. ASSUME los # <<>> PROVE InLine(S, B, c, se, sd, Tail(ahead), los)  BY <1>11 DEF InLine
  <1>12. ASSUME NoMarks(S) PROVE IsPrefix(B, S)
    <2>1. IsPrefix(A, S)  BY <1>12 DEF Way, Intact
    <2>2. Honest(S, p)
      <3>1. Len(ahead) \in Nat /\ Len(ahead) # 0 /\ p = ahead[1]  BY HeadTailProperties
      <3>2. 1 \in 1..Len(ahead)  BY <3>1
      <3>. QED  BY <1>8, <1>12, <3>1, <3>2 DEF Truthful
    <2>. QED  BY <1>1, <1>2, <2>1, <2>2, TakenTrue
  <1>13. Intact(S, B, los)  BY <1>10, <1>12 DEF Intact
  <1>14. InLine(S, B, c, se, sd, Tail(ahead), los)  BY <1>10, <1>11
  <1>. QED  BY <1>1, <1>5, <1>6, <1>7, <1>9, <1>13, <1>14 DEF Way

\* It only sends.
LEMMA WayAnswers ==
    ASSUME NEW S \in Seq(Nat), NEW A \in Seq(Nat), NEW c, NEW se, NEW d, NEW sd, sd = "open",
           NEW ahead, NEW back \in Seq(Packet), NEW los, Way(S, A, c, se, d, sd, ahead, back, los),
           NEW d2, d2.recv_seq = d.recv_seq, NEW out \in Seq(Packet),
           \A k \in 1..Len(out) : out[k].ack = d.recv_seq
    PROVE  Way(S, A, c, se, d2, sd, ahead, back \o out, los)
  <1>1. d.recv_seq = Len(A)  BY DEF Way, Counted
  <1>2. Counted(A, d2, sd)  BY <1>1 DEF Counted
  <1>3. Len(A) \in Nat  OBVIOUS
  <1>4. Acked(A, out)  BY <1>1, <1>3 DEF Acked
  <1>5. Acked(A, back)  BY DEF Way
  <1>6. Acked(A, back \o out)  BY <1>3, <1>4, <1>5, AckedConcat
  <1>. QED  BY <1>2, <1>6 DEF Way

\* The end that wrote S closes.
LEMMA WayCloses ==
    ASSUME NEW S, NEW A, NEW c, NEW se, NEW d, NEW sd, NEW ahead, NEW back, NEW los,
           Way(S, A, c, se, d, sd, ahead, back, los), NEW c2, NEW se2, se2 # "open", NEW back2, Acked(A, back2)
    PROVE  Way(S, A, c2, se2, d, sd, ahead, back2, los)
  BY DEF Way, Sending, InLine

\* The end it is for closes.
LEMMA WayLeaves ==
    ASSUME NEW S, NEW A, NEW c, NEW se, NEW d, NEW sd, NEW ahead, NEW back, NEW los,
           Way(S, A, c, se, d, sd, ahead, back, los), NEW d2, NEW sd2, sd2 # "open",
           NEW ahead2, Truthful(S, ahead2), NEW back2, Acked(A, back2)
    PROVE  Way(S, A, c, se, d2, sd2, ahead2, back2, los)
  BY DEF Way, Counted, InLine

\* A packet is lost.
LEMMA WayLoses ==
    ASSUME NEW S, NEW A, NEW c, NEW se, NEW d, NEW sd, NEW ahead, NEW back, NEW los,
           Way(S, A, c, se, d, sd, ahead, back, los), NEW los2, los2 # <<>>,
           NEW ahead2, Truthful(S, ahead2), NEW back2, Acked(A, back2)
    PROVE  Way(S, A, c, se, d, sd, ahead2, back2, los2)
  BY DEF Way, InLine, Intact

\* The advice that a stream is closed.
LEMMA CloseFacts ==
    CloseAdvice \in Packet /\ CloseAdvice.kind = "close"
  BY DEF Packet, CloseAdvice

\* CloseAdvice is sent after what was sent,
LEMMA WayAdvises ==
    ASSUME NEW S \in Seq(Nat), NEW A, NEW c, NEW se, NEW d, NEW sd, NEW ahead \in Seq(Packet), NEW back, NEW los,
           Way(S, A, c, se, d, sd, ahead, back, los), NEW p \in Packet, p.kind = "close"
    PROVE  Way(S, A, c, se, d, sd, Append(ahead, p), back, los)
  <1>1. PICK q : q = Append(ahead, p)  OBVIOUS
  <1>2. Len(ahead) \in Nat /\ Len(q) = Len(ahead) + 1 /\ q[Len(ahead) + 1] = p /\ \A k \in 1..Len(ahead) : q[k] = ahead[k]
    BY <1>1, AppendProperties
  <1>3. Truthful(S, ahead)  BY DEF Way
  <1>4. Honest(S, p)  BY DEF Honest
  <1>5. Truthful(S, q)
    <2>1. SUFFICES ASSUME NoMarks(S), NEW k \in 1..Len(q) PROVE Honest(S, q[k])  BY DEF Truthful
    <2>2. CASE k = Len(ahead) + 1  BY <1>2, <1>4, <2>2
    <2>3. CASE k # Len(ahead) + 1
      <3>1. k \in 1..Len(ahead)  BY <1>2, <2>3
      <3>. QED  BY <1>2, <1>3, <2>1, <3>1 DEF Truthful
    <2>. QED  BY <2>2, <2>3
  <1>6. InLine(S, A, c, se, sd, q, los)
    <2>1. SUFFICES ASSUME los = <<>>, sd = "open"
                   PROVE  \E y \in 0..Len(S) : Runs(S, Len(A), q, y) /\ (se = "open" => y = c.send_seq)
      BY DEF InLine
    <2>2. PICK y \in 0..Len(S) : Runs(S, Len(A), ahead, y) /\ (se = "open" => y = c.send_seq)
      BY <2>1 DEF Way, InLine
    <2>3. Link(S, y, p, y)  BY LinkStale
    <2>4. PICK l : l = Len(A)  OBVIOUS
    <2>5. Runs(S, l, q, y)  BY <1>1, <2>2, <2>3, <2>4, RunsAppend
    <2>. QED  BY <2>2, <2>4, <2>5
  <1>. QED  BY <1>1, <1>5, <1>6 DEF Way

\* and acknowledges nothing.
LEMMA AckedAdvice ==
    ASSUME NEW A, NEW back \in Seq(Packet), Acked(A, back), NEW p \in Packet, p.kind = "close"
    PROVE  Acked(A, Append(back, p))
  <1>1. PICK q : q = Append(back, p)  OBVIOUS
  <1>2. Len(back) \in Nat /\ Len(q) = Len(back) + 1 /\ q[Len(back) + 1] = p /\ \A k \in 1..Len(back) : q[k] = back[k]
    BY <1>1, AppendProperties
  <1>3. ASSUME NEW k \in 1..Len(q), q[k].kind # "close" PROVE q[k].ack <= Len(A)
    <2>1. k # Len(back) + 1  BY <1>2, <1>3
    <2>2. k \in 1..Len(back)  BY <1>2, <2>1
    <2>. QED  BY <1>2, <1>3, <2>2 DEF Acked
  <1>. QED  BY <1>1, <1>3 DEF Acked

\* Nothing is queued.
LEMMA HeldNone ==
    ASSUME NEW A \in Seq(Nat)
    PROVE  Held(A, Len(A), <<>>, <<>>)
  <1>1. PICK n : n = Len(A)  OBVIOUS
  <1>2. n \in Nat /\ Len(<<>>) = 0  BY <1>1
  <1>3. n = n + 0 + 0 /\ 1..0 = {}  BY <1>2
  <1>. QED  BY <1>1, <1>2, <1>3 DEF Held

\* Bytes come.
LEMMA HeldMoreBytes ==
    ASSUME NEW A \in Seq(Nat), NEW g \in Nat, NEW r \in Seq(Nat), NEW es \in Seq(Nat), Held(A, g, r, es),
           NEW T \in Seq(Nat)
    PROVE  Held(A \o T, g, r \o T, es)
  <1>1. PICK a, l, m, t : a = Len(A) /\ l = Len(r) /\ m = Len(es) /\ t = Len(T)  OBVIOUS
  <1>2. a \in Nat /\ l \in Nat /\ m \in Nat /\ t \in Nat /\ a = g + l + m  BY <1>1 DEF Held
  <1>3. PICK B \in Seq(Nat), q \in Seq(Nat) : B = A \o T /\ q = r \o T  BY ConcatProperties
  <1>4. Len(B) = a + t /\ \A i \in 1..a + t : B[i] = IF i <= a THEN A[i] ELSE T[i - a]
    BY <1>1, <1>3, ConcatProperties
  <1>5. Len(q) = l + t /\ \A i \in 1..l + t : q[i] = IF i <= l THEN r[i] ELSE T[i - l]
    BY <1>1, <1>3, ConcatProperties
  <1>6. \A j \in 1..m : es[j] \in Nat /\ es[j] <= l /\ A[g + es[j] + j] = MARK
    BY <1>1, ElementOfSeq DEF Held
  <1>7. \A j \in 1..m : es[j] <= Len(q) /\ B[g + es[j] + j] = MARK
    <2>1. TAKE j \in 1..m
    <2>2. PICK h : h = es[j]  OBVIOUS
    <2>3. h \in Nat /\ h <= l /\ A[g + h + j] = MARK  BY <1>6, <2>2
    <2>4. g + h + j \in 1..a + t /\ g + h + j <= a  BY <1>2, <2>3
    <2>5. B[g + h + j] = MARK  BY <1>4, <2>3, <2>4
    <2>6. h <= Len(q)  BY <1>2, <1>5, <2>3
    <2>. QED  BY <2>2, <2>5, <2>6
  <1>8. ASSUME NEW k \in 1..l + t, NEW j \in 0..m, j > 0 => es[j] < k, j < m => k <= es[j + 1]
        PROVE  B[g + k + j] = q[k]
    <2>1. CASE k <= l
      <3>1. k \in 1..l  BY <1>2, <2>1
      <3>2. A[g + k + j] = r[k]  BY <1>1, <1>8, <3>1 DEF Held
      <3>3. g + k + j \in 1..a + t /\ g + k + j <= a  BY <1>2, <3>1
      <3>. QED  BY <1>4, <1>5, <2>1, <3>2, <3>3
    <2>2. CASE k > l
      <3>1. j = m
        <4>1. SUFFICES ASSUME j < m PROVE FALSE  BY <1>2
        <4>2. PICK i : i = j + 1  OBVIOUS
        <4>3. i \in 1..m  BY <1>2, <4>1, <4>2
        <4>4. es[i] \in Nat /\ es[i] <= l /\ k <= es[i]  BY <1>6, <1>8, <4>1, <4>2, <4>3
        <4>. QED  BY <1>2, <2>2, <4>4
      <3>2. g + k + j \in 1..a + t /\ ~(g + k + j <= a) /\ g + k + j - a = k - l  BY <1>2, <2>2, <3>1
      <3>3. PICK i, u : i = g + k + j /\ u = k - l  OBVIOUS
      <3>4. i \in 1..a + t /\ ~(i <= a) /\ i - a = u
        <4>1. i \in 1..a + t /\ ~(i <= a)  BY ONLY <3>2, <3>3
        <4>2. k \in Nat /\ j \in Nat /\ a \in Nat /\ g \in Nat /\ l \in Nat  BY <1>2
        <4>3. i - a = u  BY ONLY <3>2, <3>3, <4>2
        <4>. QED  BY <4>1, <4>3
      <3>5. B[i] = T[i - a]  BY <1>4, <3>4
      <3>6. k \in 1..l + t /\ ~(k <= l)  BY <1>2, <2>2
      <3>7. q[k] = T[k - l]  BY <1>5, <3>6
      <3>. QED  BY <3>3, <3>4, <3>5, <3>7
    <2>3. k \in Nat  BY <1>2
    <2>. QED  BY <1>2, <2>1, <2>2, <2>3
  <1>9. Len(B) = g + Len(q) + m  BY <1>2, <1>4, <1>5
  <1>10. \A i, j \in 1..m : i <= j => es[i] <= es[j]  BY <1>1 DEF Held
  <1>11. Held(B, g, q, es)  BY <1>1, <1>5, <1>7, <1>8, <1>9, <1>10 DEF Held
  <1>. QED  BY <1>3, <1>11

\* A message ends.
LEMMA HeldMoreMark ==
    ASSUME NEW A \in Seq(Nat), NEW g \in Nat, NEW r \in Seq(Nat), NEW es \in Seq(Nat), Held(A, g, r, es),
           NEW l, l = Len(r), NEW mark, mark = MARK
    PROVE  Held(Append(A, mark), g, r, Append(es, l)) /\ Append(es, l) \in Seq(Nat)
  <1>1. PICK a, m : a = Len(A) /\ m = Len(es)  OBVIOUS
  <1>2. a \in Nat /\ l \in Nat /\ m \in Nat /\ a = g + l + m  BY <1>1 DEF Held
  <1>3. PICK B, f : B = Append(A, mark) /\ f = Append(es, l)  OBVIOUS
  <1>4. Len(B) = a + 1 /\ B[a + 1] = mark /\ \A i \in 1..a : B[i] = A[i]
    BY <1>1, <1>3, AppendProperties DEF MARK
  <1>5. Len(f) = m + 1 /\ f[m + 1] = l /\ (\A i \in 1..m : f[i] = es[i]) /\ f \in Seq(Nat)
    BY <1>1, <1>2, <1>3, AppendProperties
  <1>6. \A j \in 1..m : es[j] \in Nat /\ es[j] <= l /\ A[g + es[j] + j] = MARK
    BY <1>1, ElementOfSeq DEF Held
  <1>7. \A j \in 1..m + 1 : f[j] \in Nat /\ f[j] <= l /\ B[g + f[j] + j] = MARK
    <2>1. TAKE j \in 1..m + 1
    <2>2. CASE j = m + 1
      <3>1. g + l + j = a + 1  BY <1>2, <2>2
      <3>. QED  BY <1>2, <1>4, <1>5, <2>2, <3>1
    <2>3. CASE j # m + 1
      <3>1. j \in 1..m  BY <1>2, <2>3
      <3>2. PICK h : h = es[j]  OBVIOUS
      <3>3. h \in Nat /\ h <= l /\ A[g + h + j] = MARK  BY <1>6, <3>1, <3>2
      <3>4. g + h + j \in 1..a  BY <1>2, <3>1, <3>3
      <3>5. B[g + h + j] = MARK /\ f[j] = h  BY <1>4, <1>5, <3>1, <3>2, <3>3, <3>4
      <3>. QED  BY <3>3, <3>5
    <2>. QED  BY <2>2, <2>3
  <1>8. \A i, j \in 1..m + 1 : i <= j => f[i] <= f[j]
    <2>1. TAKE i, j \in 1..m + 1
    <2>2. HAVE i <= j
    <2>3. CASE j = m + 1  BY <1>5, <1>7, <2>3
    <2>4. CASE j # m + 1
      <3>1. i \in 1..m /\ j \in 1..m  BY <1>2, <2>2, <2>4
      <3>. QED  BY <1>1, <1>5, <2>2, <3>1 DEF Held
    <2>. QED  BY <2>3, <2>4
  <1>9. ASSUME NEW k \in 1..l, NEW j \in 0..m + 1, j > 0 => f[j] < k, j < m + 1 => k <= f[j + 1]
        PROVE  B[g + k + j] = r[k]
    <2>1. j # m + 1
      <3>1. SUFFICES ASSUME j = m + 1 PROVE FALSE  OBVIOUS
      <3>2. l < k  BY <1>2, <1>5, <1>9, <3>1
      <3>. QED  BY <1>2, <3>2
    <2>2. j \in 0..m  BY <1>2, <2>1
    <2>3. j > 0 => es[j] < k
      <3>1. SUFFICES ASSUME j > 0 PROVE es[j] < k  OBVIOUS
      <3>2. j \in 1..m  BY <1>2, <2>2, <3>1
      <3>. QED  BY <1>5, <1>9, <3>1, <3>2
    <2>4. j < m => k <= es[j + 1]
      <3>1. SUFFICES ASSUME j < m PROVE k <= es[j + 1]  OBVIOUS
      <3>2. j + 1 \in 1..m /\ j < m + 1  BY <1>2, <2>2, <3>1
      <3>. QED  BY <1>5, <1>9, <3>2
    <2>5. A[g + k + j] = r[k]  BY <1>1, <2>2, <2>3, <2>4 DEF Held
    <2>6. g + k + j \in 1..a  BY <1>2, <2>2
    <2>. QED  BY <1>4, <2>5, <2>6
  <1>10. Len(B) = g + l + (m + 1)  BY <1>2, <1>4
  <1>11. Held(B, g, r, f)  BY <1>5, <1>7, <1>8, <1>9, <1>10 DEF Held
  <1>. QED  BY <1>3, <1>5, <1>11

\* The first n bytes leave the queue.
LEMMA HeldFewerBytes ==
    ASSUME NEW A \in Seq(Nat), NEW g \in Nat, NEW r \in Seq(Nat), NEW es \in Seq(Nat), Held(A, g, r, es),
           NEW n \in 0..Len(r), es # <<>> => n <= es[1]
    PROVE  /\ SubSeq(r, 1, n) \in Seq(Nat) /\ Len(SubSeq(r, 1, n)) = n
           /\ \A k \in 1..n : A[g + k] = SubSeq(r, 1, n)[k]
           /\ SubSeq(r, n + 1, Len(r)) \in Seq(Nat) /\ EndsAfter(es, n) \in Seq(Nat)
           /\ Held(A, g + n, SubSeq(r, n + 1, Len(r)), EndsAfter(es, n))
  <1>1. PICK a, l, m : a = Len(A) /\ l = Len(r) /\ m = Len(es)  OBVIOUS
  <1>2. a \in Nat /\ l \in Nat /\ m \in Nat /\ a = g + l + m /\ n \in Nat /\ n <= l  BY <1>1 DEF Held
  <1>3. \A i \in 1..l : r[i] \in Nat  BY <1>1, ElementOfSeq
  <1>4. PICK D, R, f : D = SubSeq(r, 1, n) /\ R = SubSeq(r, n + 1, Len(r)) /\ f = EndsAfter(es, n)  OBVIOUS
  <1>5. D \in Seq(Nat) /\ Len(D) = n /\ \A i \in 1..n : D[i] = r[i]
    <2>1. \A i \in 1..n : r[i] \in Nat  BY <1>2, <1>3
    <2>. QED  BY <1>1, <1>2, <1>4, <2>1, SubSeqProperties
  <1>6. R \in Seq(Nat) /\ Len(R) = l - n /\ \A i \in 1..l - n : R[i] = r[n + i]
    <2>1. \A i \in n + 1..l : r[i] \in Nat  BY <1>2, <1>3
    <2>2. /\ R \in Seq(Nat) /\ Len(R) = IF n + 1 <= l THEN l - (n + 1) + 1 ELSE 0
          /\ \A i \in 1..l - (n + 1) + 1 : R[i] = r[n + 1 + i - 1]
      BY <1>1, <1>2, <1>4, <2>1, SubSeqProperties
    <2>3. Len(R) = l - n  BY <1>2, <2>2
    <2>4. \A i \in 1..l - n : R[i] = r[n + i]
      <3>1. TAKE i \in 1..l - n
      <3>2. i \in 1..l - (n + 1) + 1 /\ n + 1 + i - 1 = n + i  BY <1>2
      <3>3. R[i] = r[n + 1 + i - 1]  BY <2>2, <3>2
      <3>. QED  BY <3>2, <3>3
    <2>. QED  BY <2>2, <2>3, <2>4
  <1>7. \A j \in 1..m : es[j] \in Nat /\ es[j] <= l /\ A[g + es[j] + j] = MARK
    BY <1>1, ElementOfSeq DEF Held
  <1>8. \A i, j \in 1..m : i <= j => es[i] <= es[j]  BY <1>1 DEF Held
  <1>9. \A j \in 1..m : n <= es[j]
    <2>1. TAKE j \in 1..m
    <2>2. es # <<>> /\ 1 \in 1..m /\ 1 <= j  BY <1>1, <1>2
    <2>3. n <= es[1] /\ es[1] <= es[j] /\ es[1] \in Nat /\ es[j] \in Nat  BY <1>7, <1>8, <2>2
    <2>. QED  BY <1>2, <2>3
  <1>10. f \in Seq(Nat) /\ Len(f) = m /\ \A j \in 1..m : f[j] = es[j] - n
    <2>1. DOMAIN es = 1..m  BY <1>1
    <2>2. f = [i \in 1..m |-> es[i] - n]  BY <1>4, <2>1 DEF EndsAfter
    <2>3. \A i \in 1..m : es[i] - n \in Nat
      <3>1. TAKE i \in 1..m
      <3>2. PICK h : h = es[i]  OBVIOUS
      <3>3. h \in Nat /\ n <= h  BY <1>7, <1>9, <3>2
      <3>4. h - n \in Nat  BY <1>2, <3>3
      <3>. QED  BY <3>2, <3>4
    <2>. QED  BY <1>2, <2>2, <2>3
  <1>11. \A k \in 1..n : A[g + k] = D[k]
    <2>1. TAKE k \in 1..n
    <2>2. k \in 1..l /\ 0 \in 0..m  BY <1>2
    <2>3. 0 < m => k <= es[0 + 1]
      <3>1. SUFFICES ASSUME 0 < m PROVE k <= es[1]  OBVIOUS
      <3>2. 1 \in 1..m  BY <1>2, <3>1
      <3>. QED  BY <1>2, <1>7, <1>9, <3>2
    <2>4. A[g + k + 0] = r[k]
      <3>1. \A i \in 1..l, j \in 0..m :
                (j > 0 => es[j] < i) /\ (j < m => i <= es[j + 1]) => A[g + i + j] = r[i]
        BY <1>1 DEF Held
      <3>2. (0 > 0 => es[0] < k) /\ (0 < m => k <= es[0 + 1])  BY ONLY <2>3
      <3>. QED  BY ONLY <2>2, <3>1, <3>2, Zenon
    <2>5. g + k + 0 = g + k  BY <1>2
    <2>. QED  BY <1>5, <2>4, <2>5
  <1>12. \A j \in 1..m : f[j] <= l - n /\ A[g + n + f[j] + j] = MARK
    <2>1. TAKE j \in 1..m
    <2>2. PICK h : h = es[j]  OBVIOUS
    <2>3. h \in Nat /\ h <= l /\ n <= h /\ f[j] = h - n /\ A[g + h + j] = MARK  BY <1>7, <1>9, <1>10, <2>2
    <2>4. g + n + (h - n) + j = g + h + j /\ h - n <= l - n  BY <1>2, <2>3
    <2>. QED  BY <2>3, <2>4
  <1>13. \A i, j \in 1..m : i <= j => f[i] <= f[j]
    <2>1. TAKE i, j \in 1..m
    <2>2. HAVE i <= j
    <2>3. PICK h, e : h = es[i] /\ e = es[j]  OBVIOUS
    <2>4. h \in Nat /\ e \in Nat /\ h <= e /\ f[i] = h - n /\ f[j] = e - n  BY <1>7, <1>8, <1>10, <2>2, <2>3
    <2>. QED  BY <1>2, <2>4
  <1>14. ASSUME NEW k \in 1..l - n, NEW j \in 0..m, j > 0 => f[j] < k, j < m => k <= f[j + 1]
         PROVE  A[g + n + k + j] = R[k]
    <2>1. PICK i : i = n + k  OBVIOUS
    <2>2. i \in 1..l  BY <1>2, <2>1
    <2>3. j > 0 => es[j] < i
      <3>1. SUFFICES ASSUME j > 0 PROVE es[j] < i  OBVIOUS
      <3>2. j \in 1..m  BY <1>2, <3>1
      <3>3. PICK h : h = es[j]  OBVIOUS
      <3>4. h \in Nat /\ h - n < k  BY <1>7, <1>10, <1>14, <3>1, <3>2, <3>3
      <3>. QED  BY <1>2, <2>1, <3>3, <3>4
    <2>4. j < m => i <= es[j + 1]
      <3>1. SUFFICES ASSUME j < m PROVE i <= es[j + 1]  OBVIOUS
      <3>2. j + 1 \in 1..m  BY <1>2, <3>1
      <3>3. PICK h : h = es[j + 1]  OBVIOUS
      <3>4. h \in Nat /\ k <= h - n  BY <1>7, <1>10, <1>14, <3>1, <3>2, <3>3
      <3>. QED  BY <1>2, <2>1, <3>3, <3>4
    <2>5. A[g + i + j] = r[i]  BY <1>1, <2>2, <2>3, <2>4 DEF Held
    <2>6. g + i + j = g + n + k + j  BY <1>2, <2>1
    <2>7. R[k] = r[i]  BY <1>6, <2>1
    <2>. QED  BY <2>5, <2>6, <2>7
  <1>15. a = g + n + (l - n) + m  BY <1>2
  <1>16. Held(A, g + n, R, f)  BY <1>1, <1>6, <1>10, <1>12, <1>13, <1>14, <1>15 DEF Held
  <1>. QED  BY <1>4, <1>5, <1>6, <1>10, <1>11, <1>16

\* The end of a message leaves it.
LEMMA HeldFewerMarks ==
    ASSUME NEW A \in Seq(Nat), NEW g \in Nat, NEW r \in Seq(Nat), NEW es \in Seq(Nat), Held(A, g, r, es),
           es # <<>>, es[1] = 0
    PROVE  A[g + 1] = MARK /\ g + 1 <= Len(A) /\ Tail(es) \in Seq(Nat) /\ Held(A, g + 1, r, Tail(es))
  <1>1. PICK a, l, m, f : a = Len(A) /\ l = Len(r) /\ m = Len(es) /\ f = Tail(es)  OBVIOUS
  <1>2. a \in Nat /\ l \in Nat /\ m \in Nat /\ a = g + l + m /\ m # 0  BY <1>1 DEF Held
  <1>3. f \in Seq(Nat) /\ Len(f) = m - 1 /\ \A j \in 1..m - 1 : f[j] = es[j + 1]  BY <1>1, HeadTailProperties
  <1>4. \A j \in 1..m : es[j] \in Nat /\ es[j] <= l /\ A[g + es[j] + j] = MARK
    BY <1>1, ElementOfSeq DEF Held
  <1>5. 1 \in 1..m /\ A[g + 0 + 1] = MARK /\ g + 0 + 1 = g + 1 /\ g + 1 <= a
    <2>1. 1 \in 1..m  BY <1>2
    <2>. QED  BY <1>2, <1>4, <2>1
  <1>6. \A j \in 1..m - 1 : f[j] <= l /\ A[g + 1 + f[j] + j] = MARK
    <2>1. TAKE j \in 1..m - 1
    <2>2. PICK i, h : i = j + 1 /\ h = es[j + 1]  OBVIOUS
    <2>3. i \in 1..m  BY <1>2, <2>2
    <2>4. h \in Nat /\ h <= l /\ A[g + h + i] = MARK /\ f[j] = h  BY <1>3, <1>4, <2>2, <2>3
    <2>5. g + h + i = g + 1 + h + j
      <3>1. i = j + 1 /\ j \in Nat /\ h \in Nat  BY <1>2, <2>2, <2>4
      <3>2. g \in Nat  OBVIOUS
      <3>. QED  BY ONLY <3>1, <3>2
    <2>. QED  BY <2>4, <2>5
  <1>7. \A i, j \in 1..m - 1 : i <= j => f[i] <= f[j]
    <2>1. TAKE i, j \in 1..m - 1
    <2>2. HAVE i <= j
    <2>3. i + 1 \in 1..m /\ j + 1 \in 1..m /\ i + 1 <= j + 1  BY <1>2, <2>2
    <2>4. es[i + 1] <= es[j + 1]  BY <1>1, <2>3 DEF Held
    <2>. QED  BY <1>3, <2>4
  <1>8. ASSUME NEW k \in 1..l, NEW j \in 0..m - 1, j > 0 => f[j] < k, j < m - 1 => k <= f[j + 1]
        PROVE  A[g + 1 + k + j] = r[k]
    <2>1. PICK i : i = j + 1  OBVIOUS
    <2>2. i \in 0..m /\ i \in 1..m  BY <1>2, <2>1
    <2>3. es[i] < k
      <3>1. CASE j = 0  BY <1>2, <2>1, <3>1
      <3>2. CASE j # 0
        <4>1. j \in 1..m - 1 /\ j > 0  BY <1>2, <3>2
        <4>. QED  BY <1>3, <1>8, <2>1, <4>1
      <3>. QED  BY <3>1, <3>2
    <2>4. i < m => k <= es[i + 1]
      <3>1. SUFFICES ASSUME i < m PROVE k <= es[i + 1]  OBVIOUS
      <3>2. i \in 1..m - 1 /\ j < m - 1  BY <1>2, <2>1, <3>1
      <3>. QED  BY <1>3, <1>8, <2>1, <3>2
    <2>5. A[g + k + i] = r[k]  BY <1>1, <2>2, <2>3, <2>4 DEF Held
    <2>6. g + k + i = g + 1 + k + j  BY <1>2, <2>1
    <2>. QED  BY <2>5, <2>6
  <1>9. a = g + 1 + l + (m - 1)  BY <1>2
  <1>10. Held(A, g + 1, r, f)  BY <1>1, <1>3, <1>6, <1>7, <1>8, <1>9 DEF Held
  <1>. QED  BY <1>1, <1>3, <1>5, <1>10

\* What arrives is queued.
LEMMA HeldArrives ==
    ASSUME NEW A \in Seq(Nat), NEW g \in Nat, NEW r \in Seq(Nat), NEW es \in Seq(Nat), Held(A, g, r, es),
           NEW T \in Seq(Nat), NEW eom \in BOOLEAN
    PROVE  LET es2 == IF eom THEN Append(es, Len(r \o T)) ELSE es IN
           r \o T \in Seq(Nat) /\ es2 \in Seq(Nat) /\ Held(A \o Marked(T, eom), g, r \o T, es2)
  <1>1. PICK B, q : B = A \o T /\ q = r \o T  OBVIOUS
  <1>2. B \in Seq(Nat) /\ q \in Seq(Nat) /\ Held(B, g, q, es)  BY <1>1, HeldMoreBytes, ConcatProperties
  <1>3. PICK l, mark : l = Len(q) /\ mark = MARK  OBVIOUS
  <1>4. Held(Append(B, mark), g, q, Append(es, l)) /\ Append(es, l) \in Seq(Nat)  BY <1>2, <1>3, HeldMoreMark
  <1>5. ASSUME eom PROVE A \o Marked(T, eom) = Append(B, mark)
    <2>1. PICK w \in Seq(Nat) : w = <<mark>>
      <3>1. mark \in Nat  BY <1>3 DEF MARK
      <3>2. <<mark>> \in Seq(Nat)  BY <3>1
      <3>. QED  BY <3>2
    <2>2. Marked(T, eom) = T \o w  BY <1>3, <1>5, <2>1 DEF Marked
    <2>3. (A \o T) \o w = A \o (T \o w)
      <3>1. A \in Seq(Nat) /\ T \in Seq(Nat) /\ w \in Seq(Nat)  BY <2>1
      <3>. QED  BY ONLY <3>1
    <2>4. Append(B, mark) = B \o w  BY <1>2, <2>1
    <2>. QED  BY <1>1, <2>2, <2>3, <2>4
  <1>6. ASSUME ~eom PROVE A \o Marked(T, eom) = B
    <2>1. Marked(T, eom) = T \o <<>>  BY <1>6 DEF Marked
    <2>2. T \o <<>> = T  BY ConcatEmptySeq
    <2>. QED  BY <1>1, <2>1, <2>2
  <1>7. CASE eom  BY <1>1, <1>2, <1>3, <1>4, <1>5, <1>7
  <1>8. CASE ~eom  BY <1>1, <1>2, <1>6, <1>8
  <1>. QED  BY <1>7, <1>8

\* Whether a message ends where the queue starts, and the ends after that.
EndsHere(ends) == ends # <<>> /\ Head(ends) = 0
EndsLeft(ends) == IF EndsHere(ends) THEN Tail(ends) ELSE ends

\* Bytes are read, and the end of the message after them.
LEMMA HeldRead ==
    ASSUME NEW A \in Seq(Nat), NEW g \in Nat, NEW r \in Seq(Nat), NEW es \in Seq(Nat), Held(A, g, r, es),
           NEW n \in 0..Len(r), es # <<>> => n <= es[1]
    PROVE  /\ SubSeq(r, 1, n) \in Seq(Nat) /\ Len(SubSeq(r, 1, n)) = n
           /\ SubSeq(r, n + 1, Len(r)) \in Seq(Nat) /\ EndsLeft(EndsAfter(es, n)) \in Seq(Nat)
           /\ At(A, g, SubSeq(r, 1, n), EndsHere(EndsAfter(es, n)))
           /\ Held(A, g + n + Bit(EndsHere(EndsAfter(es, n))), SubSeq(r, n + 1, Len(r)),
                   EndsLeft(EndsAfter(es, n)))
  <1> DEFINE ends == EndsAfter(es, n)
             eom  == EndsHere(ends)
             es2  == EndsLeft(ends)
             data == SubSeq(r, 1, n)
             rest == SubSeq(r, n + 1, Len(r))
  <1>. SUFFICES /\ data \in Seq(Nat) /\ Len(data) = n /\ rest \in Seq(Nat) /\ es2 \in Seq(Nat)
                /\ At(A, g, data, eom) /\ Held(A, g + n + Bit(eom), rest, es2)
    OBVIOUS
  <1>0. eom \in BOOLEAN /\ (eom <=> EndsHere(ends)) /\ es2 = EndsLeft(ends)  BY DEF EndsHere
  <1>1. /\ data \in Seq(Nat) /\ Len(data) = n
        /\ \A k \in 1..n : A[g + k] = data[k]
        /\ rest \in Seq(Nat) /\ ends \in Seq(Nat)
        /\ Held(A, g + n, rest, ends)
    <2>1. /\ A \in Seq(Nat) /\ g \in Nat /\ r \in Seq(Nat) /\ es \in Seq(Nat) /\ Held(A, g, r, es)
          /\ n \in 0..Len(r) /\ (es # <<>> => n <= es[1])
      OBVIOUS
    <2>2. /\ SubSeq(r, 1, n) \in Seq(Nat) /\ Len(SubSeq(r, 1, n)) = n
          /\ \A k \in 1..n : A[g + k] = SubSeq(r, 1, n)[k]
          /\ SubSeq(r, n + 1, Len(r)) \in Seq(Nat) /\ EndsAfter(es, n) \in Seq(Nat)
          /\ Held(A, g + n, SubSeq(r, n + 1, Len(r)), EndsAfter(es, n))
      BY ONLY <2>1, HeldFewerBytes
    <2>. QED  BY <2>2
  <1> HIDE DEF ends, eom, es2, data, rest
  <1>2. PICK h : h = g + n  OBVIOUS
  <1>3. h \in Nat /\ n \in Nat /\ g \in Nat  BY <1>2
  <1>4. Held(A, h, rest, ends)  BY <1>1, <1>2
  <1>5. Bit(eom) = IF eom THEN 1 ELSE 0  BY DEF Bit
  <1>6. CASE eom
    <2>1. ends # <<>> /\ Head(ends) = 0  BY <1>0, <1>6 DEF EndsHere
    <2>2. ends[1] = 0  BY <1>1, <2>1
    <2>3. A[h + 1] = MARK /\ h + 1 <= Len(A) /\ Tail(ends) \in Seq(Nat) /\ Held(A, h + 1, rest, Tail(ends))
      BY <1>1, <1>3, <1>4, <2>1, <2>2, HeldFewerMarks
    <2>4. g + n + Bit(eom) = h + 1 /\ g + Len(data) + Bit(eom) = h + 1 /\ g + Len(data) + 1 = h + 1
      BY <1>1, <1>2, <1>3, <1>5, <1>6
    <2>5. At(A, g, data, eom)  BY <1>1, <2>3, <2>4 DEF At
    <2>6. es2 = Tail(ends)  BY <1>0, <1>6 DEF EndsLeft
    <2>. QED  BY <1>1, <2>3, <2>4, <2>5, <2>6
  <1>7. CASE ~eom
    <2>1. g + n + Bit(eom) = h /\ g + Len(data) + Bit(eom) = h  
      <3>1. Bit(eom) = 0 /\ Len(data) = n  BY <1>1, <1>5, <1>7
      <3>. QED  BY ONLY <1>2, <1>3, <3>1
    <2>2. h <= Len(A)
      <3>1. PICK a, b, c : a = Len(A) /\ b = Len(rest) /\ c = Len(ends)  OBVIOUS
      <3>2. a = h + b + c /\ b \in Nat /\ c \in Nat  BY <1>1, <1>4, <3>1 DEF Held
      <3>3. h <= a  BY <1>3, <3>2
      <3>. QED  BY <3>1, <3>3
    <2>3. At(A, g, data, eom)  BY <1>1, <1>7, <2>1, <2>2 DEF At
    <2>4. es2 = ends  BY <1>0, <1>7 DEF EndsLeft
    <2>. QED  BY <1>1, <1>4, <2>1, <2>3, <2>4
  <1>. QED  BY <1>0, <1>6, <1>7

\* A longer stream.
LEMMA LongerKeeps ==
    ASSUME NEW A \in Seq(Nat), NEW T \in Seq(Nat)
    PROVE  Len(A) <= Len(A \o T) /\ \A i \in 1..Len(A) : (A \o T)[i] = A[i]
  <1>1. Len(A) \in Nat /\ Len(T) \in Nat  OBVIOUS
  <1>2. Len(A \o T) = Len(A) + Len(T)  BY ConcatProperties
  <1>3. \A i \in 1..Len(A) : (A \o T)[i] = A[i]
    <2>1. TAKE i \in 1..Len(A)
    <2>2. i \in 1..Len(A) + Len(T) /\ i <= Len(A)  BY <1>1
    <2>. QED  BY <2>2, ConcatProperties
  <1>. QED  BY <1>1, <1>2, <1>3

\* A longer stream has the message starts of a shorter one,
LEMMA BetweenMore ==
    ASSUME NEW A \in Seq(Nat), NEW T \in Seq(Nat), NEW g \in Nat, Between(A, g)
    PROVE  Between(A \o T, g)
  <1>1. Len(A) <= Len(A \o T) /\ \A i \in 1..Len(A) : (A \o T)[i] = A[i]  BY LongerKeeps
  <1>2. Len(A) \in Nat /\ Len(A \o T) \in Nat  BY ConcatProperties
  <1>. QED  BY <1>1, <1>2 DEF Between

\* and its messages.
LEMMA WholeMore ==
    ASSUME NEW A \in Seq(Nat), NEW T \in Seq(Nat), NEW G, Whole(G, A)
    PROVE  Whole(G, A \o T)
  <1>1. PICK U : U = A \o T  OBVIOUS
  <1>2. Len(A) <= Len(U) /\ \A i \in 1..Len(A) : U[i] = A[i]  BY <1>1, LongerKeeps
  <1>3. U \in Seq(Nat) /\ Len(A) \in Nat /\ Len(U) \in Nat  BY <1>1, ConcatProperties
  <1>4. DOMAIN A = 1..Len(A) /\ DOMAIN U = 1..Len(U)  BY <1>3
  <1>5. ASSUME NEW v \in Starts(A) PROVE v \in Starts(U)
    <2>1. PICK i \in DOMAIN A : (i = 1 \/ A[i - 1] = MARK) /\ v = A[i]  BY <1>5 DEF Starts
    <2>2. i \in 1..Len(A) /\ i \in DOMAIN U /\ U[i] = A[i]  BY <1>2, <1>3, <1>4, <2>1
    <2>3. i = 1 \/ U[i - 1] = MARK
      <3>1. SUFFICES ASSUME i # 1 PROVE U[i - 1] = MARK  OBVIOUS
      <3>2. i - 1 \in 1..Len(A)  BY <1>3, <2>2, <3>1
      <3>. QED  BY <1>2, <2>1, <3>1, <3>2
    <2>. QED  BY <2>1, <2>2, <2>3 DEF Starts
  <1>6. ASSUME NEW a, NEW b, Follows(A, a, b) PROVE Follows(U, a, b)
    <2>1. PICK i \in DOMAIN A : i > 1 /\ A[i - 1] = a /\ A[i] = b  BY <1>6 DEF Follows
    <2>2. i \in 1..Len(A) /\ i - 1 \in 1..Len(A) /\ i \in DOMAIN U  BY <1>2, <1>3, <1>4, <2>1
    <2>. QED  BY <1>2, <2>1, <2>2 DEF Follows
  <1>7. Whole(G, U)
    <2>1. SUFFICES ASSUME NEW i \in DOMAIN G
                   PROVE  IF i = 1 \/ G[i - 1] = MARK THEN G[i] \in Starts(U) ELSE Follows(U, G[i - 1], G[i])
      BY DEF Whole
    <2>2. IF i = 1 \/ G[i - 1] = MARK THEN G[i] \in Starts(A) ELSE Follows(A, G[i - 1], G[i])  BY DEF Whole
    <2>3. CASE i = 1 \/ G[i - 1] = MARK  BY <1>5, <2>2, <2>3
    <2>4. CASE ~(i = 1 \/ G[i - 1] = MARK)  BY <1>6, <2>2, <2>4
    <2>. QED  BY <2>3, <2>4
  <1>. QED  BY <1>1, <1>7

\* A message that is in the stream is read.
LEMMA WholeNext ==
    ASSUME NEW A \in Seq(Nat), NEW G \in Seq(Nat), NEW g \in Nat, NEW data \in Seq(Nat), NEW eom \in BOOLEAN, eom,
           Whole(G, A), Between(G, Len(G)), Between(A, g), At(A, g, data, eom),
           NEW H, H = G \o Marked(data, eom)
    PROVE  H \in Seq(Nat) /\ Whole(H, A) /\ Between(H, Len(H))
  <1>1. PICK l, n, h : l = Len(G) /\ n = Len(data) /\ h = Len(H)  OBVIOUS
  <1>2. H \in Seq(Nat) /\ h = l + n + 1 /\ At(H, l, data, eom)
    <2>1. Bit(eom) = 1  BY DEF Bit
    <2>2. G \in Seq(Nat) /\ data \in Seq(Nat) /\ eom \in BOOLEAN  OBVIOUS
    <2>3. /\ G \o Marked(data, eom) \in Seq(Nat)
          /\ Len(G \o Marked(data, eom)) = Len(G) + Len(data) + Bit(eom)
          /\ At(G \o Marked(data, eom), Len(G), data, eom)
      BY ONLY <2>2, AtEnd
    <2>. QED  BY <1>1, <2>1, <2>3
  <1>3. l \in Nat /\ n \in Nat /\ h \in Nat /\ Len(A) \in Nat /\ g \in Nat
    <2>1. Len(G) \in Nat /\ Len(data) \in Nat /\ Len(A) \in Nat /\ g \in Nat  OBVIOUS
    <2>. QED  BY ONLY <1>1, <1>2, <2>1
  <1>4. g + n + 1 <= Len(A)
    <2>1. Bit(eom) = 1  BY DEF Bit
    <2>. QED  BY <1>1, <2>1 DEF At
  <1>5. \A i \in 1..l : H[i] = G[i]
    <2>1. Marked(data, eom) \in Seq(Nat)
      <3>1. MARK \in Nat  BY DEF MARK
      <3>2. <<MARK>> \in Seq(Nat) /\ <<>> \in Seq(Nat)  BY <3>1
      <3>. QED  BY <3>2, ConcatProperties DEF Marked
    <2>. QED  BY <1>1, <2>1, LongerKeeps
  <1>6. \A k \in 1..n + 1 : H[l + k] = A[g + k]
    <2>1. TAKE k \in 1..n + 1
    <2>2. CASE k = n + 1
      <3>1. l + n + 1 = l + k /\ g + n + 1 = g + k  BY <1>3, <2>2
      <3>2. H[l + n + 1] = MARK /\ A[g + n + 1] = MARK  BY <1>1, <1>2 DEF At
      <3>. QED  BY <3>1, <3>2
    <2>3. CASE k # n + 1
      <3>1. k \in 1..n  BY <1>3, <2>3
      <3>. QED  BY <1>1, <1>2, <3>1 DEF At
    <2>. QED  BY <2>2, <2>3
  <1>7. DOMAIN A = 1..Len(A) /\ DOMAIN H = 1..h /\ DOMAIN G = 1..l  BY <1>1, <1>2
  <1>8. Whole(H, A)
    <2>1. SUFFICES ASSUME NEW i \in 1..h
                   PROVE  IF i = 1 \/ H[i - 1] = MARK THEN H[i] \in Starts(A) ELSE Follows(A, H[i - 1], H[i])
      BY <1>7 DEF Whole
    <2>2. CASE i <= l
      <3>1. i \in 1..l /\ H[i] = G[i]
        <4>1. i \in 1..h  BY <2>1
        <4>2. i \in 1..l  BY ONLY <1>3, <2>2, <4>1
        <4>. QED  BY <1>5, <4>2
      <3>2. i # 1 => H[i - 1] = G[i - 1]
        <4>1. SUFFICES ASSUME i # 1 PROVE H[i - 1] = G[i - 1]  OBVIOUS
        <4>2. i - 1 \in 1..l  BY <1>3, <3>1, <4>1
        <4>. QED  BY <1>5, <4>2
      <3>3. IF i = 1 \/ G[i - 1] = MARK THEN G[i] \in Starts(A) ELSE Follows(A, G[i - 1], G[i])
        BY <1>7, <3>1 DEF Whole
      <3>4. CASE i = 1  BY <3>1, <3>3, <3>4
      <3>5. CASE i # 1  BY <3>1, <3>2, <3>3, <3>5
      <3>. QED  BY <3>4, <3>5
    <2>3. CASE i = l + 1
      <3>1. 1 \in 1..n + 1 /\ g + 1 \in DOMAIN A  BY <1>3, <1>4, <1>7
      <3>2. H[i] = A[g + 1]  BY <1>6, <2>3, <3>1
      <3>3. i = 1 \/ H[i - 1] = MARK
        <4>1. CASE l = 0  BY <2>3, <4>1
        <4>2. CASE l # 0
          <5>1. l \in 1..l /\ G[l] = MARK /\ i - 1 = l  BY <1>1, <1>3, <2>3, <4>2 DEF Between
          <5>. QED  BY <1>5, <5>1
        <4>. QED  BY <4>1, <4>2
      <3>4. g + 1 = 1 \/ A[g + 1 - 1] = MARK
        <4>1. g + 1 - 1 = g  OBVIOUS
        <4>. QED  BY <4>1 DEF Between
      <3>5. A[g + 1] \in Starts(A)
        <4>1. PICK j : j = g + 1  OBVIOUS
        <4>2. j \in DOMAIN A /\ (j = 1 \/ A[j - 1] = MARK)  BY <3>1, <3>4, <4>1
        <4>3. A[j] \in Starts(A)  BY <4>2 DEF Starts
        <4>. QED  BY <4>1, <4>3
      <3>. QED  BY <3>2, <3>3, <3>5
    <2>4. CASE i > l + 1
      <3>1. PICK k, j : k = i - l /\ j = g + k  OBVIOUS
      <3>2. k \in 1..n + 1 /\ k - 1 \in 1..n + 1 /\ i = l + k /\ i - 1 = l + (k - 1) /\ i # 1
        BY <1>2, <1>3, <2>1, <2>4, <3>1
      <3>3. j \in 1..Len(A) /\ j > 1 /\ j - 1 = g + (k - 1)  BY <1>3, <1>4, <3>1, <3>2
      <3>4. H[i] = A[j] /\ H[i - 1] = A[j - 1]  BY <1>6, <3>1, <3>2, <3>3
      <3>5. CASE A[j - 1] = MARK
        <4>1. A[j] \in Starts(A)  BY <1>7, <3>3, <3>5 DEF Starts
        <4>. QED  BY <3>4, <3>5, <4>1
      <3>6. CASE A[j - 1] # MARK
        <4>1. Follows(A, A[j - 1], A[j])  BY <1>7, <3>3 DEF Follows
        <4>. QED  BY <3>2, <3>4, <3>6, <4>1
      <3>. QED  BY <3>5, <3>6
    <2>5. i \in 1..h  BY <2>1
    <2>6. i <= l \/ i = l + 1 \/ i > l + 1  BY ONLY <1>3, <2>5
    <2>. QED  BY <2>2, <2>3, <2>4, <2>6
  <1>9. Between(H, h)
    <2>1. n + 1 \in 1..n + 1 /\ l + (n + 1) = h /\ h \in 1..h  BY <1>2, <1>3
    <2>2. l + n + 1 = h /\ H[l + n + 1] = MARK  BY <1>1, <1>2 DEF At
    <2>. QED  BY <1>1, <2>1, <2>2 DEF Between
  <1>. QED  BY <1>1, <1>2, <1>8, <1>9

-----------------------------------------------------------------------------
(* The state *)

\* The two ends.
LEMMA EndFacts ==
    ASSUME NEW e \in Ends
    PROVE  /\ Peer(e) \in Ends /\ Peer(e) # e /\ Peer(Peer(e)) = e
           /\ \A f \in Ends : f = e \/ f = Peer(e)
  BY DEF Ends, Peer

\* The types of the state, at one end.
LEMMA StateFacts ==
    ASSUME AdspTypeOK, NEW e \in Ends
    PROVE  /\ conn[e] \in Connection /\ st[e] \in {"open", "closed", "dropped"}
           /\ rx[e] \in Seq(Nat) /\ eoms[e] \in Seq(Nat) /\ skipping[e] \in BOOLEAN
           /\ cable[e] \in Seq(Packet)
           /\ sent[e] \in Seq(Nat) /\ arrived[e] \in Seq(Nat) /\ got[e] \in Seq(Nat)
  <1>1. conn \in [Ends -> Connection]  BY DEF AdspTypeOK
  <1>2. st \in [Ends -> {"open", "closed", "dropped"}] /\ skipping \in [Ends -> BOOLEAN]  BY DEF AdspTypeOK
  <1>3. rx \in [Ends -> Seq(Nat)] /\ eoms \in [Ends -> Seq(Nat)]  BY DEF AdspTypeOK
  <1>4. cable \in [Ends -> Seq(Packet)]  BY DEF AdspTypeOK
  <1>5. sent \in [Ends -> Seq(Nat)] /\ arrived \in [Ends -> Seq(Nat)] /\ got \in [Ends -> Seq(Nat)]
    BY DEF AdspTypeOK
  <1>6. e \in Ends  OBVIOUS
  <1>. QED  BY ONLY <1>1, <1>2, <1>3, <1>4, <1>5, <1>6

\* The direction in which e sends, and the one in which it receives.
LEMMA BothWays ==
    ASSUME NEW e \in Ends, NEW d, d = Peer(e),
           Way(sent'[e], arrived'[d], conn'[e], st'[e], conn'[d], st'[d], cable'[d], cable'[e], lost'),
           Way(sent'[d], arrived'[e], conn'[d], st'[d], conn'[e], st'[e], cable'[e], cable'[d], lost')
    PROVE  Ways'
  <1>1. SUFFICES ASSUME NEW f \in Ends
                 PROVE  Way(sent'[f], arrived'[Peer(f)], conn'[f], st'[f], conn'[Peer(f)], st'[Peer(f)],
                            cable'[Peer(f)], cable'[f], lost')
    BY DEF Ways
  <1>2. d \in Ends /\ Peer(d) = e /\ (f = e \/ f = d)  BY EndFacts
  <1>3. CASE f = e  BY <1>3
  <1>4. CASE f = d  BY <1>2, <1>4
  <1>. QED  BY <1>2, <1>3, <1>4

\* The window that is advertised.
LEMMA WindowFacts ==
    ASSUME NEW held \in Nat
    PROVE  Window(held) \in 0..RX_WINDOW
  BY Constants DEF Window, Room

\* A sequence put after none.
LEMMA EmptyAfter ==
    ASSUME NEW S \in Seq(Nat)
    PROVE  S \o <<>> = S
  BY ConcatEmptySeq

\* What the endpoint of e hands over when it has heard nothing new.
LEMMA Delivers ==
    ASSUME AdspTypeOK, Ways, NEW e \in Ends, st[e] = "open", NEW d, d = Peer(e), NEW T \in Seq(Nat),
           NEW b, NEW s, Steps(sent[e] \o T, b, s), b.send_seq = conn[e].send_seq, b.recv_seq = conn[e].recv_seq,
           b.oldest_unacked_seq = conn[e].oldest_unacked_seq,
           Deliver(e, s), sent'[e] = sent[e] \o T, sent'[d] = sent[d], UNCHANGED <<st, arrived, lost>>
    PROVE  Ways' /\ conn' \in [Ends -> Connection] /\ cable' \in [Ends -> Seq(Packet)]
  <1>1. d \in Ends /\ d # e /\ Peer(d) = e  BY EndFacts
  <1>2. conn \in [Ends -> Connection] /\ cable \in [Ends -> Seq(Packet)]  BY DEF AdspTypeOK
  <1>3. s.c \in Connection /\ s.out \in Seq(Packet)  BY DEF Steps, Endpoint
  <1>4. /\ conn' = [conn EXCEPT ![e] = s.c]
        /\ cable' = [cable EXCEPT ![d] = @ \o s.out]
    BY DEF Deliver
  <1>5. cable[d] \o s.out \in Seq(Packet)
    <2>1. cable[d] \in Seq(Packet)  BY <1>1, <1>2
    <2>. QED  BY <1>3, <2>1, ConcatProperties
  <1>6. /\ conn' \in [Ends -> Connection] /\ cable' \in [Ends -> Seq(Packet)]
        /\ conn'[e] = s.c /\ conn'[d] = conn[d]
        /\ cable'[d] = cable[d] \o s.out /\ cable'[e] = cable[e]
    BY <1>1, <1>2, <1>3, <1>4, <1>5
  <1>7. PICK S, A, c, k, back, ahead : /\ S = sent[e] /\ A = arrived[d] /\ c = conn[e] /\ k = conn[d]
                                       /\ ahead = cable[d] /\ back = cable[e]
    OBVIOUS
  <1>8. PICK S2, A2 : S2 = sent[d] /\ A2 = arrived[e]  OBVIOUS
  <1>9. PICK se, sd : se = st[e] /\ sd = st[d]  OBVIOUS
  <1>10. /\ S \in Seq(Nat) /\ A \in Seq(Nat) /\ c \in Connection /\ k \in Connection
         /\ ahead \in Seq(Packet) /\ back \in Seq(Packet) /\ S2 \in Seq(Nat) /\ A2 \in Seq(Nat)
         /\ se = "open" /\ T \in Seq(Nat)
    BY <1>1, <1>7, <1>8, <1>9, StateFacts
  <1>11. Way(S, A, c, se, k, sd, ahead, back, lost)  BY <1>7, <1>9 DEF Ways
  <1>12. Way(S2, A2, k, sd, c, se, back, ahead, lost)  BY <1>1, <1>7, <1>8, <1>9 DEF Ways
  <1>13. Way(S \o T, A, s.c, se, k, sd, ahead \o s.out, back, lost)
    <2>1. Steps(S \o T, b, s) /\ b.send_seq = c.send_seq /\ Acked(A, back)
      BY <1>7, <1>11 DEF Way
    <2>2. b.oldest_unacked_seq \in 0..Len(A)
      <3>1. c.oldest_unacked_seq \in Nat  BY <1>10, ConnectionFacts
      <3>2. c.oldest_unacked_seq <= Len(A)  BY <1>10, <1>11 DEF Way, Sending
      <3>3. Len(A) \in Nat /\ b.oldest_unacked_seq = c.oldest_unacked_seq  BY <1>7, <1>10
      <3>. QED  BY ONLY <3>1, <3>2, <3>3
    <2>. QED  BY ONLY <1>10, <1>11, <2>1, <2>2, WaySends
  <1>14. Way(S2, A2, k, sd, s.c, se, back, ahead \o s.out, lost)
    <2>1. s.c.recv_seq = c.recv_seq /\ \A i \in 1..Len(s.out) : s.out[i].ack = c.recv_seq
      BY <1>7 DEF Steps
    <2>. QED  BY ONLY <1>3, <1>10, <1>12, <2>1, WayAnswers
  <1>15. sent'[e] = S \o T /\ sent'[d] = S2 /\ arrived' = arrived /\ st' = st /\ lost' = lost
    BY <1>7, <1>8
  <1>16. /\ Way(sent'[e], arrived'[d], conn'[e], st'[e], conn'[d], st'[d], cable'[d], cable'[e], lost')
         /\ Way(sent'[d], arrived'[e], conn'[d], st'[d], conn'[e], st'[e], cable'[e], cable'[d], lost')
    BY <1>6, <1>7, <1>8, <1>9, <1>13, <1>14, <1>15
  <1>. QED  BY <1>6, <1>16, BothWays

-----------------------------------------------------------------------------
(* Writes *)

\* The bytes that wait, as a set.
Waiting(ws) == UNION {{i} \X DOMAIN ws[i].data : i \in DOMAIN ws}

\* They are finitely many.
LEMMA WaitingFinite ==
    ASSUME NEW ws \in Seq(WriteType)
    PROVE  IsFiniteSet(Waiting(ws))
  <1> DEFINE D == DOMAIN ws
             P == {{i} \X DOMAIN ws[i].data : i \in D}
             f == [i \in D |-> {i} \X DOMAIN ws[i].data]
  <1>1. Len(ws) \in Nat /\ D = 1..Len(ws)  OBVIOUS
  <1>2. IsFiniteSet(D)  BY <1>1, FS_Interval
  <1>3. f \in Surjection(D, P)  BY DEF Surjection
  <1>4. IsFiniteSet(P)  BY <1>2, <1>3, FS_Surjection
  <1>5. ASSUME NEW B \in P PROVE IsFiniteSet(B)
    <2>1. PICK i \in D : B = {i} \X DOMAIN ws[i].data  OBVIOUS
    <2>2. ws[i].data \in Seq(Nat)
      <3>1. ws[i] \in WriteType  BY <1>1, ElementOfSeq
      <3>. QED  BY <3>1 DEF WriteType
    <2>3. PICK data \in Seq(Nat) : data = ws[i].data  BY <2>2
    <2>4. Len(data) \in Nat /\ DOMAIN data = 1..Len(data)  OBVIOUS
    <2>5. IsFiniteSet(DOMAIN data)  BY <2>4, FS_Interval
    <2>6. IsFiniteSet({i})  BY FS_Singleton
    <2>7. IsFiniteSet({i} \X DOMAIN data)  BY ONLY <2>5, <2>6, FS_Product
    <2>. QED  BY <2>1, <2>3, <2>7
  <1>. QED  BY <1>4, <1>5, FS_UNION DEF Waiting

\* tx_backlog is none when nothing is held toward the peer.
LEMMA BacklogFacts ==
    ASSUME NEW c \in Connection
    PROVE  /\ TxBacklog(c) \in Nat
           /\ TxBacklog(c) = 0 => /\ Len(c.flight_buffer) = 0
                                  /\ \A k \in 1..Len(c.pending_writes) : Len(c.pending_writes[k].data) = 0
  <1>1. PICK ws, l, W, n : /\ ws = c.pending_writes /\ l = Len(c.flight_buffer)
                           /\ W = Waiting(ws) /\ n = Cardinality(W)
    OBVIOUS
  <1>2. ws \in Seq(WriteType) /\ l \in Nat  BY <1>1, ConnectionFacts
  <1>3. IsFiniteSet(W)  BY <1>1, <1>2, WaitingFinite
  <1>4. n \in Nat  BY <1>1, <1>3, FS_CardinalityType
  <1>5. TxBacklog(c) = l + n  BY <1>1 DEF TxBacklog, Waiting
  <1>6. ASSUME TxBacklog(c) = 0 PROVE l = 0 /\ n = 0
    <2>1. l + n = 0  BY <1>5, <1>6
    <2>. QED  BY ONLY <1>2, <1>4, <2>1
  <1>7. ASSUME n = 0, NEW k \in 1..Len(ws) PROVE Len(ws[k].data) = 0
    <2>1. W = {}  BY <1>1, <1>3, <1>7, FS_EmptySet
    <2>2. PICK data \in Seq(Nat) : data = ws[k].data
      <3>1. ws[k] \in WriteType  BY <1>2, <1>7, ElementOfSeq
      <3>. QED  BY <3>1 DEF WriteType
    <2>3. k \in DOMAIN ws  BY <1>2, <1>7
    <2>4. \A j : j \notin DOMAIN data
      <3>1. SUFFICES ASSUME NEW j \in DOMAIN data PROVE FALSE  OBVIOUS
      <3>2. <<k, j>> \in Waiting(ws)  BY <2>2, <2>3 DEF Waiting
      <3>. QED  BY <1>1, <2>1, <3>2
    <2>5. Len(data) \in Nat /\ DOMAIN data = 1..Len(data)  OBVIOUS
    <2>6. 1 \notin 1..Len(data)  BY <2>4, <2>5
    <2>7. Len(data) = 0  BY <2>5, <2>6
    <2>. QED  BY <2>2, <2>7
  <1>. QED  BY <1>1, <1>2, <1>4, <1>5, <1>6, <1>7

\* A write waits at the end of the stream.
LEMMA SenderWrites ==
    ASSUME NEW S \in Seq(Nat), NEW c \in Connection, Sender(S, c), NEW w \in WriteType,
           NEW b, b = Cut(c, c.flight_buffer, c.send_seq, Append(c.pending_writes, w))
    PROVE  /\ b \in Connection /\ Sender(S \o Marked(w.data, w.eom), b)
           /\ b.send_seq = c.send_seq /\ b.recv_seq = c.recv_seq /\ b.oldest_unacked_seq = c.oldest_unacked_seq
  <1>1. PICK F, x, W, ws, o : /\ F = c.flight_buffer /\ x = c.send_seq /\ ws = c.pending_writes
                              /\ W = Append(ws, w) /\ o = c.oldest_unacked_seq
    OBVIOUS
  <1>2. F \in Seq(Nat) /\ x \in Nat /\ ws \in Seq(WriteType) /\ o \in Nat  BY <1>1, ConnectionFacts
  <1>3. W \in Seq(WriteType)  BY <1>1, <1>2, AppendProperties
  <1>4. /\ b \in Connection /\ b.flight_buffer = F /\ b.send_seq = x /\ b.pending_writes = W
        /\ b.recv_seq = c.recv_seq /\ b.oldest_unacked_seq = o
    <2>1. b = Cut(c, F, x, W) /\ c \in Connection /\ W \in Seq(WriteType)  BY <1>1, <1>3
    <2>2. F \in Seq(Nat) /\ x \in Nat  BY <1>2
    <2>3. /\ b \in Connection /\ b.flight_buffer = F /\ b.send_seq = x /\ b.pending_writes = W
          /\ b.recv_seq = c.recv_seq /\ b.oldest_unacked_seq = c.oldest_unacked_seq
      BY ONLY <2>1, <2>2, ConnectionCut
    <2>. QED  BY <1>1, <2>3
  <1>5. w.data \in Seq(Nat) /\ w.eom \in BOOLEAN  BY DEF WriteType
  <1>6. PICK M, T : M = Marked(w.data, w.eom) /\ T = S \o M  OBVIOUS
  <1>7. M \in Seq(Nat)
    <2>1. MARK \in Nat  BY DEF MARK
    <2>2. <<MARK>> \in Seq(Nat) /\ <<>> \in Seq(Nat)  BY <2>1
    <2>. QED  BY <1>5, <1>6, <2>2, ConcatProperties DEF Marked
  <1>8. T \in Seq(Nat) /\ Len(S) <= Len(T)  BY <1>6, <1>7, LongerKeeps, ConcatProperties
  <1>9. Laid(T, x, W)
    <2>1. Laid(S, x, ws)  BY <1>1 DEF Sender
    <2>2. Laid(S \o Marked(w.data, w.eom), x, Append(ws, w))  BY <1>2, <2>1, LaidLast
    <2>. QED  BY <1>1, <1>6, <2>2
  <1>10. x <= Len(T)
    <2>1. x <= Len(S)  BY <1>1 DEF Sender
    <2>2. Len(S) \in Nat /\ Len(T) \in Nat  BY <1>8
    <2>. QED  BY ONLY <1>2, <1>8, <2>1, <2>2
  <1>11. o + Len(F) <= x  BY <1>1 DEF Sender
  <1>12. ASSUME NoMarks(T) PROVE o + Len(F) = x /\ At(T, o, F, FALSE)
    <2>1. NoMarks(S)  BY <1>6, <1>7, <1>12, NoMarksLess
    <2>2. PICK no \in BOOLEAN : no = FALSE  OBVIOUS
    <2>3. o + Len(F) = x /\ At(S, o, F, no)  BY <1>1, <2>1, <2>2 DEF Sender
    <2>4. At(S \o M, o, F, no)  BY <1>2, <1>7, <2>3, AtMore
    <2>. QED  BY <1>6, <2>2, <2>3, <2>4
  <1>13. Sender(T, b)  BY <1>4, <1>9, <1>10, <1>11, <1>12 DEF Sender
  <1>. QED  BY <1>1, <1>4, <1>6, <1>13

\* A stretch and its mark are numbers.
LEMMA MarkedType ==
    ASSUME NEW data \in Seq(Nat), NEW eom \in BOOLEAN
    PROVE  Marked(data, eom) \in Seq(Nat)
  <1>1. MARK \in Nat  BY DEF MARK
  <1>2. <<MARK>> \in Seq(Nat) /\ <<>> \in Seq(Nat)  BY <1>1
  <1>. QED  BY <1>2, ConcatProperties DEF Marked

\* The bytes written are counted.
LEMMA WrittenFacts ==
    ASSUME AdspTypeOK, NEW e \in Ends
    PROVE  Written(e) \in Nat
  <1>1. PICK S \in Seq(Nat) : S = sent[e]  BY StateFacts
  <1>2. Len(S) \in Nat /\ DOMAIN S = 1..Len(S)  OBVIOUS
  <1>3. IsFiniteSet(DOMAIN S)  BY <1>2, FS_Interval
  <1>4. {i \in DOMAIN S : S[i] # MARK} \in SUBSET DOMAIN S  OBVIOUS
  <1>5. IsFiniteSet({i \in DOMAIN S : S[i] # MARK})  BY ONLY <1>3, <1>4, FS_Subset
  <1>. QED  BY <1>1, <1>5, FS_CardinalityType DEF Written

\* What readers see is left alone.
LEMMA ReadersSame ==
    ASSUME Readers, UNCHANGED <<arrived, got, rx, eoms, skipping, st>>
    PROVE  Readers'
  BY DEF Readers

\* write_chunk, write_message and write_eom keep the invariant.
LEMMA WriteKeeps ==
    ASSUME AdspIInv, NEW e \in Ends, NEW len \in Nat, NEW eom_at_end \in BOOLEAN, Write(e, len, eom_at_end)
    PROVE  AdspIInv'
  <1>1. AdspTypeOK /\ Ways /\ Readers  BY DEF AdspIInv
  <1> DEFINE n1 == Least(len, Room(TX_BUFFER, TxBacklog(conn[e])))
             eom1 == eom_at_end /\ n1 = len
             data1 == [i \in 1..n1 |-> Written(e) + i]
             w1 == [data |-> data1, eom |-> eom1]
             c1 == [conn[e] EXCEPT !.pending_writes = Append(@, w1)]
  <1>2. PICK c, d, S : c = conn[e] /\ d = Peer(e) /\ S = sent[e]  OBVIOUS
  <1>3. c \in Connection /\ S \in Seq(Nat) /\ d \in Ends /\ d # e  BY <1>1, <1>2, EndFacts, StateFacts
  <1>4. n1 \in Nat
    <2>1. TxBacklog(conn[e]) \in Nat /\ TX_BUFFER \in Nat  BY <1>2, <1>3, BacklogFacts, Constants
    <2>. QED  BY <2>1 DEF Room, Least
  <1>5. data1 \in Seq(Nat)
    <2>1. Written(e) \in Nat  BY <1>1, WrittenFacts
    <2>. QED  BY <1>4, <2>1
  <1>6. eom1 \in BOOLEAN  OBVIOUS
  <1>7. w1 \in WriteType /\ w1.data = data1 /\ w1.eom = eom1  BY <1>5, <1>6 DEF WriteType
  <1>8. /\ st[e] = "open"
        /\ Deliver(e, Pump([c |-> c1, out |-> <<>>]))
        /\ sent' = [sent EXCEPT ![e] = @ \o Marked(data1, eom1)]
        /\ UNCHANGED <<st, rx, eoms, skipping, arrived, got, lost>>
    BY DEF Write
  <1>9. PICK w, T : w = w1 /\ T = Marked(data1, eom1)  OBVIOUS
  <1>10. T \in Seq(Nat)  BY <1>5, <1>6, <1>9, MarkedType
  <1>11. w \in WriteType /\ T = Marked(w.data, w.eom)  BY <1>7, <1>9
  <1>12. Sender(S, c)  BY <1>1, <1>2, <1>8 DEF Ways, Way, Sending
  <1>13. PICK b, s0, s : /\ b = Cut(c, c.flight_buffer, c.send_seq, Append(c.pending_writes, w))
                         /\ s0 = [c |-> b, out |-> <<>>] /\ s = Pump(s0)
    OBVIOUS
  <1>14. c1 = b
    <2>1. b = [c EXCEPT !.flight_buffer = c.flight_buffer, !.send_seq = c.send_seq,
                        !.pending_writes = Append(c.pending_writes, w)]
      BY <1>13 DEF Cut
    <2>2. c1 = [c EXCEPT !.pending_writes = Append(c.pending_writes, w)]  BY <1>2, <1>9
    <2>. QED  BY <1>3, <2>1, <2>2 DEF Connection
  <1>15. Deliver(e, s)  BY <1>8, <1>13, <1>14
  <1> HIDE DEF n1, eom1, data1, w1, c1
  <1>16. PICK R : R = S \o T  OBVIOUS
  <1>17. R \in Seq(Nat)  BY <1>3, <1>10, <1>16, ConcatProperties
  <1>18. /\ b \in Connection /\ Sender(R, b)
         /\ b.send_seq = c.send_seq /\ b.recv_seq = c.recv_seq /\ b.oldest_unacked_seq = c.oldest_unacked_seq
    <2>1. b = Cut(c, c.flight_buffer, c.send_seq, Append(c.pending_writes, w))  BY <1>13
    <2>2. /\ b \in Connection /\ Sender(S \o Marked(w.data, w.eom), b)
          /\ b.send_seq = c.send_seq /\ b.recv_seq = c.recv_seq /\ b.oldest_unacked_seq = c.oldest_unacked_seq
      BY ONLY <1>3, <1>11, <1>12, <2>1, SenderWrites
    <2>. QED  BY <1>11, <1>16, <2>2
  <1>19. Steps(R, b, s)
    <2>1. s0 = [c |-> b, out |-> <<>>]  BY <1>13
    <2>2. b \in Connection /\ Sender(R, b)  BY <1>18
    <2>3. Steps(R, b, s0)  BY ONLY <1>17, <2>1, <2>2, StepsNone
    <2>4. Steps(R, b, Pump(s0))  BY ONLY <1>17, <2>3, PumpSteps
    <2>. QED  BY <1>13, <2>4
  <1>20. sent \in [Ends -> Seq(Nat)]  BY <1>1 DEF AdspTypeOK
  <1>21. sent' = [sent EXCEPT ![e] = R]  BY <1>2, <1>8, <1>9, <1>16
  <1>22. sent'[e] = R /\ sent'[d] = sent[d] /\ sent' \in [Ends -> Seq(Nat)]  BY <1>3, <1>17, <1>20, <1>21
  <1>23. Ways' /\ conn' \in [Ends -> Connection] /\ cable' \in [Ends -> Seq(Packet)]
    <2>1. /\ AdspTypeOK /\ Ways /\ e \in Ends /\ st[e] = "open" /\ d = Peer(e) /\ T \in Seq(Nat)
          /\ Deliver(e, s) /\ sent'[d] = sent[d] /\ UNCHANGED <<st, arrived, lost>>
      BY <1>1, <1>2, <1>8, <1>10, <1>15, <1>22
    <2>2. sent'[e] = sent[e] \o T /\ Steps(sent[e] \o T, b, s)  BY <1>2, <1>16, <1>19, <1>22
    <2>3. /\ b.send_seq = conn[e].send_seq /\ b.recv_seq = conn[e].recv_seq
          /\ b.oldest_unacked_seq = conn[e].oldest_unacked_seq
      BY <1>2, <1>18
    <2>. QED  BY ONLY <2>1, <2>2, <2>3, Delivers
  <1>24. Readers'
    <2>1. UNCHANGED <<arrived, got, rx, eoms, skipping, st>>  BY <1>8
    <2>. QED  BY ONLY <1>1, <2>1, ReadersSame
  <1>25. AdspTypeOK'
    <2>1. UNCHANGED <<st, rx, eoms, skipping, arrived, got, lost>>  BY <1>8
    <2>. QED  BY ONLY <1>1, <1>22, <1>23, <2>1 DEF AdspTypeOK
  <1>. QED  BY <1>23, <1>24, <1>25 DEF AdspIInv

-----------------------------------------------------------------------------
(* Reads *)

\* A step that touches neither stream keeps both directions.
LEMMA WaysSame ==
    ASSUME Ways, UNCHANGED <<conn, st, cable, sent, arrived, lost>>
    PROVE  Ways'
  BY DEF Ways

\* reopen_window keeps both directions.
LEMMA Reopens ==
    ASSUME AdspTypeOK, Ways, NEW e \in Ends, NEW held \in Nat, ReopenWindow(e, held),
           UNCHANGED <<st, sent, arrived, lost>>
    PROVE  Ways' /\ conn' \in [Ends -> Connection] /\ cable' \in [Ends -> Seq(Packet)]
  <1>1. CASE st[e] = "open"
    <2>1. PICK c, d, S, w : c = conn[e] /\ d = Peer(e) /\ S = sent[e] /\ w = Window(held)  OBVIOUS
    <2>2. c \in Connection /\ S \in Seq(Nat) /\ d \in Ends /\ w \in 0..RX_WINDOW
      BY <2>1, EndFacts, StateFacts, WindowFacts
    <2>3. Sender(S, c)  BY <1>1, <2>1 DEF Ways, Way, Sending
    <2>4. PICK s0, s : s0 = [c |-> c, out |-> <<>>] /\ s = SetRecvWindow(s0, w)  OBVIOUS
    <2>5. Deliver(e, s)  BY <1>1, <2>1, <2>4 DEF ReopenWindow
    <2>6. Steps(S, c, s)
      <3>1. s0 = [c |-> c, out |-> <<>>]  BY <2>4
      <3>2. Steps(S, c, s0)  BY ONLY <2>2, <2>3, <3>1, StepsNone
      <3>3. Steps(S, c, SetRecvWindow(s0, w))  BY ONLY <2>2, <3>2, SetRecvWindowSteps
      <3>. QED  BY <2>4, <3>3
    <2>7. PICK T \in Seq(Nat) : T = <<>>
      <3>1. <<>> \in Seq(Nat)  OBVIOUS
      <3>. QED  BY <3>1
    <2>8. S \o T = S  BY <2>2, <2>7, EmptyAfter
    <2>9. sent'[e] = S \o T /\ sent'[d] = sent[d]  BY <2>1, <2>8
    <2>10. /\ AdspTypeOK /\ Ways /\ e \in Ends /\ st[e] = "open" /\ d = Peer(e) /\ T \in Seq(Nat)
           /\ Deliver(e, s) /\ sent'[d] = sent[d] /\ UNCHANGED <<st, arrived, lost>>
      BY <1>1, <2>1, <2>5, <2>9
    <2>11. sent'[e] = sent[e] \o T /\ Steps(sent[e] \o T, c, s)  BY <2>1, <2>6, <2>8, <2>9
    <2>12. /\ c.send_seq = conn[e].send_seq /\ c.recv_seq = conn[e].recv_seq
           /\ c.oldest_unacked_seq = conn[e].oldest_unacked_seq
      BY <2>1
    <2>. QED  BY ONLY <2>10, <2>11, <2>12, Delivers
  <1>2. CASE st[e] # "open"
    <2>1. UNCHANGED <<conn, cable>>  BY <1>2 DEF ReopenWindow
    <2>2. Ways'  BY <2>1, WaysSame
    <2>. QED  BY <2>1, <2>2 DEF AdspTypeOK
  <1>. QED  BY <1>1, <1>2

\* What a reader at end e sees.
Reader(e) ==
    IF e \in MessageReaders
    THEN MessageReader(arrived[e], got[e], rx[e], eoms[e], skipping[e], st[e])
    ELSE ByteReader(arrived[e], got[e], rx[e], eoms[e], skipping[e], st[e])

\* Only the reader at end e sees a difference.
LEMMA OtherReaders ==
    ASSUME Readers, NEW e \in Ends, Reader(e)',
           \A f \in Ends \ {e} : /\ arrived'[f] = arrived[f] /\ got'[f] = got[f] /\ rx'[f] = rx[f]
                                 /\ eoms'[f] = eoms[f] /\ skipping'[f] = skipping[f] /\ st'[f] = st[f]
    PROVE  Readers'
  <1>1. SUFFICES ASSUME NEW f \in Ends PROVE Reader(f)'  BY DEF Readers, Reader
  <1>2. CASE f = e  BY <1>2
  <1>3. CASE f # e
    <2>1. Reader(f)  BY DEF Readers, Reader
    <2>2. /\ arrived'[f] = arrived[f] /\ got'[f] = got[f] /\ rx'[f] = rx[f]
          /\ eoms'[f] = eoms[f] /\ skipping'[f] = skipping[f] /\ st'[f] = st[f]
      BY <1>3
    <2>. QED  BY ONLY <2>1, <2>2 DEF Reader
  <1>. QED  BY <1>2, <1>3

\* read_with_eom keeps the invariant.
LEMMA ReadKeeps ==
    ASSUME AdspIInv, NEW e \in Ends, e \notin MessageReaders, NEW size \in Nat, Read(e, size)
    PROVE  AdspIInv'
  <1>1. AdspTypeOK /\ Ways /\ Readers  BY DEF AdspIInv
  <1> DEFINE to_end == IF eoms[e] = <<>> THEN Len(rx[e]) ELSE Head(eoms[e])
             n1 == Least(size, to_end)
             ends1 == EndsAfter(eoms[e], n1)
             eom1 == ends1 # <<>> /\ Head(ends1) = 0
             rest1 == SubSeq(rx[e], n1 + 1, Len(rx[e]))
  <1>2. PICK A, G, r, es, g : A = arrived[e] /\ G = got[e] /\ r = rx[e] /\ es = eoms[e] /\ g = Len(G)
    OBVIOUS
  <1>3. A \in Seq(Nat) /\ G \in Seq(Nat) /\ r \in Seq(Nat) /\ es \in Seq(Nat)  BY <1>1, <1>2, StateFacts
  <1>4. g \in Nat /\ Len(r) \in Nat  BY <1>2, <1>3
  <1>5. /\ st[e] # "dropped"
        /\ rx' = [rx EXCEPT ![e] = rest1]
        /\ eoms' = [eoms EXCEPT ![e] = IF eom1 THEN Tail(ends1) ELSE ends1]
        /\ got' = [got EXCEPT ![e] = @ \o Marked(SubSeq(rx[e], 1, n1), eom1)]
        /\ ReopenWindow(e, Len(rest1))
        /\ UNCHANGED <<st, skipping, sent, arrived, lost>>
    BY DEF Read
  <1>6. ~skipping[e] /\ IsPrefix(G, A) /\ Held(A, g, r, es)
    <2>1. ByteReader(arrived[e], got[e], rx[e], eoms[e], skipping[e], st[e])  BY <1>1 DEF Readers
    <2>. QED  BY <1>2, <1>5, <2>1 DEF ByteReader
  <1>7. n1 \in 0..Len(r) /\ (es # <<>> => n1 <= es[1])
    <2>1. CASE es = <<>>
      <3>1. to_end = Len(r)  BY <1>2, <2>1
      <3>. QED  BY <1>4, <2>1, <3>1 DEF Least
    <2>2. CASE es # <<>>
      <3>1. Len(es) \in Nat /\ 1 \in 1..Len(es) /\ Head(es) = es[1]  BY <1>3, <2>2
      <3>2. es[1] \in Nat /\ es[1] <= Len(r)  BY <1>3, <1>6, <3>1, ElementOfSeq DEF Held
      <3>3. to_end = es[1]  BY <1>2, <2>2, <3>1
      <3>. QED  BY <1>4, <3>2, <3>3 DEF Least
    <2>. QED  BY <2>1, <2>2
  <1>8. PICK n, ends, eom, es2, data, rest : /\ n = n1 /\ ends = ends1 /\ eom = eom1
                                             /\ es2 = (IF eom1 THEN Tail(ends1) ELSE ends1)
                                             /\ data = SubSeq(r, 1, n1) /\ rest = rest1
    OBVIOUS
  <1>9. /\ eom \in BOOLEAN /\ n \in 0..Len(r) /\ (es # <<>> => n <= es[1])
        /\ ends = EndsAfter(es, n) /\ (eom <=> EndsHere(ends))
        /\ es2 = EndsLeft(ends)
        /\ data = SubSeq(r, 1, n) /\ rest = SubSeq(r, n + 1, Len(r))
    BY <1>2, <1>7, <1>8 DEF EndsHere, EndsLeft
  <1>10. /\ rx' = [rx EXCEPT ![e] = rest] /\ eoms' = [eoms EXCEPT ![e] = es2]
         /\ got' = [got EXCEPT ![e] = G \o Marked(data, eom)]
         /\ ReopenWindow(e, Len(rest))
    BY <1>2, <1>5, <1>8
  <1> HIDE DEF to_end, n1, ends1, eom1, rest1
  <1>11. /\ data \in Seq(Nat) /\ Len(data) = n /\ rest \in Seq(Nat) /\ es2 \in Seq(Nat)
         /\ At(A, g, data, eom)
         /\ Held(A, g + n + Bit(eom), rest, es2)
    <2>1. n \in 0..Len(r) /\ (es # <<>> => n <= es[1])  BY <1>9
    <2>2. /\ SubSeq(r, 1, n) \in Seq(Nat) /\ Len(SubSeq(r, 1, n)) = n
          /\ SubSeq(r, n + 1, Len(r)) \in Seq(Nat) /\ EndsLeft(EndsAfter(es, n)) \in Seq(Nat)
          /\ At(A, g, SubSeq(r, 1, n), EndsHere(EndsAfter(es, n)))
          /\ Held(A, g + n + Bit(EndsHere(EndsAfter(es, n))), SubSeq(r, n + 1, Len(r)),
                  EndsLeft(EndsAfter(es, n)))
      BY ONLY <1>3, <1>4, <1>6, <2>1, HeldRead
    <2>3. eom = EndsHere(EndsAfter(es, n))  BY <1>9 DEF EndsHere
    <2>. QED  BY <1>9, <2>2, <2>3
  <1>12. PICK H : H = G \o Marked(data, eom)  OBVIOUS
  <1>13. IsPrefix(H, A)
    <2>1. At(A, Len(G), data, eom) /\ IsPrefix(G, A) /\ eom \in BOOLEAN /\ data \in Seq(Nat)
      BY <1>2, <1>6, <1>9, <1>11
    <2>2. IsPrefix(G \o Marked(data, eom), A)  BY ONLY <1>3, <2>1, PrefixNext
    <2>. QED  BY <1>12, <2>2
  <1>14. H \in Seq(Nat) /\ Len(H) = g + n + Bit(eom)
    <2>1. G \in Seq(Nat) /\ data \in Seq(Nat) /\ eom \in BOOLEAN  BY <1>3, <1>9, <1>11
    <2>2. G \o Marked(data, eom) \in Seq(Nat) /\ Len(G \o Marked(data, eom)) = Len(G) + Len(data) + Bit(eom)
      BY ONLY <2>1, AtEnd
    <2>. QED  BY <1>2, <1>11, <1>12, <2>2
  <1>15. Held(A, Len(H), rest, es2)  BY <1>11, <1>14
  <1>16. /\ rx \in [Ends -> Seq(Nat)] /\ eoms \in [Ends -> Seq(Nat)] /\ got \in [Ends -> Seq(Nat)]
    BY <1>1 DEF AdspTypeOK
  <1>17. /\ rx' \in [Ends -> Seq(Nat)] /\ eoms' \in [Ends -> Seq(Nat)] /\ got' \in [Ends -> Seq(Nat)]
         /\ rx'[e] = rest /\ eoms'[e] = es2 /\ got'[e] = H
         /\ \A f \in Ends \ {e} : got'[f] = got[f] /\ rx'[f] = rx[f] /\ eoms'[f] = eoms[f]
    BY <1>10, <1>11, <1>12, <1>14, <1>16
  <1>18. Readers'
    <2>1. Reader(e)'
      <3>1. ByteReader(arrived'[e], got'[e], rx'[e], eoms'[e], skipping'[e], st'[e])
        BY <1>2, <1>5, <1>6, <1>13, <1>15, <1>17 DEF ByteReader
      <3>. QED  BY <3>1 DEF Reader
    <2>. QED  BY <1>1, <1>5, <1>17, <2>1, OtherReaders
  <1>19. Ways' /\ conn' \in [Ends -> Connection] /\ cable' \in [Ends -> Seq(Packet)]
    <2>1. AdspTypeOK /\ Ways /\ ReopenWindow(e, Len(rest)) /\ Len(rest) \in Nat
          /\ e \in Ends /\ UNCHANGED <<st, sent, arrived, lost>>
      BY <1>1, <1>5, <1>10, <1>11
    <2>. QED  BY ONLY <2>1, Reopens
  <1>20. AdspTypeOK'
    <2>1. UNCHANGED <<st, skipping, sent, arrived, lost>>  BY <1>5
    <2>. QED  BY ONLY <1>1, <1>17, <1>19, <2>1 DEF AdspTypeOK
  <1>. QED  BY <1>18, <1>19, <1>20 DEF AdspIInv

\* Once the first end is reached it is left out.
LEMMA EndsTail ==
    ASSUME NEW es \in Seq(Nat), es # <<>>, NEW end, end = Head(es)
    PROVE  /\ EndsHere(EndsAfter(es, end))
           /\ EndsLeft(EndsAfter(es, end)) = EndsAfter(Tail(es), end)
  <1>1. Len(es) \in Nat /\ Len(es) # 0 /\ end = es[1] /\ DOMAIN es = 1..Len(es)  OBVIOUS
  <1>2. \A i \in 1..Len(es) : es[i] \in Nat  BY ElementOfSeq
  <1>3. end \in Nat  BY <1>1, <1>2
  <1>4. PICK E : E = [i \in 1..Len(es) |-> es[i] - end]  OBVIOUS
  <1>5. E \in Seq(Int) /\ Len(E) = Len(es) /\ \A i \in 1..Len(es) : E[i] = es[i] - end  BY <1>1, <1>2, <1>3, <1>4
  <1>6. EndsAfter(es, end) = E  BY <1>1, <1>4 DEF EndsAfter
  <1>7. E # <<>> /\ Head(E) = 0
    <2>1. E # <<>> /\ Head(E) = E[1]  BY <1>1, <1>5
    <2>2. E[1] = 0  BY <1>1, <1>3, <1>5
    <2>. QED  BY <2>1, <2>2
  <1>8. EndsHere(E)  BY <1>7 DEF EndsHere
  <1>9. Tail(E) = EndsAfter(Tail(es), end)
    <2>1. PICK V : V = Tail(es)  OBVIOUS
    <2>2. V \in Seq(Nat) /\ Len(V) = Len(es) - 1 /\ \A i \in 1..Len(es) - 1 : V[i] = es[i + 1]
      BY <1>1, <2>1, HeadTailProperties
    <2>3. Len(V) \in Nat /\ DOMAIN V = 1..Len(V) /\ \A i \in 1..Len(V) : V[i] \in Nat  BY <2>2, ElementOfSeq
    <2>4. PICK Y : Y = [i \in 1..Len(V) |-> V[i] - end]  OBVIOUS
    <2>5. Y \in Seq(Int) /\ Len(Y) = Len(V) /\ \A i \in 1..Len(V) : Y[i] = V[i] - end  BY <1>3, <2>3, <2>4
    <2>6. Tail(E) \in Seq(Int) /\ Len(Tail(E)) = Len(es) - 1 /\ \A i \in 1..Len(es) - 1 : Tail(E)[i] = E[i + 1]
      BY <1>1, <1>5, <1>7, HeadTailProperties
    <2>7. \A i \in 1..Len(V) : Tail(E)[i] = Y[i]
      <3>1. TAKE i \in 1..Len(V)
      <3>2. i \in 1..Len(es) - 1 /\ i + 1 \in 1..Len(es)  BY <1>1, <2>2
      <3>. QED  BY <1>5, <2>2, <2>5, <2>6, <3>2
    <2>8. Tail(E) = Y  BY <2>2, <2>5, <2>6, <2>7, SeqEqual
    <2>. QED  BY <2>1, <2>3, <2>4, <2>8 DEF EndsAfter
  <1>. QED  BY <1>6, <1>8, <1>9 DEF EndsLeft

\* read_message with a message waiting keeps the invariant,
LEMMA ReadMessageKeeps ==
    ASSUME AdspIInv, NEW e \in Ends, e \in MessageReaders, NEW size, ReadMessage(e, size)
    PROVE  AdspIInv'
  <1>1. AdspTypeOK /\ Ways /\ Readers  BY DEF AdspIInv
  <1>2. PICK A, G, r, es, end, rest, es2 :
            /\ A = arrived[e] /\ G = got[e] /\ r = rx[e] /\ es = eoms[e] /\ end = Head(es)
            /\ rest = SubSeq(r, end + 1, Len(r)) /\ es2 = EndsAfter(Tail(es), end)
    OBVIOUS
  <1>3. A \in Seq(Nat) /\ G \in Seq(Nat) /\ r \in Seq(Nat) /\ es \in Seq(Nat)  BY <1>1, <1>2, StateFacts
  <1>4. /\ st[e] # "dropped" /\ es # <<>>
        /\ rx' = [rx EXCEPT ![e] = rest] /\ eoms' = [eoms EXCEPT ![e] = es2]
        /\ got' = [got EXCEPT ![e] = IF end > size THEN G ELSE G \o Marked(SubSeq(r, 1, end), TRUE)]
        /\ ReopenWindow(e, Len(rest))
        /\ UNCHANGED <<st, skipping, sent, arrived, lost>>
    BY <1>2 DEF ReadMessage
  <1>5. MessageReader(arrived[e], got[e], rx[e], eoms[e], skipping[e], st[e])  BY <1>1 DEF Readers
  <1>6. Whole(G, A) /\ Between(G, Len(G))  BY <1>2, <1>5 DEF MessageReader
  <1>7. ~skipping[e]  BY <1>2, <1>4, <1>5 DEF MessageReader
  <1>8. PICK g \in 0..Len(A) : Between(A, g) /\ Held(A, g, r, es)  BY <1>2, <1>4, <1>5, <1>7 DEF MessageReader
  <1>9. Len(es) \in Nat /\ 1 \in 1..Len(es) /\ end = es[1]
    <2>1. es \in Seq(Nat) /\ es # <<>> /\ end = Head(es)  BY <1>2, <1>3, <1>4
    <2>. QED  BY ONLY <2>1
  <1>10. end \in 0..Len(r) /\ end <= es[1]
    <2>1. es[1] \in Nat /\ es[1] <= Len(r)  BY <1>3, <1>8, <1>9, ElementOfSeq DEF Held
    <2>2. Len(r) \in Nat  BY <1>3
    <2>. QED  BY ONLY <1>9, <2>1, <2>2
  <1>11. PICK data, eom : data = SubSeq(r, 1, end) /\ eom = EndsHere(EndsAfter(es, end))  OBVIOUS
  <1>12. eom \in BOOLEAN /\ eom  BY <1>2, <1>3, <1>4, <1>11, EndsTail
  <1>13. es2 = EndsLeft(EndsAfter(es, end))  BY <1>2, <1>3, <1>4, EndsTail
  <1>14. g \in Nat /\ Len(A) \in Nat  BY <1>3, <1>8
  <1>15. /\ data \in Seq(Nat) /\ Len(data) = end /\ rest \in Seq(Nat) /\ es2 \in Seq(Nat)
         /\ At(A, g, data, eom) /\ Held(A, g + end + Bit(eom), rest, es2)
    <2>1. Held(A, g, r, es) /\ end \in 0..Len(r) /\ (es # <<>> => end <= es[1])  BY <1>8, <1>10
    <2>2. /\ SubSeq(r, 1, end) \in Seq(Nat) /\ Len(SubSeq(r, 1, end)) = end
          /\ SubSeq(r, end + 1, Len(r)) \in Seq(Nat) /\ EndsLeft(EndsAfter(es, end)) \in Seq(Nat)
          /\ At(A, g, SubSeq(r, 1, end), EndsHere(EndsAfter(es, end)))
          /\ Held(A, g + end + Bit(EndsHere(EndsAfter(es, end))), SubSeq(r, end + 1, Len(r)),
                  EndsLeft(EndsAfter(es, end)))
      BY ONLY <1>3, <1>14, <2>1, HeldRead
    <2>. QED  BY <1>2, <1>11, <1>13, <2>2
  <1>16. PICK h : h = g + end + 1  OBVIOUS
  <1>17. Bit(eom) = 1  BY <1>12 DEF Bit
  <1>18. h \in 0..Len(A) /\ Between(A, h) /\ Held(A, h, rest, es2)
    <2>1. end \in Nat  BY <1>10
    <2>2. g + Len(data) + Bit(eom) <= Len(A) /\ A[g + Len(data) + 1] = MARK  BY <1>12, <1>15 DEF At
    <2>3. g + Len(data) + Bit(eom) = h /\ g + Len(data) + 1 = h /\ g + end + Bit(eom) = h
      BY <1>15, <1>16, <1>17
    <2>4. h <= Len(A) /\ A[h] = MARK  BY <2>2, <2>3
    <2>5. h \in 1..Len(A) /\ h \in 0..Len(A)  BY ONLY <1>14, <1>16, <2>1, <2>4
    <2>. QED  BY <1>15, <2>3, <2>4, <2>5 DEF Between
  <1>19. PICK G2 : G2 = IF end > size THEN G ELSE G \o Marked(data, TRUE)  OBVIOUS
  <1>20. G2 \in Seq(Nat) /\ Whole(G2, A) /\ Between(G2, Len(G2))
    <2>1. CASE end > size  BY <1>3, <1>6, <1>19, <2>1
    <2>2. CASE ~(end > size)
      <3>1. G2 = G \o Marked(data, eom)  BY <1>12, <1>19, <2>2 DEF Marked
      <3>2. At(A, g, data, eom) /\ data \in Seq(Nat) /\ Between(A, g)  BY <1>8, <1>15
      <3>. QED  BY ONLY <1>3, <1>6, <1>12, <1>14, <3>1, <3>2, WholeNext
    <2>. QED  BY <2>1, <2>2
  <1>21. /\ rx \in [Ends -> Seq(Nat)] /\ eoms \in [Ends -> Seq(Nat)] /\ got \in [Ends -> Seq(Nat)]
    BY <1>1 DEF AdspTypeOK
  <1>22. got' = [got EXCEPT ![e] = G2]  BY <1>4, <1>11, <1>19
  <1>23. /\ rx' \in [Ends -> Seq(Nat)] /\ eoms' \in [Ends -> Seq(Nat)] /\ got' \in [Ends -> Seq(Nat)]
         /\ rx'[e] = rest /\ eoms'[e] = es2 /\ got'[e] = G2
         /\ \A f \in Ends \ {e} : got'[f] = got[f] /\ rx'[f] = rx[f] /\ eoms'[f] = eoms[f]
    BY <1>4, <1>15, <1>20, <1>21, <1>22
  <1>24. Readers'
    <2>1. Reader(e)'
      <3>1. MessageReader(arrived'[e], got'[e], rx'[e], eoms'[e], skipping'[e], st'[e])
        BY <1>2, <1>4, <1>7, <1>18, <1>20, <1>23 DEF MessageReader
      <3>. QED  BY <3>1 DEF Reader
    <2>. QED  BY <1>1, <1>4, <1>23, <2>1, OtherReaders
  <1>25. Ways' /\ conn' \in [Ends -> Connection] /\ cable' \in [Ends -> Seq(Packet)]
    <2>1. AdspTypeOK /\ Ways /\ ReopenWindow(e, Len(rest)) /\ Len(rest) \in Nat
          /\ e \in Ends /\ UNCHANGED <<st, sent, arrived, lost>>
      BY <1>1, <1>4, <1>15
    <2>. QED  BY ONLY <2>1, Reopens
  <1>26. AdspTypeOK'
    <2>1. UNCHANGED <<st, skipping, sent, arrived, lost>>  BY <1>4
    <2>. QED  BY ONLY <1>1, <1>23, <1>25, <2>1 DEF AdspTypeOK
  <1>. QED  BY <1>24, <1>25, <1>26 DEF AdspIInv

\* and so it does when it starts to skip one.
LEMMA SkipMessageKeeps ==
    ASSUME AdspIInv, NEW e \in Ends, e \in MessageReaders, NEW size, SkipMessage(e, size)
    PROVE  AdspIInv'
  <1>1. AdspTypeOK /\ Ways /\ Readers  BY DEF AdspIInv
  <1>2. /\ eoms[e] = <<>> /\ rx' = [rx EXCEPT ![e] = <<>>] /\ skipping' = [skipping EXCEPT ![e] = TRUE]
        /\ ReopenWindow(e, 0)
        /\ UNCHANGED <<st, eoms, sent, arrived, got, lost>>
    BY DEF SkipMessage
  <1>3. rx \in [Ends -> Seq(Nat)] /\ skipping \in [Ends -> BOOLEAN]  BY <1>1 DEF AdspTypeOK
  <1>4. <<>> \in Seq(Nat)  OBVIOUS
  <1>5. /\ rx' \in [Ends -> Seq(Nat)] /\ skipping' \in [Ends -> BOOLEAN]
        /\ rx'[e] = <<>> /\ skipping'[e] = TRUE
        /\ \A f \in Ends \ {e} : rx'[f] = rx[f] /\ skipping'[f] = skipping[f]
    BY <1>2, <1>3, <1>4
  <1>6. Readers'
    <2>1. MessageReader(arrived[e], got[e], rx[e], eoms[e], skipping[e], st[e])  BY <1>1 DEF Readers
    <2>2. MessageReader(arrived'[e], got'[e], rx'[e], eoms'[e], skipping'[e], st'[e])
      BY <1>2, <1>5, <2>1 DEF MessageReader
    <2>3. Reader(e)'  BY <2>2 DEF Reader
    <2>. QED  BY <1>1, <1>2, <1>5, <2>3, OtherReaders
  <1>7. Ways' /\ conn' \in [Ends -> Connection] /\ cable' \in [Ends -> Seq(Packet)]
    <2>1. PICK z \in Nat : z = 0  OBVIOUS
    <2>2. AdspTypeOK /\ Ways /\ ReopenWindow(e, z) /\ z \in Nat /\ e \in Ends /\ UNCHANGED <<st, sent, arrived, lost>>
      BY <1>1, <1>2, <2>1
    <2>. QED  BY ONLY <2>2, Reopens
  <1>8. AdspTypeOK'
    <2>1. UNCHANGED <<st, eoms, sent, arrived, got, lost>>  BY <1>2
    <2>. QED  BY ONLY <1>1, <1>5, <1>7, <2>1 DEF AdspTypeOK
  <1>. QED  BY <1>6, <1>7, <1>8 DEF AdspIInv

-----------------------------------------------------------------------------
(* Packets that arrive *)

\* The bytes of a packet that are new.
LEMMA NewBytesType ==
    ASSUME NEW c \in Connection, NEW p \in Packet, p.kind # "close"
    PROVE  NewBytes(c, p) \in Seq(Nat)
  <1>1. CASE ~InSequence(c, p)
    <2>1. <<>> \in Seq(Nat)  OBVIOUS
    <2>. QED  BY <1>1, <2>1 DEF NewBytes
  <1>2. CASE InSequence(c, p)
    <2>1. PICK data, x, r : data = p.data /\ x = p.seq /\ r = c.recv_seq  OBVIOUS
    <2>2. data \in Seq(Nat) /\ x \in Nat /\ r \in Nat /\ Len(data) \in Nat
      BY <2>1, PacketFacts, ConnectionFacts
    <2>3. r - x >= 0  BY <1>2, <2>1 DEF InSequence, Behind
    <2>4. PICK m : m = Least(r - x, Len(data))  OBVIOUS
    <2>5. m \in 0..Len(data)  BY <2>2, <2>3, <2>4 DEF Least
    <2>6. SubSeq(data, m + 1, Len(data)) \in Seq(Nat)
      <3>1. \A i \in m + 1..Len(data) : data[i] \in Nat
        <4>1. TAKE i \in m + 1..Len(data)
        <4>2. i \in 1..Len(data)  BY <2>2, <2>5
        <4>. QED  BY <2>2, <4>2, ElementOfSeq
      <3>. QED  BY <2>2, <2>5, <3>1, SubSeqProperties
    <2>. QED  BY <1>2, <2>1, <2>4, <2>6 DEF NewBytes, Behind
  <1>. QED  BY <1>1, <1>2

\* The packet that is first on the cable to an open end.
Incoming(e, p) == cable[e] # <<>> /\ p = Head(cable[e]) /\ p.kind # "close" /\ st[e] = "open"

\* It is a packet, and so are those behind it.
LEMMA IncomingFacts ==
    ASSUME AdspTypeOK, NEW e \in Ends, NEW p, Incoming(e, p)
    PROVE  p \in Packet /\ p.kind # "close" /\ cable[e] \in Seq(Packet) /\ Tail(cable[e]) \in Seq(Packet)
  <1>1. PICK ps \in Seq(Packet) : ps = cable[e]  BY StateFacts
  <1>2. ps # <<>> /\ p = Head(ps) /\ p.kind # "close"  BY <1>1 DEF Incoming
  <1>3. Head(ps) \in Packet /\ Tail(ps) \in Seq(Packet)  BY <1>2, HeadTailProperties
  <1>. QED  BY <1>1, <1>2, <1>3

\* handle_datagram keeps both directions.
LEMMA ReceiveWays ==
    ASSUME AdspTypeOK, Ways, NEW e \in Ends, NEW p, Incoming(e, p), NEW d, d = Peer(e),
           NEW w \in 0..RX_WINDOW, NEW s, s = SetRecvWindow(HandleData(conn[e], p), w),
           conn' = [conn EXCEPT ![e] = s.c],
           cable' = [cable EXCEPT ![e] = Tail(@), ![d] = @ \o s.out],
           arrived' = [arrived EXCEPT ![e] = @ \o Taken(conn[e], p)],
           UNCHANGED <<st, sent, lost>>
    PROVE  /\ Ways' /\ conn' \in [Ends -> Connection] /\ cable' \in [Ends -> Seq(Packet)]
           /\ arrived' \in [Ends -> Seq(Nat)]
  <1>1. d \in Ends /\ d # e /\ Peer(d) = e  BY EndFacts
  <1>2. /\ conn \in [Ends -> Connection] /\ cable \in [Ends -> Seq(Packet)]
        /\ arrived \in [Ends -> Seq(Nat)]
    BY DEF AdspTypeOK
  <1>3. p \in Packet /\ p.kind # "close" /\ Tail(cable[e]) \in Seq(Packet)  BY IncomingFacts
  <1>4. PICK S, A, c, k, ahead, back : /\ S = sent[e] /\ A = arrived[d] /\ c = conn[e] /\ k = conn[d]
                                       /\ ahead = cable[d] /\ back = cable[e]
    OBVIOUS
  <1>5. PICK S2, A2, se, sd : S2 = sent[d] /\ A2 = arrived[e] /\ se = st[e] /\ sd = st[d]  OBVIOUS
  <1>6. se = "open"  BY <1>5 DEF Incoming
  <1>7. /\ S \in Seq(Nat) /\ A \in Seq(Nat) /\ c \in Connection /\ k \in Connection
        /\ ahead \in Seq(Packet) /\ back \in Seq(Packet) /\ S2 \in Seq(Nat) /\ A2 \in Seq(Nat)
    BY <1>1, <1>4, <1>5, StateFacts
  <1>8. Way(S, A, c, se, k, sd, ahead, back, lost)  BY <1>4, <1>5 DEF Ways
  <1>9. Way(S2, A2, k, sd, c, se, back, ahead, lost)  BY <1>1, <1>4, <1>5 DEF Ways
  <1>10. back # <<>> /\ p = Head(back)  BY <1>4 DEF Incoming
  <1>11. Sender(S, c) /\ c.oldest_unacked_seq <= Len(A) /\ Acked(A, back)  BY <1>6, <1>8 DEF Way, Sending
  <1>12. Within(c, p, Len(A))
    <2>1. Len(back) \in Nat /\ 1 \in 1..Len(back) /\ p = back[1]  BY <1>7, <1>10
    <2>2. p.ack <= Len(A)  BY <1>3, <1>11, <2>1 DEF Acked
    <2>. QED  BY <1>11, <2>2 DEF Within
  <1>13. PICK L \in Nat : L = Len(A)  BY <1>7
  <1>14. PICK b : /\ b.oldest_unacked_seq \in 0..L /\ b.send_seq = c.send_seq /\ b.recv_seq = NextSeq(c, p)
                  /\ Steps(S, b, HandleData(c, p))
    <2>1. Sender(S, c) /\ Within(c, p, L) /\ L \in Nat  BY <1>11, <1>12, <1>13
    <2>. QED  BY ONLY <1>3, <1>7, <2>1, HandleDataSteps
  <1>15. Steps(S, b, s)
    <2>1. PICK s0 : s0 = HandleData(c, p)  OBVIOUS
    <2>2. Steps(S, b, s0) /\ w \in 0..RX_WINDOW  BY <1>14, <2>1
    <2>3. Steps(S, b, SetRecvWindow(s0, w))  BY ONLY <1>7, <2>2, SetRecvWindowSteps
    <2>4. s = SetRecvWindow(s0, w)  BY <1>4, <2>1
    <2>. QED  BY <2>3, <2>4
  <1>16. s.c \in Connection /\ s.out \in Seq(Packet)  BY <1>15 DEF Steps, Endpoint
  <1>17. s.c.recv_seq = NextSeq(c, p) /\ \A i \in 1..Len(s.out) : s.out[i].ack = NextSeq(c, p)
    BY <1>14, <1>15 DEF Steps
  <1>18. Way(S, A, s.c, se, k, sd, ahead \o s.out, Tail(back), lost)
    <2>1. PICK T \in Seq(Nat) : T = <<>>
      <3>1. <<>> \in Seq(Nat)  OBVIOUS
      <3>. QED  BY <3>1
    <2>2. S \o T = S  BY <1>7, <2>1, EmptyAfter
    <2>3. Steps(S \o T, b, s) /\ b.send_seq = c.send_seq /\ b.oldest_unacked_seq \in 0..Len(A)
      BY <1>13, <1>14, <1>15, <2>2
    <2>4. Acked(A, Tail(back))  BY ONLY <1>7, <1>10, <1>11, AckedTail
    <2>5. T \in Seq(Nat)  OBVIOUS
    <2>6. Way(S \o T, A, s.c, se, k, sd, ahead \o s.out, Tail(back), lost)
      BY ONLY <1>6, <1>7, <1>8, <2>3, <2>4, <2>5, WaySends
    <2>. QED  BY <2>2, <2>6
  <1>19. Way(S2, A2 \o Taken(c, p), k, sd, s.c, se, Tail(back), ahead \o s.out, lost)
    BY ONLY <1>3, <1>6, <1>7, <1>9, <1>10, <1>16, <1>17, WayTakes
  <1>20. A2 \o Taken(c, p) \in Seq(Nat)
    <2>1. c.recv_seq = Len(A2)  BY <1>6, <1>9 DEF Way, Counted
    <2>. QED  BY ONLY <1>3, <1>7, <2>1, TakenCounted
  <1>21. PICK q, u, B : q = ahead \o s.out /\ u = Tail(back) /\ B = A2 \o Taken(c, p)  OBVIOUS
  <1>22. q \in Seq(Packet) /\ u \in Seq(Packet) /\ B \in Seq(Nat)
    <2>1. ahead \o s.out \in Seq(Packet)  BY ONLY <1>7, <1>16, ConcatProperties
    <2>. QED  BY <1>3, <1>4, <1>20, <1>21, <2>1
  <1>23. cable' = [cable EXCEPT ![e] = u, ![d] = q] /\ arrived' = [arrived EXCEPT ![e] = B]
    BY <1>1, <1>2, <1>4, <1>5, <1>21
  <1>24. /\ conn' \in [Ends -> Connection] /\ cable' \in [Ends -> Seq(Packet)] /\ arrived' \in [Ends -> Seq(Nat)]
         /\ conn'[e] = s.c /\ conn'[d] = conn[d] /\ cable'[d] = q /\ cable'[e] = u
         /\ arrived'[e] = B /\ arrived'[d] = arrived[d]
    <2>1. conn' = [conn EXCEPT ![e] = s.c] /\ e \in Ends  OBVIOUS
    <2>2. conn' \in [Ends -> Connection] /\ conn'[e] = s.c /\ conn'[d] = conn[d]
      BY ONLY <1>1, <1>2, <1>16, <2>1
    <2>3. cable' \in [Ends -> Seq(Packet)] /\ cable'[d] = q /\ cable'[e] = u
      BY ONLY <1>1, <1>2, <1>22, <1>23, <2>1
    <2>4. arrived' \in [Ends -> Seq(Nat)] /\ arrived'[e] = B /\ arrived'[d] = arrived[d]
      BY ONLY <1>1, <1>2, <1>22, <1>23, <2>1
    <2>. QED  BY <2>2, <2>3, <2>4
  <1>25. /\ Way(sent'[e], arrived'[d], conn'[e], st'[e], conn'[d], st'[d], cable'[d], cable'[e], lost')
         /\ Way(sent'[d], arrived'[e], conn'[d], st'[d], conn'[e], st'[e], cable'[e], cable'[d], lost')
    BY <1>4, <1>5, <1>18, <1>19, <1>21, <1>24
  <1>. QED  BY <1>24, <1>25, BothWays

\* A message may start after a mark.
LEMMA BetweenMarked ==
    ASSUME NEW A \in Seq(Nat), NEW T \in Seq(Nat), NEW eom \in BOOLEAN, eom
    PROVE  Between(A \o Marked(T, eom), Len(A \o Marked(T, eom)))
  <1>1. PICK B : B = A \o Marked(T, eom)  OBVIOUS
  <1>2. B \in Seq(Nat) /\ Len(B) = Len(A) + Len(T) + Bit(eom) /\ At(B, Len(A), T, eom)
    <2>1. A \in Seq(Nat) /\ T \in Seq(Nat) /\ eom \in BOOLEAN  OBVIOUS
    <2>2. /\ A \o Marked(T, eom) \in Seq(Nat)
          /\ Len(A \o Marked(T, eom)) = Len(A) + Len(T) + Bit(eom)
          /\ At(A \o Marked(T, eom), Len(A), T, eom)
      BY ONLY <2>1, AtEnd
    <2>. QED  BY <1>1, <2>2
  <1>3. Bit(eom) = 1  BY DEF Bit
  <1>4. Len(A) \in Nat /\ Len(T) \in Nat /\ Len(B) \in Nat
    <2>1. B \in Seq(Nat)  BY <1>2
    <2>. QED  BY <2>1
  <1>5. B[Len(A) + Len(T) + 1] = MARK  BY <1>2 DEF At
  <1>6. Len(B) = Len(A) + Len(T) + 1 /\ Len(B) \in 1..Len(B)  BY ONLY <1>2, <1>3, <1>4
  <1>. QED  BY <1>1, <1>5, <1>6 DEF Between

\* sort_events keeps what readers see.
LEMMA ReceiveReaders ==
    ASSUME AdspIInv, NEW e \in Ends, st[e] # "dropped", NEW T \in Seq(Nat), NEW eom \in BOOLEAN,
           NEW rx1, rx1 = (IF skipping[e] THEN rx[e] ELSE rx[e] \o T),
           rx' = [rx EXCEPT ![e] = rx1],
           eoms' = [eoms EXCEPT ![e] = IF eom /\ ~skipping[e] THEN Append(@, Len(rx1)) ELSE @],
           skipping' = [skipping EXCEPT ![e] = @ /\ ~eom],
           arrived' = [arrived EXCEPT ![e] = @ \o Marked(T, eom)],
           UNCHANGED <<st, got>>
    PROVE  /\ Readers' /\ rx' \in [Ends -> Seq(Nat)] /\ eoms' \in [Ends -> Seq(Nat)]
           /\ skipping' \in [Ends -> BOOLEAN]
  <1>1. AdspTypeOK /\ Readers  BY DEF AdspIInv
  <1>2. PICK A, G, r, es, skips, M : /\ A = arrived[e] /\ G = got[e] /\ r = rx[e] /\ es = eoms[e]
                                     /\ skips = skipping[e] /\ M = Marked(T, eom)
    OBVIOUS
  <1>3. /\ A \in Seq(Nat) /\ G \in Seq(Nat) /\ r \in Seq(Nat) /\ es \in Seq(Nat)
        /\ skips \in BOOLEAN /\ M \in Seq(Nat)
    BY <1>1, <1>2, StateFacts, MarkedType
  <1>4. PICK B, r2, es2, skips2 : /\ B = A \o M /\ r2 = rx1 /\ skips2 = (skips /\ ~eom)
                                  /\ es2 = IF eom /\ ~skips THEN Append(es, Len(rx1)) ELSE es
    OBVIOUS
  <1>5. /\ rx' = [rx EXCEPT ![e] = r2] /\ eoms' = [eoms EXCEPT ![e] = es2]
        /\ skipping' = [skipping EXCEPT ![e] = skips2] /\ arrived' = [arrived EXCEPT ![e] = B]
    BY <1>2, <1>4
  <1>6. B \in Seq(Nat)  BY <1>3, <1>4, ConcatProperties
  <1>7. skips2 \in BOOLEAN  BY <1>4
  <1>8. skips => r2 = r /\ es2 = es  BY <1>2, <1>4
  <1>9. ~skips => /\ r2 = r \o T /\ es2 = IF eom THEN Append(es, Len(r \o T)) ELSE es
                  /\ skips2 = FALSE
    BY <1>2, <1>4
  <1>10. r2 \in Seq(Nat) /\ es2 \in Seq(Nat)
    <2>1. CASE skips  BY <1>3, <1>8, <2>1
    <2>2. CASE ~skips
      <3>1. r \o T \in Seq(Nat)  BY <1>3, ConcatProperties
      <3>2. PICK l \in Nat : l = Len(r \o T)  BY <3>1
      <3>3. Append(es, l) \in Seq(Nat)  BY <1>3
      <3>. QED  BY <1>3, <1>9, <2>2, <3>1, <3>2, <3>3
    <2>. QED  BY <2>1, <2>2
  <1>11. ASSUME ~skips, NEW g \in Nat, Held(A, g, r, es)
         PROVE  Held(B, g, r2, es2)
    <2>1. PICK q, es3 : q = r \o T /\ es3 = IF eom THEN Append(es, Len(r \o T)) ELSE es  OBVIOUS
    <2>2. Held(A \o Marked(T, eom), g, r \o T, IF eom THEN Append(es, Len(r \o T)) ELSE es)
      <3>1. g \in Nat /\ Held(A, g, r, es) /\ T \in Seq(Nat) /\ eom \in BOOLEAN  BY <1>11
      <3>. QED  BY ONLY <1>3, <3>1, HeldArrives
    <2>. QED  BY <1>2, <1>4, <1>9, <1>11, <2>2
  <1>12. rx \in [Ends -> Seq(Nat)] /\ eoms \in [Ends -> Seq(Nat)]  BY <1>1 DEF AdspTypeOK
  <1>13. skipping \in [Ends -> BOOLEAN] /\ arrived \in [Ends -> Seq(Nat)]  BY <1>1 DEF AdspTypeOK
  <1>14. e \in Ends  OBVIOUS
  <1>15. /\ rx' \in [Ends -> Seq(Nat)] /\ rx'[e] = r2 /\ \A f \in Ends \ {e} : rx'[f] = rx[f]
         /\ eoms' \in [Ends -> Seq(Nat)] /\ eoms'[e] = es2 /\ \A f \in Ends \ {e} : eoms'[f] = eoms[f]
    BY ONLY <1>5, <1>10, <1>12, <1>14
  <1>16. /\ skipping' \in [Ends -> BOOLEAN] /\ skipping'[e] = skips2
         /\ \A f \in Ends \ {e} : skipping'[f] = skipping[f]
         /\ arrived'[e] = B /\ \A f \in Ends \ {e} : arrived'[f] = arrived[f]
    BY ONLY <1>5, <1>6, <1>7, <1>13, <1>14
  <1>17. st' = st /\ got' = got  OBVIOUS
  <1>18. Reader(e)'
    <2>1. CASE e \notin MessageReaders
      <3>1. ByteReader(A, G, r, es, skips, st[e])  BY <1>1, <1>2, <2>1 DEF Readers
      <3>2. ~skips /\ IsPrefix(G, A) /\ Held(A, Len(G), r, es)  BY <3>1 DEF ByteReader
      <3>3. Len(G) \in Nat  BY <1>3
      <3>4. Held(B, Len(G), r2, es2)  BY <1>11, <3>2, <3>3
      <3>5. IsPrefix(G, B)
        <4>1. IsPrefix(G, A \o M)  BY ONLY <1>3, <3>2, PrefixMore
        <4>. QED  BY <1>4, <4>1
      <3>6. ~skips2  BY <1>9, <3>2
      <3>7. ByteReader(B, G, r2, es2, skips2, st[e])  BY ONLY <3>4, <3>5, <3>6 DEF ByteReader
      <3>8. ByteReader(arrived'[e], got'[e], rx'[e], eoms'[e], skipping'[e], st'[e])
        BY <1>2, <1>15, <1>16, <1>17, <3>7
      <3>. QED  BY <2>1, <3>8 DEF Reader
    <2>2. CASE e \in MessageReaders
      <3>1. MessageReader(A, G, r, es, skips, st[e])  BY <1>1, <1>2, <2>2 DEF Readers
      <3>2. Whole(G, A) /\ Between(G, Len(G))  BY <3>1 DEF MessageReader
      <3>3. Whole(G, B)
        <4>1. Whole(G, A \o M)  BY ONLY <1>3, <3>2, WholeMore
        <4>. QED  BY <1>4, <4>1
      <3>4. MessageReader(B, G, r2, es2, skips2, st[e])
        <4>4. CASE skips /\ ~eom
          <5>1. r = <<>> /\ es = <<>>  BY <3>1, <4>4 DEF MessageReader
          <5>2. r2 = <<>> /\ es2 = <<>> /\ skips2  BY <1>4, <1>8, <4>4, <5>1
          <5>. QED  BY ONLY <3>2, <3>3, <5>2 DEF MessageReader
        <4>5. CASE skips /\ eom
          <5>1. r = <<>> /\ es = <<>>  BY <3>1, <4>5 DEF MessageReader
          <5>2. r2 = <<>> /\ es2 = <<>> /\ ~skips2  BY <1>4, <1>8, <4>5, <5>1
          <5>3. Between(B, Len(B))
            <6>1. A \in Seq(Nat) /\ T \in Seq(Nat) /\ eom \in BOOLEAN /\ eom  BY <1>3, <4>5
            <6>2. Between(A \o Marked(T, eom), Len(A \o Marked(T, eom)))  BY ONLY <6>1, BetweenMarked
            <6>. QED  BY <1>2, <1>4, <6>2
          <5>4. Held(B, Len(B), <<>>, <<>>)  BY <1>6, HeldNone
          <5>5. Len(B) \in 0..Len(B)  BY <1>6
          <5>6. Held(B, Len(B), r2, es2)  BY <5>2, <5>4
          <5>. QED  BY ONLY <3>2, <3>3, <5>2, <5>3, <5>5, <5>6 DEF MessageReader
        <4>6. CASE ~skips
          <5>1. PICK g \in 0..Len(A) : Between(A, g) /\ Held(A, g, r, es)  BY <3>1, <4>6 DEF MessageReader
          <5>2. g \in Nat /\ Len(A) \in Nat /\ Len(B) \in Nat  BY <1>3, <1>6
          <5>3. Held(B, g, r2, es2)  BY <1>11, <4>6, <5>1, <5>2
          <5>4. Between(A \o M, g)  BY ONLY <1>3, <5>1, <5>2, BetweenMore
          <5>5. Len(A) <= Len(A \o M)  BY ONLY <1>3, LongerKeeps
          <5>6. g \in 0..Len(B) /\ Between(B, g)
            <6>1. Len(A) <= Len(B) /\ Between(B, g)  BY <1>4, <5>4, <5>5
            <6>2. g \in 0..Len(A)  OBVIOUS
            <6>. QED  BY ONLY <5>2, <6>1, <6>2
          <5>7. ~skips2  BY <1>9, <4>6
          <5>. QED  BY ONLY <3>2, <3>3, <5>3, <5>6, <5>7 DEF MessageReader
        <4>. QED  BY <4>4, <4>5, <4>6
      <3>5. MessageReader(arrived'[e], got'[e], rx'[e], eoms'[e], skipping'[e], st'[e])
        BY <1>2, <1>15, <1>16, <1>17, <3>4
      <3>. QED  BY <2>2, <3>5 DEF Reader
    <2>. QED  BY <2>1, <2>2
  <1>19. Readers'
    <2>1. \A f \in Ends \ {e} : /\ arrived'[f] = arrived[f] /\ got'[f] = got[f] /\ rx'[f] = rx[f]
                                /\ eoms'[f] = eoms[f] /\ skipping'[f] = skipping[f] /\ st'[f] = st[f]
      BY ONLY <1>15, <1>16, <1>17
    <2>. QED  BY ONLY <1>1, <1>14, <1>18, <2>1, OtherReaders
  <1>. QED  BY <1>15, <1>16, <1>19

\* A packet that arrives keeps the invariant.
LEMMA ReceiveKeeps ==
    ASSUME AdspIInv, NEW e \in Ends, Receive(e)
    PROVE  AdspIInv'
  <1>1. AdspTypeOK /\ Ways  BY DEF AdspIInv
  <1> DEFINE p1 == Head(cable[e])
             T1 == NewBytes(conn[e], p1)
             eom1 == p1.eom /\ InSequence(conn[e], p1)
             rx2 == IF skipping[e] THEN rx[e] ELSE rx[e] \o T1
             s1 == SetRecvWindow(HandleData(conn[e], p1), Window(Len(rx2)))
  <1>2. /\ cable[e] # <<>> /\ p1.kind # "close" /\ st[e] = "open"
        /\ conn' = [conn EXCEPT ![e] = s1.c]
        /\ cable' = [cable EXCEPT ![e] = Tail(@), ![Peer(e)] = @ \o s1.out]
        /\ rx' = [rx EXCEPT ![e] = rx2]
        /\ eoms' = [eoms EXCEPT ![e] = IF eom1 /\ ~skipping[e] THEN Append(@, Len(rx2)) ELSE @]
        /\ skipping' = [skipping EXCEPT ![e] = @ /\ ~eom1]
        /\ arrived' = [arrived EXCEPT ![e] = @ \o Marked(T1, eom1)]
        /\ UNCHANGED <<st, sent, got, lost>>
    BY DEF Receive
  <1>3. PICK p, T, rx1, s, w, d : /\ p = p1 /\ T = T1 /\ rx1 = rx2 /\ s = s1
                                  /\ w = Window(Len(rx2)) /\ d = Peer(e)
    OBVIOUS
  <1>4. PICK eom \in BOOLEAN : eom = eom1  OBVIOUS
  <1>5. Incoming(e, p)  BY <1>2, <1>3 DEF Incoming
  <1>6. p \in Packet /\ p.kind # "close"  BY <1>1, <1>5, IncomingFacts
  <1>7. conn[e] \in Connection /\ rx[e] \in Seq(Nat)  BY <1>1, StateFacts
  <1>8. T \in Seq(Nat) /\ T = NewBytes(conn[e], p)
    <2>1. T = NewBytes(conn[e], p)  BY <1>3
    <2>2. PICK c : c = conn[e]  OBVIOUS
    <2>3. c \in Connection  BY <1>7, <2>2
    <2>4. NewBytes(c, p) \in Seq(Nat)  BY ONLY <1>6, <2>3, NewBytesType
    <2>. QED  BY <2>1, <2>2, <2>4
  <1>9. rx1 = (IF skipping[e] THEN rx[e] ELSE rx[e] \o T)  BY <1>3
  <1>10. w \in 0..RX_WINDOW
    <2>1. rx[e] \o T \in Seq(Nat)  BY <1>7, <1>8, ConcatProperties
    <2>2. rx1 \in Seq(Nat)
      <3>1. CASE skipping[e]  BY <1>7, <1>9, <3>1
      <3>2. CASE ~skipping[e]  BY <1>9, <2>1, <3>2
      <3>. QED  BY <3>1, <3>2
    <2>3. PICK l \in Nat : l = Len(rx1)  BY <2>2
    <2>4. w = Window(l)  BY <1>3, <2>3
    <2>. QED  BY <2>4, WindowFacts
  <1>11. s = SetRecvWindow(HandleData(conn[e], p), w)  BY <1>3
  <1>12. Marked(T, eom) = Taken(conn[e], p)  BY <1>3, <1>4 DEF Taken
  <1>13. /\ conn' = [conn EXCEPT ![e] = s.c]
         /\ cable' = [cable EXCEPT ![e] = Tail(@), ![d] = @ \o s.out]
         /\ arrived' = [arrived EXCEPT ![e] = @ \o Taken(conn[e], p)]
         /\ arrived' = [arrived EXCEPT ![e] = @ \o Marked(T, eom)]
         /\ rx' = [rx EXCEPT ![e] = rx1]
         /\ eoms' = [eoms EXCEPT ![e] = IF eom /\ ~skipping[e] THEN Append(@, Len(rx1)) ELSE @]
         /\ skipping' = [skipping EXCEPT ![e] = @ /\ ~eom]
    <2>1. arrived' = [arrived EXCEPT ![e] = @ \o Marked(T, eom)]  BY <1>2, <1>3, <1>4
    <2>2. eoms' = [eoms EXCEPT ![e] = IF eom /\ ~skipping[e] THEN Append(@, Len(rx1)) ELSE @]
      BY <1>2, <1>3, <1>4
    <2>3. skipping' = [skipping EXCEPT ![e] = @ /\ ~eom]  BY <1>2, <1>4
    <2>. QED  BY <1>2, <1>3, <1>12, <2>1, <2>2, <2>3
  <1>14. UNCHANGED <<st, sent, got, lost>> /\ st[e] # "dropped"  BY <1>2
  <1> HIDE DEF p1, T1, eom1, rx2, s1
  <1>15. e \in Ends /\ d = Peer(e) /\ AdspIInv  BY <1>3
  <1>16. /\ Ways' /\ conn' \in [Ends -> Connection] /\ cable' \in [Ends -> Seq(Packet)]
         /\ arrived' \in [Ends -> Seq(Nat)]
    BY ONLY <1>1, <1>5, <1>10, <1>11, <1>13, <1>14, <1>15, ReceiveWays
  <1>17. /\ Readers' /\ rx' \in [Ends -> Seq(Nat)] /\ eoms' \in [Ends -> Seq(Nat)]
         /\ skipping' \in [Ends -> BOOLEAN]
    <2>1. eom \in BOOLEAN  OBVIOUS
    <2>. QED  BY ONLY <1>8, <1>9, <1>13, <1>14, <1>15, <2>1, ReceiveReaders
  <1>18. AdspTypeOK'  BY ONLY <1>1, <1>14, <1>16, <1>17 DEF AdspTypeOK
  <1>. QED  BY <1>16, <1>17, <1>18 DEF AdspIInv

-----------------------------------------------------------------------------
(* Ends that close, and packets that are lost *)

\* Connection::new is a Connection.
LEMMA NewConnectionFacts ==
    NewConnection \in Connection
  <1>1. PICK z \in Nat : z = 0  OBVIOUS
  <1>2. z \in 0..ADSP_MAX_RETRIES /\ RX_WINDOW \in 0..RX_WINDOW  BY <1>1, Constants
  <1>3. PICK F \in Seq(Nat) : F = <<>>
    <2>1. <<>> \in Seq(Nat)  OBVIOUS
    <2>. QED  BY <2>1
  <1>4. PICK W \in Seq(WriteType) : W = <<>>
    <2>1. <<>> \in Seq(WriteType)  OBVIOUS
    <2>. QED  BY <2>1
  <1>5. NewConnection = [send_seq |-> z, oldest_unacked_seq |-> z, recv_seq |-> z,
                         send_window |-> RX_WINDOW, recv_window |-> RX_WINDOW,
                         flight_buffer |-> F, pending_writes |-> W, retries |-> z]
    BY <1>1, <1>3, <1>4 DEF NewConnection
  <1>. QED  BY <1>2, <1>5 DEF Connection, WriteType

\* The cable to an end whose packet is taken, or is not.
TailOr(ps, qs) == qs = ps \/ (ps # <<>> /\ qs = Tail(ps))
\* The cable to its peer, which may be advised.
Advised(ps, qs) == qs = ps \/ qs = Append(ps, CloseAdvice)

\* An end that closes, whether it takes a packet, advises its peer or gives up, keeps both directions.
LEMMA Closes ==
    ASSUME AdspTypeOK, Ways, NEW e \in Ends, NEW d, d = Peer(e),
           NEW se2 \in {"closed", "dropped"}, st' = [st EXCEPT ![e] = se2],
           conn' = [conn EXCEPT ![e] = NewConnection],
           cable' \in [Ends -> Seq(Packet)], TailOr(cable[e], cable'[e]), Advised(cable[d], cable'[d]),
           UNCHANGED <<sent, arrived, lost>>
    PROVE  /\ Ways' /\ conn' \in [Ends -> Connection]
           /\ st' \in [Ends -> {"open", "closed", "dropped"}]
  <1>1. d \in Ends /\ d # e /\ Peer(d) = e  BY EndFacts
  <1>2. conn \in [Ends -> Connection] /\ st \in [Ends -> {"open", "closed", "dropped"}]  BY DEF AdspTypeOK
  <1>3. NewConnection \in Connection  BY NewConnectionFacts
  <1>4. /\ conn' \in [Ends -> Connection] /\ st' \in [Ends -> {"open", "closed", "dropped"}]
        /\ conn'[e] = NewConnection /\ conn'[d] = conn[d] /\ st'[e] = se2 /\ st'[d] = st[d]
    BY <1>1, <1>2, <1>3
  <1>5. PICK S, A, c, k, ahead, back : /\ S = sent[e] /\ A = arrived[d] /\ c = conn[e] /\ k = conn[d]
                                       /\ ahead = cable[d] /\ back = cable[e]
    OBVIOUS
  <1>6. PICK S2, A2, se, sd : S2 = sent[d] /\ A2 = arrived[e] /\ se = st[e] /\ sd = st[d]  OBVIOUS
  <1>7. PICK ahead2, back2, c2 : ahead2 = cable'[d] /\ back2 = cable'[e] /\ c2 = NewConnection  OBVIOUS
  <1>8. /\ S \in Seq(Nat) /\ A \in Seq(Nat) /\ S2 \in Seq(Nat) /\ A2 \in Seq(Nat)
        /\ ahead \in Seq(Packet) /\ back \in Seq(Packet)
    BY <1>1, <1>5, <1>6, StateFacts
  <1>9. Way(S, A, c, se, k, sd, ahead, back, lost)  BY <1>5, <1>6 DEF Ways
  <1>10. Way(S2, A2, k, sd, c, se, back, ahead, lost)  BY <1>1, <1>5, <1>6 DEF Ways
  <1>11. TailOr(back, back2) /\ Advised(ahead, ahead2)  BY <1>5, <1>7
  <1>12. se2 # "open" /\ CloseAdvice \in Packet /\ CloseAdvice.kind = "close"  BY CloseFacts
  <1>13. Acked(A, back2) /\ Truthful(S2, back2)
    <2>1. Acked(A, back) /\ Truthful(S2, back)  BY <1>9, <1>10 DEF Way
    <2>2. CASE back2 = back  BY <2>1, <2>2
    <2>3. CASE back # <<>> /\ back2 = Tail(back)
      <3>1. Acked(A, Tail(back))  BY ONLY <1>8, <2>1, <2>3, AckedTail
      <3>2. Truthful(S2, Tail(back))  BY ONLY <1>8, <2>1, <2>3, TruthfulTail
      <3>. QED  BY <2>3, <3>1, <3>2
    <2>. QED  BY <1>11, <2>2, <2>3 DEF TailOr
  <1>14. Acked(A2, ahead2)
    <2>1. Acked(A2, ahead)  BY <1>10 DEF Way
    <2>2. CASE ahead2 = ahead  BY <2>1, <2>2
    <2>3. CASE ahead2 = Append(ahead, CloseAdvice)
      <3>1. Acked(A2, Append(ahead, CloseAdvice))  BY ONLY <1>8, <1>12, <2>1, AckedAdvice
      <3>. QED  BY <2>3, <3>1
    <2>. QED  BY <1>11, <2>2, <2>3 DEF Advised
  <1>15. Way(S, A, c2, se2, k, sd, ahead2, back2, lost)
    <2>1. Way(S, A, c2, se2, k, sd, ahead, back2, lost)  BY ONLY <1>9, <1>12, <1>13, WayCloses
    <2>2. CASE ahead2 = ahead  BY <2>1, <2>2
    <2>3. CASE ahead2 = Append(ahead, CloseAdvice)
      <3>1. Way(S, A, c2, se2, k, sd, Append(ahead, CloseAdvice), back2, lost)
        BY ONLY <1>8, <1>12, <2>1, WayAdvises
      <3>. QED  BY <2>3, <3>1
    <2>. QED  BY <1>11, <2>2, <2>3 DEF Advised
  <1>16. Way(S2, A2, k, sd, c2, se2, back2, ahead2, lost)
    BY ONLY <1>10, <1>12, <1>13, <1>14, WayLeaves
  <1>17. sent' = sent /\ arrived' = arrived /\ lost' = lost  OBVIOUS
  <1>18. /\ Way(sent'[e], arrived'[d], conn'[e], st'[e], conn'[d], st'[d], cable'[d], cable'[e], lost')
         /\ Way(sent'[d], arrived'[e], conn'[d], st'[d], conn'[e], st'[e], cable'[e], cable'[d], lost')
    BY ONLY <1>4, <1>5, <1>6, <1>7, <1>15, <1>16, <1>17
  <1>19. e \in Ends /\ d = Peer(e)  OBVIOUS
  <1>20. Ways'  BY ONLY <1>18, <1>19, BothWays
  <1>. QED  BY ONLY <1>4, <1>20

\* The cable after its first packet is taken.
LEMMA CableTail ==
    ASSUME AdspTypeOK, NEW e \in Ends, cable[e] # <<>>, cable' = [cable EXCEPT ![e] = Tail(@)]
    PROVE  /\ cable' \in [Ends -> Seq(Packet)] /\ cable'[e] = Tail(cable[e])
           /\ \A f \in Ends \ {e} : cable'[f] = cable[f]
           /\ Head(cable[e]) \in Packet
  <1>1. PICK ps \in Seq(Packet) : ps = cable[e]  BY StateFacts
  <1>2. Head(ps) \in Packet /\ Tail(ps) \in Seq(Packet)  BY <1>1, HeadTailProperties
  <1>3. cable \in [Ends -> Seq(Packet)]  BY DEF AdspTypeOK
  <1>. QED  BY <1>1, <1>2, <1>3

\* A CloseAdvice keeps the invariant.
LEMMA ReceiveCloseKeeps ==
    ASSUME AdspIInv, NEW e \in Ends, ReceiveClose(e)
    PROVE  AdspIInv'
  <1>1. AdspTypeOK /\ Ways /\ Readers  BY DEF AdspIInv
  <1>2. PICK d, se2 : d = Peer(e) /\ se2 = IF st[e] = "open" THEN "closed" ELSE st[e]  OBVIOUS
  <1>3. st \in [Ends -> {"open", "closed", "dropped"}] /\ st[e] \in {"open", "closed", "dropped"}
    BY <1>1 DEF AdspTypeOK
  <1>4. se2 \in {"closed", "dropped"} /\ (se2 = "dropped" <=> st[e] = "dropped")  BY <1>2, <1>3
  <1>5. /\ cable[e] # <<>> /\ cable' = [cable EXCEPT ![e] = Tail(@)]
        /\ st' = [st EXCEPT ![e] = se2] /\ conn' = [conn EXCEPT ![e] = NewConnection]
        /\ UNCHANGED <<rx, eoms, skipping, sent, arrived, got, lost>>
    BY <1>2 DEF ReceiveClose
  <1>6. cable' \in [Ends -> Seq(Packet)] /\ cable'[e] = Tail(cable[e]) /\ cable'[d] = cable[d]
    BY <1>1, <1>2, <1>5, EndFacts, CableTail
  <1>7. TailOr(cable[e], cable'[e]) /\ Advised(cable[d], cable'[d])  BY <1>5, <1>6 DEF TailOr, Advised
  <1>8. /\ Ways' /\ conn' \in [Ends -> Connection] /\ st' \in [Ends -> {"open", "closed", "dropped"}]
    <2>1. e \in Ends /\ d = Peer(e)  BY <1>2
    <2>. QED  BY ONLY <1>1, <1>4, <1>5, <1>6, <1>7, <2>1, Closes
  <1>9. Readers'
    <2>1. \A f \in Ends : st'[f] = "dropped" <=> st[f] = "dropped"  BY <1>3, <1>4, <1>5
    <2>. QED  BY ONLY <1>1, <1>5, <2>1 DEF Readers, MessageReader, ByteReader
  <1>10. AdspTypeOK'  BY ONLY <1>1, <1>5, <1>6, <1>8 DEF AdspTypeOK
  <1>. QED  BY <1>8, <1>9, <1>10 DEF AdspIInv

\* The drop of a stream keeps the invariant.
LEMMA DropKeeps ==
    ASSUME AdspIInv, NEW e \in Ends, Drop(e)
    PROVE  AdspIInv'
  <1>1. AdspTypeOK /\ Ways /\ Readers  BY DEF AdspIInv
  <1>2. PICK d, se2, q : /\ d = Peer(e) /\ se2 = "dropped"
                         /\ q = IF st[e] = "open" THEN Append(cable[d], CloseAdvice) ELSE cable[d]
    OBVIOUS
  <1>3. d \in Ends /\ d # e  BY <1>2, EndFacts
  <1>4. /\ st' = [st EXCEPT ![e] = se2] /\ cable' = [cable EXCEPT ![d] = q]
        /\ conn' = [conn EXCEPT ![e] = NewConnection]
        /\ rx' = [rx EXCEPT ![e] = <<>>] /\ eoms' = [eoms EXCEPT ![e] = <<>>]
        /\ skipping' = [skipping EXCEPT ![e] = FALSE]
        /\ UNCHANGED <<sent, arrived, got, lost>>
    BY <1>2 DEF Drop
  <1>5. q \in Seq(Packet) /\ Advised(cable[d], q)
    <2>1. PICK ps \in Seq(Packet) : ps = cable[d]  BY <1>1, <1>3, StateFacts
    <2>2. Append(ps, CloseAdvice) \in Seq(Packet)  BY CloseFacts
    <2>. QED  BY <1>2, <2>1, <2>2 DEF Advised
  <1>6. cable \in [Ends -> Seq(Packet)]  BY <1>1 DEF AdspTypeOK
  <1>7. e \in Ends /\ se2 \in {"closed", "dropped"}  BY <1>2
  <1>8. cable' \in [Ends -> Seq(Packet)] /\ cable'[e] = cable[e] /\ cable'[d] = q
    BY ONLY <1>3, <1>4, <1>5, <1>6, <1>7
  <1>9. TailOr(cable[e], cable'[e]) /\ Advised(cable[d], cable'[d])  BY <1>5, <1>8 DEF TailOr
  <1>10. /\ Ways' /\ conn' \in [Ends -> Connection] /\ st' \in [Ends -> {"open", "closed", "dropped"}]
    <2>1. d = Peer(e)  BY <1>2
    <2>. QED  BY ONLY <1>1, <1>4, <1>7, <1>8, <1>9, <2>1, Closes
  <1>11. /\ rx \in [Ends -> Seq(Nat)] /\ eoms \in [Ends -> Seq(Nat)] /\ skipping \in [Ends -> BOOLEAN]
         /\ st \in [Ends -> {"open", "closed", "dropped"}]
    BY <1>1 DEF AdspTypeOK
  <1>12. <<>> \in Seq(Nat)  OBVIOUS
  <1>13. /\ rx' \in [Ends -> Seq(Nat)] /\ eoms' \in [Ends -> Seq(Nat)] /\ skipping' \in [Ends -> BOOLEAN]
         /\ skipping'[e] = FALSE /\ st'[e] = "dropped"
         /\ \A f \in Ends \ {e} : /\ rx'[f] = rx[f] /\ eoms'[f] = eoms[f] /\ skipping'[f] = skipping[f]
                                  /\ st'[f] = st[f]
    BY ONLY <1>2, <1>4, <1>7, <1>11, <1>12
  <1>14. Readers'
    <2>1. Reader(e)'
      <3>1. IF e \in MessageReaders
            THEN MessageReader(arrived[e], got[e], rx[e], eoms[e], skipping[e], st[e])
            ELSE ByteReader(arrived[e], got[e], rx[e], eoms[e], skipping[e], st[e])
        BY <1>1 DEF Readers
      <3>2. IF e \in MessageReaders
            THEN MessageReader(arrived'[e], got'[e], rx'[e], eoms'[e], skipping'[e], st'[e])
            ELSE ByteReader(arrived'[e], got'[e], rx'[e], eoms'[e], skipping'[e], st'[e])
        BY ONLY <1>4, <1>13, <3>1 DEF MessageReader, ByteReader
      <3>. QED  BY <3>2 DEF Reader
    <2>2. \A f \in Ends \ {e} : /\ arrived'[f] = arrived[f] /\ got'[f] = got[f] /\ rx'[f] = rx[f]
                                /\ eoms'[f] = eoms[f] /\ skipping'[f] = skipping[f] /\ st'[f] = st[f]
      BY ONLY <1>4, <1>13
    <2>. QED  BY ONLY <1>1, <1>7, <2>1, <2>2, OtherReaders
  <1>15. AdspTypeOK'  BY ONLY <1>1, <1>4, <1>8, <1>10, <1>13 DEF AdspTypeOK
  <1>. QED  BY <1>10, <1>14, <1>15 DEF AdspIInv

\* A loss keeps the invariant.
LEMMA LoseKeeps ==
    ASSUME AdspIInv, NEW e \in Ends, Lose(e)
    PROVE  AdspIInv'
  <1>1. AdspTypeOK /\ Ways /\ Readers  BY DEF AdspIInv
  <1>2. PICK d, kind : d = Peer(e) /\ kind = Head(cable[e]).kind  OBVIOUS
  <1>3. d \in Ends /\ d # e /\ Peer(d) = e /\ e \in Ends  BY <1>2, EndFacts
  <1>4. /\ cable[e] # <<>> /\ cable' = [cable EXCEPT ![e] = Tail(@)]
        /\ lost' = Append(lost, kind)
        /\ UNCHANGED <<conn, st, rx, eoms, skipping, sent, arrived, got>>
    BY <1>2 DEF Lose
  <1>5. /\ cable' \in [Ends -> Seq(Packet)] /\ cable'[e] = Tail(cable[e]) /\ cable'[d] = cable[d]
        /\ Head(cable[e]) \in Packet
    BY <1>1, <1>3, <1>4, CableTail
  <1>6. kind \in {"data", "ack", "close"}
    <2>1. PICK p \in Packet : p = Head(cable[e])  BY <1>5
    <2>2. CASE p.kind = "close"  BY <1>2, <2>1, <2>2
    <2>3. CASE p.kind # "close"
      <3>1. p.kind \in {"data", "ack"}  BY <2>3, PacketFacts
      <3>. QED  BY <1>2, <2>1, <3>1
    <2>. QED  BY <2>2, <2>3
  <1>7. lost \in Seq({"data", "ack", "close"})  BY <1>1 DEF AdspTypeOK
  <1>8. lost' \in Seq({"data", "ack", "close"}) /\ lost' # <<>>
    <2>1. PICK l \in Seq({"data", "ack", "close"}) : l = lost  BY <1>7
    <2>2. Append(l, kind) \in Seq({"data", "ack", "close"}) /\ Append(l, kind) # <<>>
      BY ONLY <1>6, <2>1, AppendProperties
    <2>. QED  BY <1>4, <2>1, <2>2
  <1>9. PICK S, A, c, k, ahead, back : /\ S = sent[e] /\ A = arrived[d] /\ c = conn[e] /\ k = conn[d]
                                       /\ ahead = cable[d] /\ back = cable[e]
    OBVIOUS
  <1>10. PICK S2, A2, se, sd, los : /\ S2 = sent[d] /\ A2 = arrived[e] /\ se = st[e] /\ sd = st[d]
                                    /\ los = lost'
    OBVIOUS
  <1>11. ahead \in Seq(Packet) /\ back \in Seq(Packet) /\ back # <<>>  BY <1>1, <1>3, <1>4, <1>9, StateFacts
  <1>12. Way(S, A, c, se, k, sd, ahead, back, lost)  BY <1>1, <1>2, <1>3, <1>9, <1>10 DEF Ways
  <1>13. Way(S2, A2, k, sd, c, se, back, ahead, lost)  BY <1>1, <1>3, <1>9, <1>10 DEF Ways
  <1>14. Acked(A, back) /\ Truthful(S2, back) /\ Truthful(S, ahead) /\ Acked(A2, ahead)
    BY <1>12, <1>13 DEF Way
  <1>15. los # <<>>  BY <1>8, <1>10
  <1>16. Acked(A, Tail(back))  BY ONLY <1>11, <1>14, AckedTail
  <1>17. Truthful(S2, Tail(back))  BY ONLY <1>11, <1>14, TruthfulTail
  <1>18. Way(S, A, c, se, k, sd, ahead, Tail(back), los)
    BY ONLY <1>12, <1>14, <1>15, <1>16, WayLoses
  <1>19. Way(S2, A2, k, sd, c, se, Tail(back), ahead, los)
    BY ONLY <1>13, <1>14, <1>15, <1>17, WayLoses
  <1>20. /\ Way(sent'[e], arrived'[d], conn'[e], st'[e], conn'[d], st'[d], cable'[d], cable'[e], lost')
         /\ Way(sent'[d], arrived'[e], conn'[d], st'[d], conn'[e], st'[e], cable'[e], cable'[d], lost')
    BY <1>4, <1>5, <1>9, <1>10, <1>18, <1>19
  <1>21. Ways'  BY ONLY <1>2, <1>3, <1>20, BothWays
  <1>22. Readers'
    <2>1. UNCHANGED <<arrived, got, rx, eoms, skipping, st>>  BY <1>4
    <2>. QED  BY ONLY <1>1, <2>1, ReadersSame
  <1>23. AdspTypeOK'  BY ONLY <1>1, <1>4, <1>5, <1>8 DEF AdspTypeOK
  <1>. QED  BY <1>21, <1>22, <1>23 DEF AdspIInv

\* A connection that has tried again.
Tried(c) == [c EXCEPT !.retries = @ + 1]

\* It is a Connection while retries are left, and the rest of it is as it was.
LEMMA ConnectionTried ==
    ASSUME NEW c \in Connection, ~(c.retries + 1 > ADSP_MAX_RETRIES), NEW b, b = Tried(c)
    PROVE  /\ b \in Connection /\ b.flight_buffer = c.flight_buffer /\ b.send_seq = c.send_seq
           /\ b.recv_seq = c.recv_seq /\ b.oldest_unacked_seq = c.oldest_unacked_seq
           /\ b.pending_writes = c.pending_writes
  <1>1. PICK r : r = c.retries + 1  OBVIOUS
  <1>2. c.retries \in Nat /\ ADSP_MAX_RETRIES \in Nat  BY ConnectionFacts, Constants
  <1>3. r \in 0..ADSP_MAX_RETRIES  BY <1>1, <1>2
  <1>4. b = [c EXCEPT !.retries = r]  BY <1>1 DEF Tried
  <1>. QED  BY <1>3, <1>4 DEF Connection

\* poll keeps the invariant, whether it sends again or gives up.
LEMMA PollKeeps ==
    ASSUME AdspIInv, NEW e \in Ends, Poll(e)
    PROVE  AdspIInv'
  <1>1. AdspTypeOK /\ Ways /\ Readers  BY DEF AdspIInv
  <1>2. PICK c, d, S, b : c = conn[e] /\ d = Peer(e) /\ S = sent[e] /\ b = Tried(c)  OBVIOUS
  <1>3. d \in Ends /\ d # e /\ e \in Ends  BY <1>2, EndFacts
  <1>4. c \in Connection /\ S \in Seq(Nat)  BY <1>1, <1>2, StateFacts
  <1>5. b.retries = c.retries + 1  BY <1>2, <1>4 DEF Tried, Connection
  <1>6. /\ st[e] = "open"
        /\ IF c.retries + 1 > ADSP_MAX_RETRIES
           THEN /\ st' = [st EXCEPT ![e] = "closed"]
                /\ conn' = [conn EXCEPT ![e] = NewConnection]
                /\ UNCHANGED cable
           ELSE Deliver(e, [c |-> b, out |-> ResendUnacked(b)]) /\ UNCHANGED st
        /\ UNCHANGED <<rx, eoms, skipping, sent, arrived, got, lost>>
    BY <1>2, <1>5 DEF Poll, Tried
  <1>7. CASE c.retries + 1 > ADSP_MAX_RETRIES
    <2>1. PICK se2 : se2 = "closed"  OBVIOUS
    <2>2. /\ st' = [st EXCEPT ![e] = se2] /\ conn' = [conn EXCEPT ![e] = NewConnection]
          /\ cable' = cable /\ UNCHANGED <<rx, eoms, skipping, sent, arrived, got, lost>>
      BY <1>6, <1>7, <2>1
    <2>3. cable' \in [Ends -> Seq(Packet)]  BY <1>1, <2>2 DEF AdspTypeOK
    <2>4. TailOr(cable[e], cable'[e]) /\ Advised(cable[d], cable'[d])  BY <2>2 DEF TailOr, Advised
    <2>5. se2 \in {"closed", "dropped"} /\ d = Peer(e)  BY <1>2, <2>1
    <2>6. /\ Ways' /\ conn' \in [Ends -> Connection] /\ st' \in [Ends -> {"open", "closed", "dropped"}]
      BY ONLY <1>1, <1>3, <2>2, <2>3, <2>4, <2>5, Closes
    <2>7. Readers'
      <3>1. st \in [Ends -> {"open", "closed", "dropped"}]  BY <1>1 DEF AdspTypeOK
      <3>2. \A f \in Ends : st'[f] = "dropped" <=> st[f] = "dropped"  BY <1>6, <2>1, <2>2, <3>1
      <3>. QED  BY ONLY <1>1, <2>2, <3>2 DEF Readers, MessageReader, ByteReader
    <2>8. AdspTypeOK'  BY ONLY <1>1, <2>2, <2>3, <2>6 DEF AdspTypeOK
    <2>. QED  BY <2>6, <2>7, <2>8 DEF AdspIInv
  <1>8. CASE ~(c.retries + 1 > ADSP_MAX_RETRIES)
    <2>1. PICK s : s = [c |-> b, out |-> ResendUnacked(b)]  OBVIOUS
    <2>2. Deliver(e, s) /\ UNCHANGED <<st, rx, eoms, skipping, sent, arrived, got, lost>>
      BY <1>6, <1>8, <2>1
    <2>3. /\ b \in Connection /\ b.flight_buffer = c.flight_buffer /\ b.send_seq = c.send_seq
          /\ b.recv_seq = c.recv_seq /\ b.oldest_unacked_seq = c.oldest_unacked_seq
          /\ b.pending_writes = c.pending_writes
      <3>1. b = Tried(c)  BY <1>2
      <3>. QED  BY ONLY <1>4, <1>8, <3>1, ConnectionTried
    <2>4. Sender(S, c)  BY <1>1, <1>2, <1>6 DEF Ways, Way, Sending
    <2>5. Sender(S, b)  BY ONLY <2>3, <2>4, SenderSame
    <2>6. Steps(S, b, s)  BY ONLY <1>4, <2>1, <2>3, <2>5, ResendSteps
    <2>7. PICK T \in Seq(Nat) : T = <<>>
      <3>1. <<>> \in Seq(Nat)  OBVIOUS
      <3>. QED  BY <3>1
    <2>8. S \o T = S  BY <1>4, <2>7, EmptyAfter
    <2>9. sent'[e] = S \o T /\ sent'[d] = sent[d]  BY <1>2, <2>2, <2>8
    <2>10. /\ AdspTypeOK /\ Ways /\ e \in Ends /\ st[e] = "open" /\ d = Peer(e) /\ T \in Seq(Nat)
           /\ Deliver(e, s) /\ sent'[d] = sent[d] /\ UNCHANGED <<st, arrived, lost>>
      BY <1>1, <1>2, <1>6, <2>2, <2>9
    <2>11. sent'[e] = sent[e] \o T /\ Steps(sent[e] \o T, b, s)  BY <1>2, <2>6, <2>8, <2>9
    <2>12. /\ b.send_seq = conn[e].send_seq /\ b.recv_seq = conn[e].recv_seq
           /\ b.oldest_unacked_seq = conn[e].oldest_unacked_seq
      BY <1>2, <2>3
    <2>13. Ways' /\ conn' \in [Ends -> Connection] /\ cable' \in [Ends -> Seq(Packet)]
      BY ONLY <2>10, <2>11, <2>12, Delivers
    <2>14. Readers'
      <3>1. UNCHANGED <<arrived, got, rx, eoms, skipping, st>>  BY <2>2
      <3>. QED  BY ONLY <1>1, <3>1, ReadersSame
    <2>15. AdspTypeOK'  BY ONLY <1>1, <2>2, <2>13 DEF AdspTypeOK
    <2>. QED  BY <2>13, <2>14, <2>15 DEF AdspIInv
  <1>. QED  BY <1>7, <1>8

-----------------------------------------------------------------------------
(* The theorems *)

\* A connection just opened satisfies the invariant.
LEMMA AdspInitial ==
    ASSUME AdspInit
    PROVE  AdspIInv
  <1>1. PICK none \in Seq(Nat) : none = <<>>
    <2>1. <<>> \in Seq(Nat)  OBVIOUS
    <2>. QED  BY <2>1
  <1>2. PICK ps \in Seq(Packet) : ps = <<>>
    <2>1. <<>> \in Seq(Packet)  OBVIOUS
    <2>. QED  BY <2>1
  <1>3. NewConnection \in Connection  BY NewConnectionFacts
  <1>4. AdspTypeOK
    <2>1. conn \in [Ends -> Connection] /\ st \in [Ends -> {"open", "closed", "dropped"}]
      BY <1>3 DEF AdspInit, Each
    <2>2. rx \in [Ends -> Seq(Nat)] /\ eoms \in [Ends -> Seq(Nat)] /\ skipping \in [Ends -> BOOLEAN]
      BY <1>1 DEF AdspInit, Each
    <2>3. cable \in [Ends -> Seq(Packet)]  BY <1>2 DEF AdspInit, Each
    <2>4. sent \in [Ends -> Seq(Nat)] /\ arrived \in [Ends -> Seq(Nat)] /\ got \in [Ends -> Seq(Nat)]
      BY <1>1 DEF AdspInit, Each
    <2>5. lost \in Seq({"data", "ack", "close"})
      <3>1. <<>> \in Seq({"data", "ack", "close"})  OBVIOUS
      <3>. QED  BY <3>1 DEF AdspInit
    <2>. QED  BY <2>1, <2>2, <2>3, <2>4, <2>5 DEF AdspTypeOK
  <1>5. PICK c : c = NewConnection  OBVIOUS
  <1>6. PICK z \in Nat : z = 0  OBVIOUS
  <1>7. Len(none) = z /\ Len(ps) = z /\ 1..Len(ps) = {}  BY <1>1, <1>2, <1>6
  <1>8. /\ c.send_seq = z /\ c.oldest_unacked_seq = z /\ c.recv_seq = z
        /\ c.flight_buffer = none /\ c.pending_writes = <<>>
    BY <1>1, <1>5, <1>6 DEF NewConnection
  <1>9. IsPrefix(none, none)  BY PrefixIs
  <1>10. Sender(none, c)
    <2>1. Laid(none, Len(none), <<>>)  BY LaidNone
    <2>2. Laid(none, c.send_seq, c.pending_writes)  BY <1>7, <1>8, <2>1
    <2>3. At(none, c.oldest_unacked_seq, c.flight_buffer, FALSE)
      <3>1. z + Len(none) + 0 <= Len(none) /\ 1..Len(none) = {}  BY <1>6, <1>7
      <3>2. Bit(FALSE) = 0  BY DEF Bit
      <3>3. c.oldest_unacked_seq + Len(c.flight_buffer) + Bit(FALSE) <= Len(none)  BY <1>8, <3>1, <3>2
      <3>. QED  BY <1>8, <3>1, <3>3 DEF At
    <2>4. c.send_seq <= Len(none) /\ c.oldest_unacked_seq + Len(c.flight_buffer) = c.send_seq
          /\ c.oldest_unacked_seq + Len(c.flight_buffer) <= c.send_seq
      BY <1>6, <1>7, <1>8
    <2>. QED  BY <2>2, <2>3, <2>4 DEF Sender
  <1>11. Runs(none, Len(none), ps, c.send_seq) /\ c.send_seq \in 0..Len(none)
    <2>1. z \in 0..Len(none)  BY <1>6, <1>7
    <2>2. Runs(none, z, <<>>, z)  BY ONLY <1>1, <2>1, RunsNone
    <2>. QED  BY <1>2, <1>7, <1>8, <2>1, <2>2
  <1>12. c.oldest_unacked_seq <= Len(none)  BY <1>6, <1>7, <1>8
  <1>13. Way(none, none, c, "open", c, "open", ps, ps, <<>>)
    <2>1. Sending(none, none, c, "open")  BY <1>10, <1>12 DEF Sending
    <2>2. Counted(none, c, "open")  BY <1>7, <1>8 DEF Counted
    <2>3. Acked(none, ps) /\ Truthful(none, ps)  BY <1>7 DEF Acked, Truthful
    <2>4. InLine(none, none, c, "open", "open", ps, <<>>)  BY <1>11 DEF InLine
    <2>5. Intact(none, none, <<>>)  BY <1>9 DEF Intact
    <2>. QED  BY <2>1, <2>2, <2>3, <2>4, <2>5 DEF Way
  <1>14. Ways
    <2>1. SUFFICES ASSUME NEW e \in Ends
                   PROVE  Way(sent[e], arrived[Peer(e)], conn[e], st[e], conn[Peer(e)], st[Peer(e)],
                              cable[Peer(e)], cable[e], lost)
      BY DEF Ways
    <2>2. Peer(e) \in Ends  BY EndFacts
    <2>3. /\ sent[e] = none /\ arrived[Peer(e)] = none /\ conn[e] = c /\ conn[Peer(e)] = c
          /\ st[e] = "open" /\ st[Peer(e)] = "open" /\ cable[Peer(e)] = ps /\ cable[e] = ps /\ lost = <<>>
      BY <1>1, <1>2, <1>5, <2>2 DEF AdspInit, Each
    <2>. QED  BY <1>13, <2>3
  <1>15. Readers
    <2>1. SUFFICES ASSUME NEW e \in Ends
                   PROVE  IF e \in MessageReaders
                          THEN MessageReader(arrived[e], got[e], rx[e], eoms[e], skipping[e], st[e])
                          ELSE ByteReader(arrived[e], got[e], rx[e], eoms[e], skipping[e], st[e])
      BY DEF Readers
    <2>2. /\ arrived[e] = none /\ got[e] = none /\ rx[e] = <<>> /\ eoms[e] = <<>> /\ ~skipping[e]
      BY <1>1 DEF AdspInit, Each
    <2>3. Held(none, Len(none), <<>>, <<>>)  BY HeldNone
    <2>4. Between(none, Len(none)) /\ Len(none) \in 0..Len(none)  BY <1>6, <1>7 DEF Between
    <2>5. Whole(none, none)
      <3>1. DOMAIN none = {}  BY <1>1
      <3>. QED  BY <3>1 DEF Whole
    <2>6. MessageReader(none, none, <<>>, <<>>, skipping[e], st[e])
      BY <2>2, <2>3, <2>4, <2>5 DEF MessageReader
    <2>7. ByteReader(none, none, <<>>, <<>>, skipping[e], st[e])  BY <1>9, <2>2, <2>3 DEF ByteReader
    <2>. QED  BY <2>2, <2>6, <2>7
  <1>. QED  BY <1>4, <1>14, <1>15 DEF AdspIInv

\* Every step keeps it.
LEMMA AdspStep ==
    AdspIInv /\ [AdspNext]_adspVars => AdspIInv'
  <1>1. SUFFICES ASSUME AdspIInv, [AdspNext]_adspVars PROVE AdspIInv'  OBVIOUS
  <1>2. CASE UNCHANGED adspVars
    <2>1. UNCHANGED <<conn, st, rx, eoms, skipping, cable, sent, arrived, got, lost>>  BY <1>2 DEF adspVars
    <2>2. AdspTypeOK /\ Ways /\ Readers  BY <1>1 DEF AdspIInv
    <2>3. Ways'  BY ONLY <2>1, <2>2, WaysSame
    <2>4. Readers'  BY ONLY <2>1, <2>2, ReadersSame
    <2>5. AdspTypeOK'  BY ONLY <2>1, <2>2 DEF AdspTypeOK
    <2>. QED  BY <2>3, <2>4, <2>5 DEF AdspIInv
  <1>3. CASE Writing
    <2>1. PICK e \in Writers, n \in WriteSizes, eom \in EomChoices : Write(e, n, eom)  BY <1>3 DEF Writing
    <2>2. e \in Ends /\ n \in Nat /\ eom \in BOOLEAN  BY <2>1, Constants, AdspAssumption
    <2>. QED  BY <1>1, <2>1, <2>2, WriteKeeps
  <1>4. ASSUME NEW e \in Ends, Receive(e) PROVE AdspIInv'  BY <1>1, <1>4, ReceiveKeeps
  <1>5. ASSUME NEW e \in Ends, ReceiveClose(e) PROVE AdspIInv'  BY <1>1, <1>5, ReceiveCloseKeeps
  <1>6. ASSUME NEW e \in Ends, Poll(e) PROVE AdspIInv'  BY <1>1, <1>6, PollKeeps
  <1>7. ASSUME NEW e \in Ends, Drop(e) PROVE AdspIInv'  BY <1>1, <1>7, DropKeeps
  <1>8. ASSUME NEW e \in Ends, Lose(e) PROVE AdspIInv'  BY <1>1, <1>8, LoseKeeps
  <1>9. ASSUME NEW e \in Ends, ByteRead(e) PROVE AdspIInv'
    <2>1. PICK size \in ReadSizes : e \notin MessageReaders /\ Read(e, size)  BY <1>9 DEF ByteRead
    <2>2. size \in Nat  BY <2>1, Constants
    <2>. QED  BY <1>1, <2>1, <2>2, ReadKeeps
  <1>10. ASSUME NEW e \in Ends, MessageRead(e) PROVE AdspIInv'
    <2>1. PICK size \in ReadSizes : e \in MessageReaders /\ (ReadMessage(e, size) \/ SkipMessage(e, size))
      BY <1>10 DEF MessageRead
    <2>2. CASE ReadMessage(e, size)  BY <1>1, <2>1, <2>2, ReadMessageKeeps
    <2>3. CASE SkipMessage(e, size)  BY <1>1, <2>1, <2>3, SkipMessageKeeps
    <2>. QED  BY <2>1, <2>2, <2>3
  <1>. QED  BY <1>1, <1>2, <1>3, <1>4, <1>5, <1>6, <1>7, <1>8, <1>9, <1>10 DEF AdspNext

\* The invariant holds: both directions are as described, and so is what readers see.
THEOREM AdspInvariant == AdspSpec => []AdspIInv
  BY AdspInitial, AdspStep, PTL DEF AdspSpec

\* Types of the state: no connection outlives its retries, no packet offers more than RX_WINDOW.
THEOREM AdspTypeCorrect == AdspSpec => []AdspTypeOK
  <1>1. AdspIInv => AdspTypeOK  BY DEF AdspIInv
  <1>. QED  BY <1>1, AdspInvariant, PTL

\* handle_data against resend_unacked: what arrives is what was written, whatever is lost or sent again.
THEOREM StreamStaysIntact == AdspSpec => []StreamIntact
  <1>1. AdspIInv => StreamIntact  BY DEF AdspIInv, Ways, Way, Intact, StreamIntact
  <1>. QED  BY <1>1, AdspInvariant, PTL

\* flush_data: an empty backlog means that the peer has everything.
THEOREM FlushMeansReceived == AdspSpec => []FlushedIsReceived
  <1>1. ASSUME AdspIInv, NEW e \in Ends, st[e] = "open", NoMarks(sent[e]), TxBacklog(conn[e]) = 0
        PROVE  arrived[Peer(e)] = sent[e]
    <2>1. AdspTypeOK /\ Ways  BY <1>1 DEF AdspIInv
    <2>2. PICK c, S, A, o, x, F, ws : /\ c = conn[e] /\ S = sent[e] /\ A = arrived[Peer(e)]
                                      /\ o = c.oldest_unacked_seq /\ x = c.send_seq
                                      /\ F = c.flight_buffer /\ ws = c.pending_writes
      OBVIOUS
    <2>3. c \in Connection /\ S \in Seq(Nat) /\ A \in Seq(Nat)  BY <2>1, <2>2, EndFacts, StateFacts
    <2>4. Way(S, A, c, st[e], conn[Peer(e)], st[Peer(e)], cable[Peer(e)], cable[e], lost)
      BY <2>1, <2>2 DEF Ways
    <2>5. Sender(S, c) /\ o <= Len(A)  BY <1>1, <2>2, <2>4 DEF Way, Sending
    <2>6. IsPrefix(A, S)  BY <1>1, <2>2, <2>4 DEF Way, Intact
    <2>7. Len(F) = 0 /\ \A k \in 1..Len(ws) : Len(ws[k].data) = 0  BY <1>1, <2>2, <2>3, BacklogFacts
    <2>8. Laid(S, x, ws) /\ o + Len(F) = x  BY <1>1, <2>2, <2>5 DEF Sender
    <2>9. ws \in Seq(WriteType) /\ o \in Nat /\ x \in Nat  BY <2>2, <2>3, ConnectionFacts
    <2>10. NoMarks(S)  BY <1>1, <2>2
    <2>11. x = Len(S)  BY ONLY <2>3, <2>7, <2>8, <2>9, <2>10, LaidEmpty
    <2>12. Len(A) <= Len(S) /\ \A i \in 1..Len(A) : A[i] = S[i]  BY <2>3, <2>6, PrefixIs
    <2>13. Len(A) \in Nat /\ Len(S) \in Nat  BY <2>3
    <2>14. Len(A) = Len(S)
      <3>1. o = x  BY ONLY <2>7, <2>8, <2>9
      <3>. QED  BY ONLY <2>5, <2>9, <2>11, <2>12, <2>13, <3>1
    <2>15. A = S  BY ONLY <2>3, <2>12, <2>14, SeqEqual
    <2>. QED  BY <2>2, <2>15
  <1>2. AdspIInv => FlushedIsReceived  BY <1>1 DEF FlushedIsReceived
  <1>. QED  BY <1>2, AdspInvariant, PTL

\* read_with_eom and read_message: what a caller reads is what arrived.
THEOREM ReadsAreRight == AdspSpec => []ReadsRight
  <1>1. AdspIInv => ReadsInOrder  BY DEF AdspIInv, Readers, ByteReader, ReadsInOrder
  <1>2. AdspIInv => WholeMessages
    <2>1. SUFFICES ASSUME AdspIInv, NEW e \in MessageReaders PROVE Whole(got[e], arrived[e])
      BY DEF WholeMessages, Whole
    <2>2. e \in Ends  BY AdspAssumption
    <2>. QED  BY <2>1, <2>2 DEF AdspIInv, Readers, MessageReader
  <1>3. AdspIInv => ReadsRight  BY <1>1, <1>2 DEF ReadsRight
  <1>. QED  BY <1>3, AdspInvariant, PTL

=============================================================================
