----------------------------- MODULE AtpProofs -----------------------------
(***************************************************************************)
(* Proofs about the transaction protocol: types, exactly-once execution,   *)
(* and what callers are given, for every number of clients, every timing   *)
(* and every capacity.                                                     *)
(***************************************************************************)
EXTENDS Atp, TLAPS, SequenceTheorems, FiniteSetTheorems

-----------------------------------------------------------------------------
(* The inductive invariant *)

\* The responder has taken transaction x in: it was queued or dropped at the queue.
Accepted(x) == delivered[x] > 0 \/ x \in dropped

IsReq(m, t) == m.type = "TReq" /\ m.tid = t
IsRel(m, t) == m.type = "TRel" /\ m.tid = t

\* Another copy of the request may still reach the responder.
Live(x) ==
    \/ x \in DOMAIN pending
    \/ \E i \in 1..Len(c2s[x[1]]) : IsReq(c2s[x[1]][i], x[2])

Interval == RETRY_INTERVAL + POLL_SLACK

\* The latest moment at which x can still be pending.
Budget(x) ==
    pending[x].retry_at + POLL_SLACK + (MAX_RETRIES - pending[x].retries) * Interval

\* Nothing on the cable is overdue, no poll is later than its slack.
Timely ==
    /\ \A c \in Clients : \A i \in 1..Len(c2s[c]) :
          c2s[c][i].sent <= now /\ now <= c2s[c][i].sent + MAX_DELAY
    /\ \A x \in DOMAIN pending :
          /\ pending[x].retry_at <= now + RETRY_INTERVAL
          /\ now <= pending[x].retry_at + POLL_SLACK

\* A tid not yet allocated has left no trace.
Fresh ==
    /\ \A x \in DOMAIN pending : x[2] < next_tid[x[1]]
    /\ \A c \in Clients : \A i \in 1..Len(c2s[c]) : c2s[c][i].tid < next_tid[c]
    /\ \A x \in Trans : Accepted(x) => x[2] < next_tid[x[1]]
    /\ \A e \in reply_cache : e.trans[2] < next_tid[e.trans[1]]
    /\ \A r \in serving : Accepted(r.trans)
    /\ \A i \in 1..Len(requests) : Accepted(requests[i].trans)

\* A TRel is the last the cable sees of its transaction.
ReleaseLast ==
    \A c \in Clients : \A i \in 1..Len(c2s[c]) : \A t \in Tids :
        IsRel(c2s[c][i], t) =>
            /\ <<c, t>> \notin DOMAIN pending
            /\ \A j \in 1..Len(c2s[c]) : i < j => ~IsReq(c2s[c][j], t)

\* An at-least-once packet is sent a single time.
AloAlone(c, i, t) ==
    IsReq(c2s[c][i], t) /\ ~c2s[c][i].xo =>
        /\ ~Accepted(<<c, t>>)
        /\ <<c, t>> \notin DOMAIN pending
        /\ \A j \in 1..Len(c2s[c]) : i # j => ~IsReq(c2s[c][j], t)

AloOnce ==
    \A c \in Clients : \A i \in 1..Len(c2s[c]) : \A t \in Tids : AloAlone(c, i, t)

\* A transaction taken in that may be seen again is still remembered.
Remembered ==
    \A x \in Trans : Accepted(x) /\ Live(x) /\ x \notin evicted =>
        \/ \E i \in 1..Len(in_progress) : in_progress[i] = x
        \/ \E e \in reply_cache : e.trans = x

\* A cached answer outlives every copy of its request.
Outlives ==
    \A e \in reply_cache :
        /\ e.trans \in DOMAIN pending => e.expires_at > Budget(e.trans) + MAX_DELAY
        /\ \A i \in 1..Len(c2s[e.trans[1]]) :
              IsReq(c2s[e.trans[1]][i], e.trans[2]) =>
                  e.expires_at > c2s[e.trans[1]][i].sent + MAX_DELAY

\* What the callers are promised.
Once ==
    \A x \in Trans \ evicted :
        delivered[x] <= 1 /\ (x \in dropped => delivered[x] = 0)

ExactlyOnceInv ==
    Timely /\ Fresh /\ ReleaseLast /\ AloOnce /\ Remembered /\ Outlives /\ Once

-----------------------------------------------------------------------------
(* Lemmas about the operators *)

\* A map extended by a key, and a map restricted, keep the type of their values.
LEMMA WithType ==
    ASSUME NEW K, NEW V, NEW D \in SUBSET K, NEW f \in [D -> V], NEW x \in K, NEW v \in V
    PROVE  /\ \E E \in SUBSET K : With(f, x, v) \in [E -> V]
           /\ DOMAIN With(f, x, v) = DOMAIN f \cup {x}
           /\ With(f, x, v)[x] = v
           /\ \A y \in DOMAIN f : y # x => With(f, x, v)[y] = f[y]
  <1>1. With(f, x, v) \in [D \cup {x} -> V]  BY DEF With
  <1>. QED  BY <1>1 DEF With

\* A map without one of its keys keeps the type of its values.
LEMMA WithoutType ==
    ASSUME NEW K, NEW V, NEW D \in SUBSET K, NEW f \in [D -> V], NEW x
    PROVE  /\ \E E \in SUBSET K : Without(f, x) \in [E -> V]
           /\ DOMAIN Without(f, x) = DOMAIN f \ {x}
           /\ \A y \in DOMAIN f : y # x => Without(f, x)[y] = f[y]
  <1>1. Without(f, x) \in [D \ {x} -> V]  BY DEF Without, Restrict
  <1>. QED  BY <1>1 DEF Without, Restrict

\* Removing an element from a sequence keeps its type and every other element.
LEMMA RemoveType ==
    ASSUME NEW S, NEW q \in Seq(S), NEW x
    PROVE  /\ Remove(q, x) \in Seq(S)
           /\ Len(Remove(q, x)) <= Len(q)
           /\ \A i \in 1..Len(q) : q[i] # x =>
                 \E j \in 1..Len(Remove(q, x)) : Remove(q, x)[j] = q[i]
  <1>1. CASE ~\E i \in DOMAIN q : q[i] = x
    BY <1>1 DEF Remove
  <1>2. CASE \E i \in DOMAIN q : q[i] = x
    <2>. DEFINE k == CHOOSE i \in DOMAIN q : q[i] = x
                r == RemoveAt(q, k)
    <2>1. k \in 1..Len(q) /\ q[k] = x  BY <1>2
    <2>. HIDE DEF k
    <2>2. r = [j \in 1..(Len(q) - 1) |-> IF j < k THEN q[j] ELSE q[j + 1]]
      BY DEF RemoveAt
    <2>3. \A j \in 1..(Len(q) - 1) : (IF j < k THEN q[j] ELSE q[j + 1]) \in S
      BY <2>1
    <2>4. r \in Seq(S) /\ Len(r) = Len(q) - 1
      BY <2>1, <2>2, <2>3
    <2>5. ASSUME NEW i \in 1..Len(q), q[i] # x
          PROVE  \E j \in 1..Len(r) : r[j] = q[i]
      <3>1. CASE i < k
        BY <3>1, <2>1, <2>2, <2>4, i \in 1..Len(r)
      <3>2. CASE i > k
        BY <3>2, <2>1, <2>2, <2>4, i - 1 \in 1..Len(r), r[i - 1] = q[i]
      <3>. QED  BY <3>1, <3>2, <2>5, <2>1
    <2>6. Remove(q, x) = r  BY <1>2 DEF Remove, k
    <2>. QED  BY <2>4, <2>5, <2>6
  <1>. QED  BY <1>1, <1>2

\* A FIFO of the responder stays within its capacity and holds what was pushed.
LEMMA PushType ==
    ASSUME NEW S, NEW q \in Seq(S), NEW x \in S, Len(q) <= REPLY_CACHE_LEN
    PROVE  /\ Push(q, x) \in Seq(S)
           /\ Len(Push(q, x)) <= REPLY_CACHE_LEN
           /\ Displaced(q) \subseteq S
           /\ \E j \in 1..Len(Push(q, x)) : Push(q, x)[j] = x
  <1>. USE ConstantsAssumption
  <1>1. CASE Full(Len(q))
    <2>1. q # <<>> /\ Len(q) = REPLY_CACHE_LEN  BY <1>1 DEF Full
    <2>. DEFINE r == Tail(q)
    <2>2. /\ r \in Seq(S) /\ Len(r) = Len(q) - 1
          /\ \A i \in 1..Len(r) : r[i] = q[i + 1]
          /\ Head(q) \in S /\ Head(q) = q[1]
      BY <2>1, HeadTailProperties
    <2>3. Push(q, x) = Append(r, x) /\ Displaced(q) = {Head(q)}
      BY <1>1 DEF Push, Displaced
    <2>. HIDE DEF r
    <2>4. /\ Append(r, x) \in Seq(S) /\ Len(Append(r, x)) = Len(r) + 1
          /\ \A i \in 1..Len(r) : Append(r, x)[i] = r[i]
          /\ Append(r, x)[Len(r) + 1] = x
      BY <2>2, AppendProperties
    <2>. QED  BY <2>1, <2>2, <2>3, <2>4
  <1>2. CASE ~Full(Len(q))
    <2>1. Push(q, x) = Append(q, x) /\ Displaced(q) = {}
      BY <1>2 DEF Push, Displaced
    <2>2. /\ Append(q, x) \in Seq(S) /\ Len(Append(q, x)) = Len(q) + 1
          /\ \A i \in 1..Len(q) : Append(q, x)[i] = q[i]
          /\ Append(q, x)[Len(q) + 1] = x
      BY AppendProperties
    <2>3. Len(q) < REPLY_CACHE_LEN  BY <1>2 DEF Full
    <2>. QED  BY <2>1, <2>2, <2>3
  <1>. QED  BY <1>1, <1>2

\* It keeps every element it does not report as displaced.
LEMMA PushKeeps ==
    ASSUME NEW S, NEW q \in Seq(S), NEW x \in S, Len(q) <= REPLY_CACHE_LEN,
           NEW i \in 1..Len(q), q[i] \notin Displaced(q)
    PROVE  \E j \in 1..Len(Push(q, x)) : Push(q, x)[j] = q[i]
  <1>. USE ConstantsAssumption
  <1>1. CASE Full(Len(q))
    <2>1. q # <<>>  OBVIOUS
    <2>. DEFINE r == Tail(q)
    <2>2. /\ r \in Seq(S) /\ Len(r) = Len(q) - 1
          /\ \A h \in 1..Len(r) : r[h] = q[h + 1]
          /\ Head(q) = q[1]
      BY <2>1, HeadTailProperties
    <2>3. Push(q, x) = Append(r, x) /\ i # 1
      BY <1>1, <2>2 DEF Push, Displaced
    <2>. HIDE DEF r
    <2>4. /\ Len(Append(r, x)) = Len(r) + 1
          /\ \A h \in 1..Len(r) : Append(r, x)[h] = r[h]
      BY <2>2, AppendProperties
    <2>5. i - 1 \in 1..Len(r) /\ i - 1 \in 1..Len(Append(r, x))
      BY <2>2, <2>3, <2>4
    <2>6. Append(r, x)[i - 1] = r[i - 1] /\ r[i - 1] = q[(i - 1) + 1]
      BY <2>2, <2>4, <2>5
    <2>. QED  BY <2>3, <2>5, <2>6
  <1>2. CASE ~Full(Len(q))
    <2>1. Push(q, x) = Append(q, x)  BY <1>2 DEF Push
    <2>2. /\ Len(Append(q, x)) = Len(q) + 1
          /\ \A h \in 1..Len(q) : Append(q, x)[h] = q[h]
      BY AppendProperties
    <2>. QED  BY <2>1, <2>2
  <1>. QED  BY <1>1, <1>2

\* A message put at the end of one channel, or taken from its head, leaves a map of
\* channels.
LEMMA ChannelType ==
    ASSUME NEW S, NEW ch \in [Clients -> Seq(S)], NEW c \in Clients
    PROVE  /\ \A m \in S : [ch EXCEPT ![c] = Append(@, m)] \in [Clients -> Seq(S)]
           /\ \A q \in Seq(S) : [ch EXCEPT ![c] = @ \o q] \in [Clients -> Seq(S)]
           /\ ch[c] # <<>> =>
                 /\ [ch EXCEPT ![c] = Tail(@)] \in [Clients -> Seq(S)]
                 /\ Head(ch[c]) \in S
  <1>1. ch[c] \in Seq(S)  OBVIOUS
  <1>2. \A m \in S : Append(ch[c], m) \in Seq(S)  BY <1>1, AppendProperties
  <1>3. \A q \in Seq(S) : ch[c] \o q \in Seq(S)  BY <1>1, ConcatProperties
  <1>4. ch[c] # <<>> => Tail(ch[c]) \in Seq(S) /\ Head(ch[c]) \in S
    BY <1>1, HeadTailProperties
  <1>. QED  BY <1>1, <1>2, <1>3, <1>4

\* The packets of an answer of n packets, and the messages that carry them.
LEMMA PacketsType ==
    ASSUME NEW n \in 1..MAX_SLOTS, NEW a \in Nat
    PROVE  Packets(n, a) \in Seq(PacketType)
  <1>. USE ConstantsAssumption
  <1>1. \A i \in 1..n : [seq |-> i - 1, eom |-> i = n, ans |-> a] \in PacketType
    BY DEF PacketType, Slots
  <1>. QED  BY <1>1 DEF Packets

\* What respond puts on the cable is well typed.
LEMMA TransmitType ==
    ASSUME now \in Nat, s2c \in [Clients -> Seq(RespType)], NEW c \in Clients,
           NEW t \in Tids, NEW ps \in Seq(PacketType), Transmit(c, t, ps)
    PROVE  s2c' \in [Clients -> Seq(RespType)]
  <1>. DEFINE q == [i \in DOMAIN ps |-> TResp(t, ps[i])]
  <1>0. ASSUME NEW p \in PacketType PROVE TResp(t, p) \in RespType
    <2>1. p.seq \in Slots /\ p.eom \in BOOLEAN /\ p.ans \in Nat  BY DEF PacketType
    <2>. QED  BY <2>1, Zenon DEF TResp, RespType
  <1>1. \A i \in 1..Len(ps) : TResp(t, ps[i]) \in RespType
    BY <1>0
  <1>2. q \in Seq(RespType)
    <2>1. DOMAIN ps = 1..Len(ps) /\ Len(ps) \in Nat  OBVIOUS
    <2>2. q = [i \in 1..Len(ps) |-> TResp(t, ps[i])]  BY <2>1
    <2>. QED  BY <1>1, <2>1, <2>2
  <1>. HIDE DEF q
  <1>3. [s2c EXCEPT ![c] = @ \o q] \in [Clients -> Seq(RespType)]
    BY <1>2, ChannelType
  <1>. QED  BY <1>3 DEF Transmit, q

-----------------------------------------------------------------------------
(* Types *)

\* AtpEndpoint::new starts well typed.
LEMMA TypeInit == Init => TypeOK
  <1>. USE ConstantsAssumption
  <1>. SUFFICES ASSUME Init PROVE TypeOK
    OBVIOUS
  <1>1. \E D \in SUBSET Trans : pending \in [D -> PendingType]
    <2>1. pending \in [{} -> PendingType]  BY DEF Init
    <2>. QED  BY <2>1
  <1>2. IsFiniteSet(reply_cache) /\ Cardinality(reply_cache) = 0
    BY FS_EmptySet DEF Init
  <1>3. Len(<<>>) = 0 /\ \A S : <<>> \in Seq(S)
    BY EmptySeq
  <1>4. outcome \in [Trans -> OutcomeType]
    BY <1>3 DEF Init, OutcomeType, NoOutcome
  <1>. QED  BY <1>1, <1>2, <1>3, <1>4 DEF Init, TypeOK

\* Storing a response packet keeps the type of a pending request.
LEMMA StoreType ==
    ASSUME NEW p \in PendingType, NEW m \in RespType
    PROVE  Store(p, m) \in PendingType
  <1>1. m.seq \in Slots /\ m.ans \in Nat  BY DEF RespType
  <1>2. [p.received EXCEPT ![m.seq] = m.ans] \in [Slots -> Nat]
    BY <1>1 DEF PendingType
  <1>3. (IF m.eom THEN m.seq ELSE p.eom_seq) \in Slots \cup {-1}
    BY <1>1 DEF PendingType
  <1>. QED  BY <1>2, <1>3 DEF Store, PendingType

\* Handing an outcome to a caller keeps the type of the outcomes.
LEMMA ResolveType ==
    ASSUME outcome \in [Trans -> OutcomeType], NEW x, NEW r \in OutcomeType, Resolve(x, r)
    PROVE  outcome' \in [Trans -> OutcomeType]
  BY DEF Resolve

\* request keeps the types.
LEMMA TypeRequest ==
    ASSUME TypeOK, NEW c \in Clients, NEW n \in Bitmaps, Request(c, n)
    PROVE  TypeOK'
  <1>. USE ConstantsAssumption
  <1>. DEFINE t == next_tid[c]
              x == <<c, t>>
              p == [bitmap |-> n, received |-> [i \in Slots |-> 0], eom_seq |-> -1,
                    retries |-> 0, retry_at |-> now + RETRY_INTERVAL]
  <1>1. t \in Tids /\ x \in Trans /\ next_tid' \in [Clients -> Nat \ {0}]
    <2>1. AllocateTid(c)  BY DEF Request
    <2>2. next_tid \in [Clients -> Nat \ {0}]  BY DEF TypeOK
    <2>3. t \in Tids /\ next_tid' \in [Clients -> Nat \ {0}]
      BY <2>1, <2>2 DEF AllocateTid, Tids
    <2>. QED  BY <2>3 DEF Trans
  <1>2. \E D \in SUBSET Trans : pending' \in [D -> PendingType]
    <2>1. p \in PendingType
      <3>1. n \in 0..MAX_SLOTS /\ 0 \in 0..MAX_RETRIES /\ now + RETRY_INTERVAL \in Nat
        BY DEF TypeOK
      <3>2. [i \in Slots |-> 0] \in [Slots -> Nat]  OBVIOUS
      <3>. QED  BY <3>1, <3>2 DEF PendingType
    <2>2. pending' = With(pending, x, p)
      BY DEF Request
    <2>3. PICK D \in SUBSET Trans : pending \in [D -> PendingType]
      BY DEF TypeOK
    <2>. HIDE DEF p, x
    <2>. QED  BY <1>1, <2>1, <2>2, <2>3, WithType
  <1>3. outcome' \in [Trans -> OutcomeType]
    <2>1. NoOutcome("waiting") \in OutcomeType
      BY EmptySeq DEF NoOutcome, OutcomeType
    <2>. QED  BY <2>1 DEF Request, TypeOK
  <1>4. c2s' \in [Clients -> Seq(ReqType \cup RelType)]
    <2>1. TReq(t, TRUE, n) \in ReqType
      <3>1. n \in 0..MAX_SLOTS /\ now \in Nat  BY DEF TypeOK
      <3>. QED  BY <1>1, <3>1, Zenon DEF TReq, ReqType
    <2>2. c2s' = [c2s EXCEPT ![c] = Append(@, TReq(t, TRUE, n))]
      BY DEF Request
    <2>. QED  BY <2>1, <2>2, ChannelType DEF TypeOK
  <1>. QED  BY <1>1, <1>2, <1>3, <1>4 DEF Request, TypeOK, serverVars, history

\* send_alo keeps the types.
LEMMA TypeSendAlo ==
    ASSUME TypeOK, NEW c \in Clients, SendAlo(c)
    PROVE  TypeOK'
  <1>. USE ConstantsAssumption
  <1>. DEFINE t == next_tid[c]
  <1>1. t \in Tids /\ next_tid' \in [Clients -> Nat \ {0}]
    <2>1. AllocateTid(c)  BY DEF SendAlo
    <2>2. next_tid \in [Clients -> Nat \ {0}]  BY DEF TypeOK
    <2>. QED  BY <2>1, <2>2 DEF AllocateTid, Tids
  <1>4. c2s' \in [Clients -> Seq(ReqType \cup RelType)]
    <2>1. TReq(t, FALSE, MAX_SLOTS) \in ReqType
      <3>1. MAX_SLOTS \in 0..MAX_SLOTS /\ now \in Nat  BY DEF TypeOK
      <3>. QED  BY <1>1, <3>1, Zenon DEF TReq, ReqType
    <2>2. c2s' = [c2s EXCEPT ![c] = Append(@, TReq(t, FALSE, MAX_SLOTS))]
      BY DEF SendAlo
    <2>. QED  BY <2>1, <2>2, ChannelType DEF TypeOK
  <1>. QED  BY <1>1, <1>4 DEF SendAlo, TypeOK, serverVars, history

\* A dropped future keeps the types.
LEMMA TypeAbandon ==
    ASSUME TypeOK, NEW x \in Trans, Abandon(x)
    PROVE  TypeOK'
  <1>1. outcome' \in [Trans -> OutcomeType]
    <2>1. NoOutcome("abandoned") \in OutcomeType
      BY EmptySeq DEF NoOutcome, OutcomeType
    <2>. QED  BY <2>1 DEF Abandon, TypeOK
  <1>. QED  BY <1>1 DEF Abandon, TypeOK, serverVars, history

\* A response handled by a requestor keeps the types.
LEMMA TypeClientReceive ==
    ASSUME TypeOK, NEW c \in Clients, ClientReceive(c)
    PROVE  TypeOK'
  <1>. USE ConstantsAssumption
  <1>. DEFINE m == Head(s2c[c])
              t == m.tid
              x == <<c, t>>
              p == Store(pending[x], m)
  <1>1. m \in RespType /\ s2c' \in [Clients -> Seq(RespType)]
    <2>1. s2c' = [s2c EXCEPT ![c] = Tail(@)] /\ s2c[c] # <<>>
      BY DEF ClientReceive
    <2>. QED  BY <2>1, ChannelType DEF TypeOK
  <1>2. t \in Tids /\ x \in Trans
    BY <1>1 DEF RespType, Trans
  <1>3. PICK D \in SUBSET Trans : pending \in [D -> PendingType]
    BY DEF TypeOK
  <1>. HIDE DEF m
  <1>4. x \in DOMAIN pending => p \in PendingType
    BY <1>1, <1>3, StoreType
  <1>. SUFFICES /\ \E E \in SUBSET Trans : pending' \in [E -> PendingType]
                /\ outcome' \in [Trans -> OutcomeType]
                /\ c2s' \in [Clients -> Seq(ReqType \cup RelType)]
    BY <1>1 DEF ClientReceive, TypeOK, serverVars, history
  <1>5. CASE x \notin DOMAIN pending
    BY <1>5, <1>3 DEF ClientReceive, TypeOK, m
  <1>6. CASE x \in DOMAIN pending /\ ~Complete(p)
    <2>1. pending' = [pending EXCEPT ![x] = p] /\ UNCHANGED <<outcome, c2s>>
      BY <1>6 DEF ClientReceive, m
    <2>2. pending' \in [D -> PendingType]
      BY <2>1, <1>3, <1>4, <1>6
    <2>. QED  BY <2>1, <2>2 DEF TypeOK
  <1>7. CASE x \in DOMAIN pending /\ Complete(p)
    <2>1. Finish(c, t, p)
      BY <1>7 DEF ClientReceive, m
    <2>2. \E E \in SUBSET Trans : pending' \in [E -> PendingType]
      <3>1. pending' = Without(pending, x)  BY <2>1 DEF Finish
      <3>. QED  BY <3>1, <1>3, WithoutType
    <2>3. CASE UNCHANGED <<c2s, outcome>>
      BY <2>2, <2>3 DEF TypeOK
    <2>. DEFINE n == Expected(p)
                d == [i \in 1..n |-> p.received[i - 1]]
    <2>4. CASE /\ \A i \in 0..(n - 1) : i \in Filled(p)
               /\ c2s' = [c2s EXCEPT ![c] = Append(@, TRel(t))]
               /\ Resolve(x, Response(d))
      <3>1. TRel(t) \in RelType
        BY <1>2 DEF TRel, RelType, TypeOK
      <3>2. c2s' \in [Clients -> Seq(ReqType \cup RelType)]
        BY <3>1, <2>4, ChannelType DEF TypeOK
      <3>3. p \in PendingType  BY <1>4, <1>7
      <3>4. n \in Nat
        <4>1. CASE p.eom_seq # -1
          BY <4>1, <3>3 DEF Expected, PendingType, Slots
        <4>2. CASE p.eom_seq = -1
          <5>1. IsFiniteSet(Slots)  BY FS_Interval DEF Slots
          <5>2. IsFiniteSet(Filled(p))  BY <5>1, FS_Subset, Filled(p) \subseteq Slots DEF Filled
          <5>3. Cardinality(Filled(p)) \in Nat  BY <5>2, FS_CardinalityType
          <5>. QED  BY <4>2, <5>3 DEF Expected
        <4>. QED  BY <4>1, <4>2
      <3>. HIDE DEF n, p
      <3>5. \A i \in 1..n : p.received[i - 1] \in Nat
        <4>. SUFFICES ASSUME NEW i \in 1..n PROVE p.received[i - 1] \in Nat
          OBVIOUS
        <4>1. i - 1 \in Filled(p)  BY <2>4, <3>4
        <4>2. i - 1 \in Slots  BY <4>1 DEF Filled
        <4>. QED  BY <4>2, <3>3 DEF PendingType
      <3>6. d \in Seq(Nat)  BY <3>4, <3>5
      <3>7. Response(d) \in OutcomeType
        BY <3>6 DEF Response, OutcomeType
      <3>8. outcome' \in [Trans -> OutcomeType]
        BY <2>4, <3>7, ResolveType DEF TypeOK
      <3>. QED  BY <2>2, <3>2, <3>8
    <2>. QED  BY <2>1, <2>3, <2>4 DEF Finish
  <1>. QED  BY <1>5, <1>6, <1>7

\* A retry or a failed request keeps the types.
LEMMA TypeClientPoll ==
    ASSUME TypeOK, NEW x \in Trans, ClientPoll(x)
    PROVE  TypeOK'
  <1>. USE ConstantsAssumption
  <1>. DEFINE p == [pending[x] EXCEPT !.retries = @ + 1,
                                      !.retry_at = now + RETRY_INTERVAL]
  <1>1. PICK D \in SUBSET Trans : pending \in [D -> PendingType]
    BY DEF TypeOK
  <1>2. x \in D /\ pending[x] \in PendingType
    BY <1>1 DEF ClientPoll
  <1>3. x[1] \in Clients /\ x[2] \in Tids /\ now + RETRY_INTERVAL \in Nat
    BY DEF Trans, TypeOK
  <1>. SUFFICES /\ \E E \in SUBSET Trans : pending' \in [E -> PendingType]
                /\ outcome' \in [Trans -> OutcomeType]
                /\ c2s' \in [Clients -> Seq(ReqType \cup RelType)]
    BY DEF ClientPoll, TypeOK, serverVars, history
  <1>4. CASE p.retries > MAX_RETRIES
    <2>1. /\ pending' = Without(pending, x)
          /\ Resolve(x, NoOutcome("failed"))
          /\ UNCHANGED c2s
      BY <1>4 DEF ClientPoll
    <2>2. NoOutcome("failed") \in OutcomeType
      BY EmptySeq DEF NoOutcome, OutcomeType
    <2>3. outcome' \in [Trans -> OutcomeType]
      BY <2>1, <2>2, ResolveType DEF TypeOK
    <2>4. \E E \in SUBSET Trans : pending' \in [E -> PendingType]
      BY <2>1, <1>1, WithoutType
    <2>. QED  BY <2>1, <2>3, <2>4 DEF TypeOK
  <1>5. CASE ~(p.retries > MAX_RETRIES)
    <2>1. /\ pending' = [pending EXCEPT ![x] = p]
          /\ c2s' = [c2s EXCEPT ![x[1]] = Append(@, TReq(x[2], TRUE, p.bitmap))]
          /\ UNCHANGED outcome
      BY <1>5 DEF ClientPoll
    <2>2. p \in PendingType
      <3>1. p.retries \in 0..MAX_RETRIES
        BY <1>2, <1>5 DEF PendingType
      <3>2. p.retries = pending[x].retries + 1
        BY <1>2 DEF PendingType
      <3>. QED  BY <1>2, <1>3, <3>1, <3>2 DEF PendingType
    <2>3. TReq(x[2], TRUE, p.bitmap) \in ReqType
      <3>1. p.bitmap \in 0..MAX_SLOTS /\ now \in Nat
        BY <2>2 DEF PendingType, TypeOK
      <3>. HIDE DEF p
      <3>. QED  BY <1>3, <3>1, Zenon DEF TReq, ReqType
    <2>. HIDE DEF p
    <2>4. c2s' \in [Clients -> Seq(ReqType \cup RelType)]
      BY <2>1, <2>3, <1>3, ChannelType DEF TypeOK
    <2>. QED  BY <2>1, <2>2, <2>4, <1>1, <1>2 DEF TypeOK
  <1>. QED  BY <1>4, <1>5

\* A request handled by the responder keeps the types and capacities.
LEMMA TypeHandleRequest ==
    ASSUME TypeOK, NEW c \in Clients, NEW m \in ReqType, HandleRequest(c, m)
    PROVE  /\ reply_cache' = reply_cache
           /\ in_progress' \in Seq(Trans) /\ Len(in_progress') <= REPLY_CACHE_LEN
           /\ requests' \in Seq(InboundType) /\ Len(requests') <= REQUEST_QUEUE_LEN
           /\ s2c' \in [Clients -> Seq(RespType)]
           /\ delivered' \in [Trans -> Nat]
           /\ dropped' \subseteq Trans /\ evicted' \subseteq Trans
  <1>. USE ConstantsAssumption
  <1>. DEFINE x == <<c, m.tid>>
  <1>0. m.tid \in Tids /\ x \in Trans
    BY DEF ReqType, Trans
  <1>1. CASE /\ \E e \in Oldest(Cached(x)) : Transmit(c, m.tid, e.packets)
             /\ UNCHANGED <<reply_cache, in_progress, requests, delivered, dropped, evicted>>
    <2>1. PICK e \in Oldest(Cached(x)) : Transmit(c, m.tid, e.packets)
      BY <1>1
    <2>2. e.packets \in Seq(PacketType)
      BY DEF Oldest, Cached, TypeOK, CacheType
    <2>3. s2c' \in [Clients -> Seq(RespType)]
      BY <2>1, <2>2, <1>0, TransmitType DEF TypeOK
    <2>. QED  BY <2>3, <1>1 DEF TypeOK
  <1>2. CASE UNCHANGED <<s2c, reply_cache, in_progress, requests, delivered, dropped, evicted>>
    BY <1>2 DEF TypeOK
  <1>3. CASE /\ IF m.xo
                THEN /\ in_progress' = Push(in_progress, x)
                     /\ evicted' = evicted \cup Displaced(in_progress)
                ELSE UNCHANGED <<in_progress, evicted>>
             /\ SortEvents(x, m)
             /\ UNCHANGED <<s2c, reply_cache>>
    <2>. HIDE DEF x
    <2>1. /\ in_progress' \in Seq(Trans) /\ Len(in_progress') <= REPLY_CACHE_LEN
          /\ evicted' \subseteq Trans
      <3>1. /\ Push(in_progress, x) \in Seq(Trans)
            /\ Len(Push(in_progress, x)) <= REPLY_CACHE_LEN
            /\ Displaced(in_progress) \subseteq Trans
        BY <1>0, PushType DEF TypeOK
      <3>. QED  BY <1>3, <3>1 DEF TypeOK
    <2>2. /\ requests' \in Seq(InboundType) /\ Len(requests') <= REQUEST_QUEUE_LEN
          /\ delivered' \in [Trans -> Nat] /\ dropped' \subseteq Trans
      <3>. DEFINE r == [trans |-> x, xo |-> m.xo, bitmap |-> m.bitmap]
      <3>1. r \in InboundType
        <4>1. m.xo \in BOOLEAN /\ m.bitmap \in 0..MAX_SLOTS  BY DEF ReqType
        <4>. QED  BY <4>1, <1>0, Zenon DEF InboundType
      <3>. HIDE DEF r
      <3>2. /\ Append(requests, r) \in Seq(InboundType)
            /\ Len(Append(requests, r)) = Len(requests) + 1
        BY <3>1, AppendProperties DEF TypeOK
      <3>3. CASE Len(requests) < REQUEST_QUEUE_LEN
        <4>1. /\ requests' = Append(requests, r)
              /\ delivered' = [delivered EXCEPT ![x] = @ + 1]
              /\ UNCHANGED dropped
          BY <1>3, <3>3 DEF SortEvents, r
        <4>2. delivered' \in [Trans -> Nat]
          BY <4>1, <1>0 DEF TypeOK
        <4>3. Len(requests') <= REQUEST_QUEUE_LEN
          BY <4>1, <3>2, <3>3 DEF TypeOK
        <4>. QED  BY <4>1, <4>2, <4>3, <3>2 DEF TypeOK
      <3>4. CASE ~(Len(requests) < REQUEST_QUEUE_LEN)
        BY <1>3, <3>4, <1>0 DEF SortEvents, TypeOK
      <3>. QED  BY <3>3, <3>4
    <2>. QED  BY <2>1, <2>2, <1>3 DEF TypeOK
  <1>. QED  BY <1>1, <1>2, <1>3 DEF HandleRequest

\* Every packet handled by the responder keeps the types.
LEMMA TypeServerReceive ==
    ASSUME TypeOK, NEW c \in Clients, ServerReceive(c)
    PROVE  TypeOK'
  <1>. USE ConstantsAssumption
  <1>. DEFINE m == Head(c2s[c])
  <1>1. /\ m \in ReqType \cup RelType
        /\ c2s' \in [Clients -> Seq(ReqType \cup RelType)]
    <2>1. c2s' = [c2s EXCEPT ![c] = Tail(@)] /\ c2s[c] # <<>>
      BY DEF ServerReceive
    <2>. QED  BY <2>1, ChannelType DEF TypeOK
  <1>2. CASE m.type = "TReq" /\ HandleRequest(c, m)
    <2>1. m \in ReqType  BY <1>1, <1>2 DEF RelType
    <2>. HIDE DEF m
    <2>2. /\ reply_cache' = reply_cache
          /\ in_progress' \in Seq(Trans) /\ Len(in_progress') <= REPLY_CACHE_LEN
          /\ requests' \in Seq(InboundType) /\ Len(requests') <= REQUEST_QUEUE_LEN
          /\ s2c' \in [Clients -> Seq(RespType)]
          /\ delivered' \in [Trans -> Nat]
          /\ dropped' \subseteq Trans /\ evicted' \subseteq Trans
      BY <1>2, <2>1, TypeHandleRequest
    <2>. QED  BY <1>1, <2>2 DEF ServerReceive, TypeOK, clientVars
  <1>3. CASE m.type = "TRel" /\ HandleRelease(c, m)
    <2>1. reply_cache' \subseteq reply_cache
      BY <1>3 DEF HandleRelease
    <2>2. IsFiniteSet(reply_cache') /\ Cardinality(reply_cache') <= Cardinality(reply_cache)
      BY <2>1, FS_Subset DEF TypeOK
    <2>3. Cardinality(reply_cache') <= REPLY_CACHE_LEN
      BY <2>1, <2>2, FS_CardinalityType DEF TypeOK
    <2>. QED  BY <1>1, <1>3, <2>1, <2>2, <2>3 DEF ServerReceive, HandleRelease, TypeOK, clientVars
  <1>. QED  BY <1>2, <1>3 DEF ServerReceive

\* next_request keeps the types.
LEMMA TypeNextRequest ==
    ASSUME TypeOK, NextRequest
    PROVE  TypeOK'
  <1>1. requests # <<>> /\ requests' = Tail(requests)  BY DEF NextRequest
  <1>2. /\ requests' \in Seq(InboundType) /\ Len(requests') = Len(requests) - 1
        /\ Head(requests) \in InboundType
    BY <1>1, HeadTailProperties DEF TypeOK
  <1>3. Len(requests') <= REQUEST_QUEUE_LEN
    BY <1>2, ConstantsAssumption DEF TypeOK
  <1>4. serving' \subseteq InboundType
    BY <1>2 DEF NextRequest, TypeOK
  <1>. QED  BY <1>2, <1>3, <1>4 DEF NextRequest, TypeOK, clientVars, history

\* One more element in a finite set.
LEMMA AddOne ==
    ASSUME NEW S, IsFiniteSet(S), NEW e
    PROVE  IsFiniteSet(S \cup {e}) /\ Cardinality(S \cup {e}) <= Cardinality(S) + 1
  <1>1. Cardinality(S) \in Nat  BY FS_CardinalityType
  <1>2. /\ IsFiniteSet(S \cup {e})
        /\ \/ e \in S /\ Cardinality(S \cup {e}) = Cardinality(S)
           \/ e \notin S /\ Cardinality(S \cup {e}) = Cardinality(S) + 1
    BY FS_AddElement
  <1>. QED  BY <1>1, <1>2

\* Making room in the reply cache and adding an entry keeps it within its capacity.
LEMMA CacheBound ==
    ASSUME NEW S, IsFiniteSet(S), Cardinality(S) <= REPLY_CACHE_LEN, NEW e,
           NEW out \in IF Full(Cardinality(S)) THEN {{d} : d \in Oldest(S)} ELSE {{}}
    PROVE  /\ IsFiniteSet((S \ out) \cup {e})
           /\ Cardinality((S \ out) \cup {e}) <= REPLY_CACHE_LEN
           /\ out \subseteq S
  <1>. USE ConstantsAssumption
  <1>1. Cardinality(S) \in Nat  BY FS_CardinalityType
  <1>2. CASE Full(Cardinality(S))
    <2>1. PICK d \in S : out = {d}  BY <1>2 DEF Oldest
    <2>2. IsFiniteSet(S \ {d}) /\ Cardinality(S \ {d}) = Cardinality(S) - 1
      BY FS_RemoveElement
    <2>3. /\ IsFiniteSet((S \ {d}) \cup {e})
          /\ Cardinality((S \ {d}) \cup {e}) <= Cardinality(S \ {d}) + 1
      BY <2>2, AddOne
    <2>. QED  BY <2>1, <2>2, <2>3, <1>1, FS_CardinalityType
  <1>3. CASE ~Full(Cardinality(S))
    <2>1. out = {} /\ (S \ out) = S  BY <1>3
    <2>2. /\ IsFiniteSet(S \cup {e})
          /\ Cardinality(S \cup {e}) <= Cardinality(S) + 1
      BY AddOne
    <2>3. Cardinality(S) + 1 <= REPLY_CACHE_LEN  BY <1>3, <1>1 DEF Full
    <2>. QED  BY <2>1, <2>2, <2>3, <1>1, FS_CardinalityType
  <1>. QED  BY <1>2, <1>3

\* respond_packets keeps the types and the capacity of reply_cache.
LEMMA TypeRespond ==
    ASSUME TypeOK, NEW r \in serving, NEW k \in Answers, Respond(r, k)
    PROVE  TypeOK'
  <1>. USE ConstantsAssumption
  <1>. DEFINE x == r.trans
              n == Split(r, k)
              a == Len(answered[x]) + 1
              e == [trans |-> x, packets |-> Packets(n, a), expires_at |-> now + RELEASE_TIMEOUT]
  <1>1. x \in Trans /\ r.bitmap \in 0..MAX_SLOTS
    BY DEF TypeOK, InboundType
  <1>2. x[1] \in Clients /\ x[2] \in Tids
    BY <1>1 DEF Trans
  <1>3. n \in 1..MAX_SLOTS
    BY <1>1 DEF Split, MaxPackets
  <1>4. a \in Nat /\ answered[x] \in Seq(1..MAX_SLOTS)
    BY <1>1 DEF TypeOK
  <1>5. Packets(n, a) \in Seq(PacketType)
    BY <1>3, <1>4, PacketsType
  <1>. HIDE DEF x, n, a
  <1>6. e \in CacheType
    BY <1>1, <1>5 DEF TypeOK, CacheType
  <1>. HIDE DEF e
  <1>7. s2c' \in [Clients -> Seq(RespType)]
    BY <1>2, <1>5, TransmitType DEF Respond, TypeOK, x, n, a
  <1>8. in_progress' \in Seq(Trans) /\ Len(in_progress') <= REPLY_CACHE_LEN
    <2>1. in_progress' = Remove(in_progress, x)  BY DEF Respond, x
    <2>2. /\ Remove(in_progress, x) \in Seq(Trans)
          /\ Len(Remove(in_progress, x)) <= Len(in_progress)
      BY RemoveType DEF TypeOK
    <2>. QED  BY <2>1, <2>2 DEF TypeOK
  <1>9. /\ reply_cache' \subseteq CacheType /\ IsFiniteSet(reply_cache')
        /\ Cardinality(reply_cache') <= REPLY_CACHE_LEN
        /\ evicted' \subseteq Trans
    <2>. DEFINE V == IF Full(Cardinality(reply_cache))
                     THEN {{d} : d \in Oldest(reply_cache)} ELSE {{}}
    <2>1. PICK out \in V :
              /\ reply_cache' = (reply_cache \ out) \cup {e}
              /\ evicted' = evicted \cup {d.trans : d \in out}
      BY Zenon DEF Respond, x, n, a, e
    <2>2. /\ IsFiniteSet((reply_cache \ out) \cup {e})
          /\ Cardinality((reply_cache \ out) \cup {e}) <= REPLY_CACHE_LEN
          /\ out \subseteq reply_cache
      <3>1. IsFiniteSet(reply_cache) /\ Cardinality(reply_cache) <= REPLY_CACHE_LEN
        BY DEF TypeOK
      <3>. QED  BY <2>1, <3>1, CacheBound, Zenon
    <2>3. \A d \in out : d.trans \in Trans
      BY <2>2 DEF TypeOK, CacheType
    <2>. QED  BY <2>1, <2>2, <2>3, <1>6 DEF TypeOK
  <1>10. answered' \in [Trans -> Seq(1..MAX_SLOTS)]
    <2>1. Append(answered[x], n) \in Seq(1..MAX_SLOTS)
      BY <1>3, <1>4, AppendProperties
    <2>2. answered' = [answered EXCEPT ![x] = Append(@, n)]
      BY DEF Respond, x, n
    <2>. QED  BY <2>1, <2>2 DEF TypeOK
  <1>. QED  BY <1>7, <1>8, <1>9, <1>10 DEF Respond, TypeOK, clientVars

\* Expiry of cached answers keeps the types.
LEMMA TypeServerPoll ==
    ASSUME TypeOK, ServerPoll
    PROVE  TypeOK'
  <1>1. reply_cache' \subseteq reply_cache
    BY DEF ServerPoll
  <1>2. IsFiniteSet(reply_cache') /\ Cardinality(reply_cache') <= Cardinality(reply_cache)
    BY <1>1, FS_Subset DEF TypeOK
  <1>3. Cardinality(reply_cache') <= REPLY_CACHE_LEN
    BY <1>1, <1>2, ConstantsAssumption, FS_CardinalityType DEF TypeOK
  <1>. QED  BY <1>1, <1>2, <1>3 DEF ServerPoll, TypeOK, clientVars, history

\* Losses and the clock keep the types.
LEMMA TypeCable ==
    ASSUME TypeOK, NEW c \in Clients, LoseToServer(c) \/ LoseToClient(c)
    PROVE  TypeOK'
  <1>1. CASE LoseToServer(c)
    <2>1. c2s' \in [Clients -> Seq(ReqType \cup RelType)]
      BY <1>1, ChannelType DEF LoseToServer, TypeOK
    <2>. QED  BY <1>1, <2>1 DEF LoseToServer, TypeOK, clientVars, serverVars, history
  <1>2. CASE LoseToClient(c)
    <2>1. s2c' \in [Clients -> Seq(RespType)]
      BY <1>2, ChannelType DEF LoseToClient, TypeOK
    <2>. QED  BY <1>2, <2>1 DEF LoseToClient, TypeOK, clientVars, serverVars, history
  <1>. QED  BY <1>1, <1>2

\* Every step keeps the types.
LEMMA TypeNext == TypeOK /\ [Next]_vars => TypeOK'
  <1>. SUFFICES ASSUME TypeOK, [Next]_vars PROVE TypeOK'
    OBVIOUS
  <1>1. ASSUME NEW c \in Clients, NEW n \in Bitmaps, Request(c, n) PROVE TypeOK'
    BY <1>1, TypeRequest
  <1>2. ASSUME NEW c \in Clients, SendAlo(c) PROVE TypeOK'
    BY <1>2, TypeSendAlo
  <1>3. ASSUME NEW x \in Trans, Abandon(x) PROVE TypeOK'
    BY <1>3, TypeAbandon
  <1>4. ASSUME NEW c \in Clients, ClientReceive(c) PROVE TypeOK'
    BY <1>4, TypeClientReceive
  <1>5. ASSUME NEW x \in Trans, ClientPoll(x) PROVE TypeOK'
    BY <1>5, TypeClientPoll
  <1>6. ASSUME NEW c \in Clients, ServerReceive(c) PROVE TypeOK'
    BY <1>6, TypeServerReceive
  <1>7. CASE NextRequest
    BY <1>7, TypeNextRequest
  <1>8. ASSUME NEW r \in serving, NEW k \in Answers, Respond(r, k) PROVE TypeOK'
    BY <1>8, TypeRespond
  <1>9. CASE ServerPoll
    BY <1>9, TypeServerPoll
  <1>10. ASSUME NEW c \in Clients, LoseToServer(c) \/ LoseToClient(c) PROVE TypeOK'
    BY <1>10, TypeCable
  <1>11. CASE Tick
    BY <1>11 DEF Tick, TypeOK, clientVars, serverVars, history
  <1>12. CASE UNCHANGED vars
    BY <1>12 DEF vars, TypeOK, clientVars, serverVars, history
  <1>. QED
    BY <1>1, <1>2, <1>3, <1>4, <1>5, <1>6, <1>7, <1>8, <1>9, <1>10, <1>11, <1>12 DEF Next

\* The variables of both endpoints keep their types and no FIFO of the responder
\* (reply_cache, in_progress, the embedded request queue) outgrows its capacity.
THEOREM TypeCorrect == Spec => []TypeOK
  BY TypeInit, TypeNext, PTL DEF Spec

-----------------------------------------------------------------------------
(* Exactly once *)

\* What a channel holds after a message was appended to, or taken from, channel c.
LEMMA AppendMsg ==
    ASSUME NEW S, NEW ch \in [Clients -> Seq(S)], NEW c \in Clients, NEW m \in S,
           NEW ch2, ch2 = [ch EXCEPT ![c] = Append(@, m)], NEW d \in Clients
    PROVE  /\ Len(ch[d]) \in Nat /\ Len(ch2[d]) \in Nat
           /\ \A i \in 1..Len(ch2[d]) :
                 \/ i \in 1..Len(ch[d]) /\ ch2[d][i] = ch[d][i]
                 \/ d = c /\ i = Len(ch[c]) + 1 /\ ch2[d][i] = m
  <1>1. /\ Append(ch[c], m) \in Seq(S) /\ Len(Append(ch[c], m)) = Len(ch[c]) + 1
        /\ \A i \in 1..Len(ch[c]) : Append(ch[c], m)[i] = ch[c][i]
        /\ Append(ch[c], m)[Len(ch[c]) + 1] = m
    BY AppendProperties
  <1>2. ch2[d] = IF d = c THEN Append(ch[c], m) ELSE ch[d]
    OBVIOUS
  <1>. QED  BY <1>1, <1>2

\* What a channel holds after its head was taken.
LEMMA TailMsg ==
    ASSUME NEW S, NEW ch \in [Clients -> Seq(S)], NEW c \in Clients, ch[c] # <<>>,
           NEW ch2, ch2 = [ch EXCEPT ![c] = Tail(@)], NEW d \in Clients
    PROVE  /\ Len(ch[d]) \in Nat /\ Len(ch2[d]) \in Nat
           /\ 1 \in 1..Len(ch[c]) /\ ch[c][1] = Head(ch[c])
           /\ d # c => ch2[d] = ch[d]
           /\ \A i \in 1..Len(ch2[c]) :
                 i + 1 \in 1..Len(ch[c]) /\ ch2[c][i] = ch[c][i + 1]
  <1>1. /\ Tail(ch[c]) \in Seq(S) /\ Len(Tail(ch[c])) = Len(ch[c]) - 1
        /\ \A i \in 1..Len(Tail(ch[c])) : Tail(ch[c])[i] = ch[c][i + 1]
        /\ Head(ch[c]) = ch[c][1]
    BY HeadTailProperties
  <1>2. Len(ch[c]) \in Nat \ {0}
    BY EmptySeq
  <1>3. ch2[d] = IF d = c THEN Tail(ch[c]) ELSE ch[d]
    OBVIOUS
  <1>4. ch2[c] = Tail(ch[c])
    OBVIOUS
  <1>. QED  BY <1>1, <1>2, <1>3, <1>4

\* Arithmetic of the retry schedule.
LEMMA Product ==
    ASSUME NEW a \in Nat, NEW b \in Nat
    PROVE  /\ a * b \in Nat
           /\ (a + 1) * b = a * b + b
           /\ a > 0 => a * b = (a - 1) * b + b
  OBVIOUS

\* A product of naturals grows with its factor.
LEMMA ProductMonotone ==
    ASSUME NEW a \in Nat, NEW b \in Nat, NEW k \in Nat, a <= k
    PROVE  a * b <= k * b
  OBVIOUS

\* A pending request is given up by its Budget, which is in the future and no
\* further away than the retry window.
LEMMA BudgetBounds ==
    ASSUME TypeOK, Timely, NEW x \in DOMAIN pending
    PROVE  Budget(x) \in Nat /\ now <= Budget(x) /\ Budget(x) <= now + RetryWindow
  <1>. USE ConstantsAssumption
  <1>. DEFINE a == MAX_RETRIES - pending[x].retries
  <1>1. pending[x] \in PendingType
    BY DEF TypeOK
  <1>2. a \in Nat /\ a <= MAX_RETRIES /\ pending[x].retry_at \in Nat
    BY <1>1 DEF PendingType
  <1>. HIDE DEF a
  <1>3. Interval \in Nat /\ Interval = RETRY_INTERVAL + POLL_SLACK /\ now \in Nat
    BY DEF Interval, TypeOK
  <1>4. a * Interval \in Nat  BY <1>2, <1>3, Product
  <1>5. a * Interval <= MAX_RETRIES * Interval
    BY <1>2, <1>3, ProductMonotone
  <1>6. RetryWindow = MAX_RETRIES * Interval + Interval /\ MAX_RETRIES * Interval \in Nat
    BY <1>3, Product DEF RetryWindow, Interval
  <1>7. /\ pending[x].retry_at <= now + RETRY_INTERVAL
        /\ now <= pending[x].retry_at + POLL_SLACK
    BY DEF Timely
  <1>8. Budget(x) = pending[x].retry_at + POLL_SLACK + a * Interval
    BY DEF Budget, a
  <1>. QED  BY <1>2, <1>3, <1>4, <1>5, <1>6, <1>7, <1>8

\* Taking the head of a channel and touching neither clock nor requests keeps what
\* the invariant says of the cable.
LEMMA CableShrinks ==
    ASSUME TypeOK, Timely, ReleaseLast, NEW c \in Clients, c2s[c] # <<>>,
           c2s' = [c2s EXCEPT ![c] = Tail(@)], UNCHANGED <<now, next_tid, pending>>
    PROVE  /\ Timely' /\ ReleaseLast'
           /\ \A x \in Trans : Live(x)' => Live(x)
           /\ \A d \in Clients : \A i \in 1..Len(c2s'[d]) :
                 \E j \in 1..Len(c2s[d]) : c2s'[d][i] = c2s[d][j] /\ (d = c => j > 1)
  <1>1. c2s \in [Clients -> Seq(ReqType \cup RelType)]
    BY DEF TypeOK
  <1>2. \A d \in Clients :
           /\ Len(c2s[d]) \in Nat /\ Len(c2s'[d]) \in Nat
           /\ d # c => c2s'[d] = c2s[d]
           /\ \A i \in 1..Len(c2s'[c]) :
                 i + 1 \in 1..Len(c2s[c]) /\ c2s'[c][i] = c2s[c][i + 1]
    BY <1>1, TailMsg
  <1>3. \A d \in Clients : \A i \in 1..Len(c2s'[d]) :
           \E j \in 1..Len(c2s[d]) : c2s'[d][i] = c2s[d][j] /\ (d = c => j > 1)
    <2>. SUFFICES ASSUME NEW d \in Clients, NEW i \in 1..Len(c2s'[d])
                  PROVE  \E j \in 1..Len(c2s[d]) : c2s'[d][i] = c2s[d][j] /\ (d = c => j > 1)
      OBVIOUS
    <2>1. CASE d = c
      <3>1. i + 1 \in 1..Len(c2s[d]) /\ c2s'[d][i] = c2s[d][i + 1] /\ i + 1 > 1
        BY <2>1, <1>2
      <3>. QED  BY <3>1
    <2>2. CASE d # c
      BY <2>2, <1>2
    <2>. QED  BY <2>1, <2>2
  <1>4. Timely'
    <2>1. \A d \in Clients : \A i \in 1..Len(c2s'[d]) :
             c2s'[d][i].sent <= now' /\ now' <= c2s'[d][i].sent + MAX_DELAY
      BY <1>3 DEF Timely
    <2>. QED  BY <2>1 DEF Timely
  <1>5. ReleaseLast'
    <2>. SUFFICES ASSUME NEW d \in Clients, NEW i \in 1..Len(c2s'[d]), NEW t \in Tids,
                         IsRel(c2s'[d][i], t)
                  PROVE  /\ <<d, t>> \notin DOMAIN pending
                         /\ \A j \in 1..Len(c2s'[d]) : i < j => ~IsReq(c2s'[d][j], t)
      BY DEF ReleaseLast, IsRel, IsReq
    <2>1. CASE d # c
      BY <2>1, <1>2 DEF ReleaseLast
    <2>2. CASE d = c
      <3>1. /\ i + 1 \in 1..Len(c2s[c]) /\ c2s'[c][i] = c2s[c][i + 1]
            /\ \A j \in 1..Len(c2s'[c]) :
                  j + 1 \in 1..Len(c2s[c]) /\ c2s'[c][j] = c2s[c][j + 1]
        BY <2>2, <1>2
      <3>2. IsRel(c2s[c][i + 1], t)
        BY <2>2, <3>1
      <3>3. /\ <<c, t>> \notin DOMAIN pending
            /\ \A j \in 1..Len(c2s[c]) : i + 1 < j => ~IsReq(c2s[c][j], t)
        BY <3>1, <3>2 DEF ReleaseLast
      <3>4. ASSUME NEW j \in 1..Len(c2s'[c]), i < j PROVE ~IsReq(c2s'[c][j], t)
        <4>1. j + 1 \in 1..Len(c2s[c]) /\ c2s'[c][j] = c2s[c][j + 1] /\ i + 1 < j + 1
          BY <3>1, <3>4, <2>2
        <4>. QED  BY <4>1, <3>3
      <3>. QED  BY <2>2, <3>3, <3>4
    <2>. QED  BY <2>1, <2>2
  <1>6. \A x \in Trans : Live(x)' => Live(x)
    <2>. SUFFICES ASSUME NEW x \in Trans, Live(x)' PROVE Live(x)
      OBVIOUS
    <2>1. x[1] \in Clients  BY DEF Trans
    <2>. QED  BY <2>1, <1>3 DEF Live, IsReq
  <1>. QED  BY <1>3, <1>4, <1>5, <1>6

\* Nothing the invariant speaks of changes.
LEMMA OnceUnchanged ==
    ASSUME ExactlyOnceInv,
           UNCHANGED <<now, next_tid, pending, reply_cache, in_progress, requests,
                       serving, c2s, delivered, dropped, evicted>>
    PROVE  ExactlyOnceInv'
  BY DEF ExactlyOnceInv, Timely, Fresh, ReleaseLast, AloOnce, AloAlone, Remembered, Outlives, Once,
         Accepted, Live, Budget, IsReq, IsRel

\* AloOnce for a cable that lost its head while Accepted grew by at most x, which
\* is no transaction of an at-least-once packet still on the cable.
LEMMA AloShrinks ==
    ASSUME TypeOK, AloOnce, NEW c \in Clients, c2s[c] # <<>>,
           c2s' = [c2s EXCEPT ![c] = Tail(@)], pending' = pending,
           \A y \in Trans : Accepted(y)' =>
               Accepted(y) \/ (y[1] = c /\ IsReq(Head(c2s[c]), y[2]))
    PROVE  AloOnce'
  <1>1. c2s \in [Clients -> Seq(ReqType \cup RelType)]
    BY DEF TypeOK
  <1>2. \A d \in Clients :
           /\ Len(c2s[d]) \in Nat /\ Len(c2s'[d]) \in Nat
           /\ 1 \in 1..Len(c2s[c]) /\ c2s[c][1] = Head(c2s[c])
           /\ d # c => c2s'[d] = c2s[d]
           /\ \A i \in 1..Len(c2s'[c]) :
                 i + 1 \in 1..Len(c2s[c]) /\ c2s'[c][i] = c2s[c][i + 1]
    BY <1>1, TailMsg
  <1>. SUFFICES ASSUME NEW d \in Clients, NEW i \in 1..Len(c2s'[d]), NEW t \in Tids
                PROVE  AloAlone(d, i, t)'
    BY DEF AloOnce
  <1>. SUFFICES ASSUME IsReq(c2s'[d][i], t), ~c2s'[d][i].xo
                PROVE  /\ ~Accepted(<<d, t>>)'
                       /\ <<d, t>> \notin DOMAIN pending'
                       /\ \A j \in 1..Len(c2s'[d]) : i # j => ~IsReq(c2s'[d][j], t)
    BY Zenon DEF AloAlone, IsReq
  <1>3. <<d, t>> \in Trans  BY DEF Trans
  <1>4. CASE d # c
    BY <1>2, <1>3, <1>4 DEF AloOnce, AloAlone
  <1>5. CASE d = c
    <2>1. /\ i + 1 \in 1..Len(c2s[c]) /\ c2s'[c][i] = c2s[c][i + 1]
          /\ \A j \in 1..Len(c2s'[c]) :
                j + 1 \in 1..Len(c2s[c]) /\ c2s'[c][j] = c2s[c][j + 1]
      BY <1>5, <1>2
    <2>2. IsReq(c2s[c][i + 1], t) /\ ~c2s[c][i + 1].xo
      BY <1>5, <2>1
    <2>3. /\ ~Accepted(<<c, t>>)
          /\ <<c, t>> \notin DOMAIN pending
          /\ \A j \in 1..Len(c2s[c]) : i + 1 # j => ~IsReq(c2s[c][j], t)
      BY <2>1, <2>2 DEF AloOnce, AloAlone
    <2>4. ~IsReq(Head(c2s[c]), t)
      <3>1. 1 \in 1..Len(c2s[c]) /\ i + 1 # 1 /\ c2s[c][1] = Head(c2s[c])
        BY <1>2, <1>5
      <3>. QED  BY <3>1, <2>3
    <2>5. ~Accepted(<<d, t>>)'
      BY <1>3, <1>5, <2>3, <2>4
    <2>6. ASSUME NEW j \in 1..Len(c2s'[c]), i # j PROVE ~IsReq(c2s'[c][j], t)
      <3>1. j + 1 \in 1..Len(c2s[c]) /\ c2s'[c][j] = c2s[c][j + 1] /\ i + 1 # j + 1
        BY <2>1, <2>6, <1>5
      <3>. QED  BY <3>1, <2>3
    <2>. QED  BY <1>5, <2>3, <2>5, <2>6
  <1>. QED  BY <1>4, <1>5

\* The head of the cable is taken and the responder remembers no less: a cached or
\* running transaction seen again, and a packet lost before the responder.
LEMMA OnceSeenAgain ==
    ASSUME TypeOK, ExactlyOnceInv, NEW c \in Clients, c2s[c] # <<>>,
           c2s' = [c2s EXCEPT ![c] = Tail(@)],
           UNCHANGED <<now, next_tid, pending, reply_cache, in_progress, requests, serving,
                       delivered, dropped, evicted>>
    PROVE  ExactlyOnceInv'
  <1>2. /\ Timely' /\ ReleaseLast'
        /\ \A x \in Trans : Live(x)' => Live(x)
        /\ \A d \in Clients : \A i \in 1..Len(c2s'[d]) :
              \E j \in 1..Len(c2s[d]) : c2s'[d][i] = c2s[d][j] /\ (d = c => j > 1)
    BY CableShrinks DEF ExactlyOnceInv
  <1>3. \A x : Accepted(x)' <=> Accepted(x)
    BY DEF Accepted
  <1>4. AloOnce'
    <2>1. \A y \in Trans : Accepted(y)' =>
             Accepted(y) \/ (y[1] = c /\ IsReq(Head(c2s[c]), y[2]))
      BY <1>3
    <2>2. pending' = pending  OBVIOUS
    <2>. QED  BY <2>1, <2>2, AloShrinks, Zenon DEF ExactlyOnceInv
  <1>5. Fresh'
    BY <1>2, <1>3 DEF ExactlyOnceInv, Fresh
  <1>6. Remembered'
    BY <1>2, <1>3 DEF ExactlyOnceInv, Remembered
  <1>7. Outlives'
    <2>. SUFFICES ASSUME NEW e \in reply_cache
                  PROVE /\ e.trans \in DOMAIN pending => e.expires_at > Budget(e.trans) + MAX_DELAY
                        /\ \A i \in 1..Len(c2s'[e.trans[1]]) :
                              IsReq(c2s'[e.trans[1]][i], e.trans[2]) =>
                                  e.expires_at > c2s'[e.trans[1]][i].sent + MAX_DELAY
      BY DEF Outlives, Budget, IsReq
    <2>1. e.trans[1] \in Clients
      BY DEF TypeOK, CacheType, Trans
    <2>. QED  BY <1>2, <2>1 DEF ExactlyOnceInv, Outlives
  <1>8. Once'
    BY DEF ExactlyOnceInv, Once
  <1>. QED  BY <1>2, <1>4, <1>5, <1>6, <1>7, <1>8 DEF ExactlyOnceInv

\* A lost request or release keeps the invariant.
LEMMA OnceLoseToServer ==
    ASSUME TypeOK, ExactlyOnceInv, NEW c \in Clients, LoseToServer(c)
    PROVE  ExactlyOnceInv'
  BY OnceSeenAgain DEF LoseToServer, clientVars, serverVars, history

\* Only answers that no copy of their request can ask for expire.
LEMMA OnceServerPoll ==
    ASSUME TypeOK, ExactlyOnceInv, ServerPoll
    PROVE  ExactlyOnceInv'
  <1>. USE ConstantsAssumption
  <1>1. /\ reply_cache' = {e \in reply_cache : e.expires_at > now}
        /\ UNCHANGED <<now, next_tid, pending, in_progress, requests, serving, c2s,
                       delivered, dropped, evicted>>
    BY DEF ServerPoll, clientVars, history
  <1>2. Timely' /\ ReleaseLast' /\ AloOnce' /\ Once' /\ Fresh' /\ Outlives'
    BY <1>1 DEF ExactlyOnceInv, Timely, ReleaseLast, AloOnce, AloAlone, Once, Fresh, Outlives,
                Accepted, IsReq, IsRel, Budget
  <1>3. Remembered'
    <2>. SUFFICES ASSUME NEW x \in Trans, Accepted(x), Live(x), x \notin evicted
                  PROVE  \/ \E i \in 1..Len(in_progress) : in_progress[i] = x
                         \/ \E e \in reply_cache' : e.trans = x
      BY <1>1 DEF Remembered, Accepted, Live, IsReq
    <2>1. CASE \E i \in 1..Len(in_progress) : in_progress[i] = x
      BY <2>1
    <2>2. CASE \E e \in reply_cache : e.trans = x
      <3>1. PICK e \in reply_cache : e.trans = x
        BY <2>2
      <3>2. e.expires_at \in Nat /\ now \in Nat
        BY DEF TypeOK, CacheType
      <3>3. CASE x \in DOMAIN pending
        <4>1. e.expires_at > Budget(x) + MAX_DELAY
          BY <3>1, <3>3 DEF ExactlyOnceInv, Outlives
        <4>2. Budget(x) \in Nat /\ now <= Budget(x)
          BY <3>3, BudgetBounds DEF ExactlyOnceInv
        <4>3. e.expires_at > now
          BY <4>1, <4>2, <3>2
        <4>. QED  BY <4>3, <3>1, <1>1
      <3>4. CASE x \notin DOMAIN pending
        <4>1. PICK i \in 1..Len(c2s[x[1]]) : IsReq(c2s[x[1]][i], x[2])
          BY <3>4 DEF Live
        <4>2. e.expires_at > c2s[x[1]][i].sent + MAX_DELAY
          BY <4>1, <3>1 DEF ExactlyOnceInv, Outlives
        <4>3. now <= c2s[x[1]][i].sent + MAX_DELAY
          BY x[1] \in Clients DEF ExactlyOnceInv, Timely, Trans
        <4>4. c2s[x[1]][i].sent \in Nat
          BY x[1] \in Clients DEF TypeOK, Trans, ReqType, RelType
        <4>5. e.expires_at > now
          BY <4>2, <4>3, <4>4, <3>2
        <4>. QED  BY <4>5, <3>1, <1>1
      <3>. QED  BY <3>3, <3>4
    <2>. QED  BY <2>1, <2>2 DEF ExactlyOnceInv, Remembered
  <1>. QED  BY <1>2, <1>3 DEF ExactlyOnceInv

\* Time passing keeps the invariant.
LEMMA OnceTick ==
    ASSUME TypeOK, ExactlyOnceInv, Tick
    PROVE  ExactlyOnceInv'
  <1>. USE ConstantsAssumption
  <1>1. /\ now' = now + 1
        /\ UNCHANGED <<next_tid, pending, reply_cache, in_progress, requests, serving, c2s,
                       delivered, dropped, evicted>>
    BY DEF Tick, clientVars, serverVars, history
  <1>2. ReleaseLast' /\ AloOnce' /\ Once' /\ Fresh' /\ Outlives' /\ Remembered'
    BY <1>1 DEF ExactlyOnceInv, ReleaseLast, AloOnce, AloAlone, Once, Fresh, Outlives, Remembered,
                Accepted, Live, IsReq, IsRel, Budget
  <1>3. Timely'
    <2>1. ASSUME NEW c \in Clients, NEW i \in 1..Len(c2s[c])
          PROVE  c2s[c][i].sent <= now + 1 /\ now + 1 <= c2s[c][i].sent + MAX_DELAY
      <3>1. c2s[c] \in Seq(ReqType \cup RelType)
        BY DEF TypeOK
      <3>2. c2s[c][i] \in Range(c2s[c])
        BY <3>1 DEF Range
      <3>3. now < c2s[c][i].sent + MAX_DELAY
        BY <3>2 DEF Tick
      <3>4. c2s[c][i].sent <= now
        BY DEF ExactlyOnceInv, Timely
      <3>5. c2s[c][i].sent \in Nat /\ now \in Nat
        BY <3>1 DEF TypeOK, ReqType, RelType
      <3>. QED  BY <3>3, <3>4, <3>5
    <2>2. ASSUME NEW x \in DOMAIN pending
          PROVE  /\ pending[x].retry_at <= now + 1 + RETRY_INTERVAL
                 /\ now + 1 <= pending[x].retry_at + POLL_SLACK
      <3>1. now < pending[x].retry_at + POLL_SLACK
        BY DEF Tick
      <3>2. pending[x].retry_at <= now + RETRY_INTERVAL
        BY DEF ExactlyOnceInv, Timely
      <3>3. pending[x].retry_at \in Nat /\ now \in Nat
        BY DEF TypeOK, PendingType
      <3>. QED  BY <3>1, <3>2, <3>3
    <2>. QED  BY <1>1, <2>1, <2>2 DEF Timely
  <1>. QED  BY <1>2, <1>3 DEF ExactlyOnceInv

\* next_request keeps the invariant.
LEMMA OnceNextRequest ==
    ASSUME TypeOK, ExactlyOnceInv, NextRequest
    PROVE  ExactlyOnceInv'
  <1>1. /\ requests # <<>> /\ requests' = Tail(requests)
        /\ serving' \subseteq serving \cup {Head(requests)}
        /\ UNCHANGED <<now, next_tid, pending, reply_cache, in_progress, c2s,
                       delivered, dropped, evicted>>
    BY DEF NextRequest, clientVars, history
  <1>2. Timely' /\ ReleaseLast' /\ AloOnce' /\ Once' /\ Outlives' /\ Remembered'
    BY <1>1 DEF ExactlyOnceInv, Timely, ReleaseLast, AloOnce, AloAlone, Once, Outlives, Remembered,
                Accepted, Live, IsReq, IsRel, Budget
  <1>3. Fresh'
    <2>1. /\ Len(requests) \in Nat \ {0} /\ Len(requests') = Len(requests) - 1
          /\ Head(requests) = requests[1]
          /\ \A i \in 1..Len(requests') : requests'[i] = requests[i + 1]
      BY <1>1, HeadTailProperties, EmptySeq DEF TypeOK
    <2>2. \A i \in 1..Len(requests') : Accepted(requests'[i].trans)
      <3>1. \A i \in 1..Len(requests') : i + 1 \in 1..Len(requests)  BY <2>1
      <3>. QED  BY <2>1, <3>1 DEF ExactlyOnceInv, Fresh
    <2>3. \A r \in serving' : Accepted(r.trans)
      <3>1. 1 \in 1..Len(requests)  BY <2>1
      <3>. QED  BY <1>1, <2>1, <3>1 DEF ExactlyOnceInv, Fresh
    <2>. QED  BY <1>1, <2>2, <2>3 DEF ExactlyOnceInv, Fresh, Accepted
  <1>. QED  BY <1>2, <1>3 DEF ExactlyOnceInv

\* respond_packets moves a transaction from in_progress to reply_cache.
LEMMA OnceRespond ==
    ASSUME TypeOK, ExactlyOnceInv, NEW r \in serving, NEW k \in Answers, Respond(r, k)
    PROVE  ExactlyOnceInv'
  <1>. USE ConstantsAssumption
  <1>. DEFINE x == r.trans
              e == [trans |-> x, packets |-> Packets(Split(r, k), Len(answered[x]) + 1),
                    expires_at |-> now + RELEASE_TIMEOUT]
              V == IF Full(Cardinality(reply_cache))
                   THEN {{d} : d \in Oldest(reply_cache)} ELSE {{}}
  <1>1. /\ serving' \subseteq serving
        /\ in_progress' = Remove(in_progress, x)
        /\ UNCHANGED <<now, next_tid, pending, requests, c2s, delivered, dropped>>
    BY DEF Respond, clientVars
  <1>2. PICK out \in V : /\ reply_cache' = (reply_cache \ out) \cup {e}
                         /\ evicted' = evicted \cup {d.trans : d \in out}
    BY Zenon DEF Respond
  <1>3. x \in Trans /\ x[1] \in Clients /\ x[2] \in Tids
    BY DEF TypeOK, InboundType, Trans
  <1>4. e.trans = x /\ e.expires_at = now + RELEASE_TIMEOUT
    OBVIOUS
  <1>. HIDE DEF e, V, x
  <1>5. Accepted(x)
    BY DEF ExactlyOnceInv, Fresh, x
  <1>6. Timely' /\ ReleaseLast' /\ AloOnce'
    BY <1>1 DEF ExactlyOnceInv, Timely, ReleaseLast, AloOnce, AloAlone, Accepted, IsReq, IsRel
  <1>7. Fresh'
    <2>1. \A d \in reply_cache' : d.trans[2] < next_tid[d.trans[1]]
      BY <1>2, <1>3, <1>4, <1>5 DEF ExactlyOnceInv, Fresh
    <2>. QED  BY <1>1, <2>1 DEF ExactlyOnceInv, Fresh, Accepted
  <1>8. Remembered'
    <2>. SUFFICES ASSUME NEW y \in Trans, Accepted(y), Live(y), y \notin evicted'
                  PROVE  \/ \E i \in 1..Len(in_progress') : in_progress'[i] = y
                         \/ \E d \in reply_cache' : d.trans = y
      BY <1>1 DEF Remembered, Accepted, Live, IsReq
    <2>1. CASE y = x
      BY <2>1, <1>2, <1>4
    <2>2. CASE y # x /\ \E i \in 1..Len(in_progress) : in_progress[i] = y
      <3>1. PICK i \in 1..Len(in_progress) : in_progress[i] = y
        BY <2>2
      <3>2. in_progress \in Seq(Trans)  BY DEF TypeOK
      <3>3. /\ Remove(in_progress, x) \in Seq(Trans)
            /\ Len(Remove(in_progress, x)) <= Len(in_progress)
            /\ \A h \in 1..Len(in_progress) : in_progress[h] # x =>
                 \E j \in 1..Len(Remove(in_progress, x)) : Remove(in_progress, x)[j] = in_progress[h]
        BY <3>2, RemoveType
      <3>. QED  BY <2>2, <3>1, <3>3, <1>1
    <2>3. CASE \E d \in reply_cache : d.trans = y
      BY <2>3, <1>2
    <2>. QED  BY <2>1, <2>2, <2>3, <1>2 DEF ExactlyOnceInv, Remembered
  <1>9. Outlives'
    <2>. SUFFICES ASSUME NEW d \in reply_cache'
                  PROVE  /\ d.trans \in DOMAIN pending =>
                               d.expires_at > Budget(d.trans) + MAX_DELAY
                         /\ \A i \in 1..Len(c2s[d.trans[1]]) :
                               IsReq(c2s[d.trans[1]][i], d.trans[2]) =>
                                   d.expires_at > c2s[d.trans[1]][i].sent + MAX_DELAY
      BY <1>1 DEF Outlives, Budget, IsReq
    <2>1. CASE d \in reply_cache
      BY <2>1 DEF ExactlyOnceInv, Outlives
    <2>2. CASE d = e
      <3>1. RetryWindow \in Nat
        <4>1. MAX_RETRIES + 1 \in Nat /\ RETRY_INTERVAL + POLL_SLACK \in Nat  OBVIOUS
        <4>. QED  BY <4>1, Product DEF RetryWindow
      <3>2. now \in Nat /\ RELEASE_TIMEOUT > RetryWindow + MAX_DELAY
        BY ReleaseOutlastsRetries DEF TypeOK
      <3>3. ASSUME x \in DOMAIN pending
            PROVE  now + RELEASE_TIMEOUT > Budget(x) + MAX_DELAY
        <4>1. Budget(x) \in Nat /\ Budget(x) <= now + RetryWindow
          BY <3>3, BudgetBounds DEF ExactlyOnceInv
        <4>. QED  BY <4>1, <3>1, <3>2
      <3>4. ASSUME NEW i \in 1..Len(c2s[x[1]])
            PROVE  now + RELEASE_TIMEOUT > c2s[x[1]][i].sent + MAX_DELAY
        <4>1. c2s[x[1]][i].sent \in Nat
          BY <1>3 DEF TypeOK, ReqType, RelType
        <4>2. c2s[x[1]][i].sent <= now
          BY <1>3 DEF ExactlyOnceInv, Timely
        <4>. QED  BY <4>1, <4>2, <3>1, <3>2
      <3>. QED  BY <2>2, <1>4, <3>3, <3>4
    <2>. QED  BY <2>1, <2>2, <1>2
  <1>10. Once'
    BY <1>1, <1>2 DEF ExactlyOnceInv, Once
  <1>. QED  BY <1>6, <1>7, <1>8, <1>9, <1>10 DEF ExactlyOnceInv

\* A TRel forgets a transaction of which no copy is left.
LEMMA OnceHandleRelease ==
    ASSUME TypeOK, ExactlyOnceInv, NEW c \in Clients, ServerReceive(c),
           Head(c2s[c]).type = "TRel", HandleRelease(c, Head(c2s[c]))
    PROVE  ExactlyOnceInv'
  <1>. DEFINE m == Head(c2s[c])
  <1>0. c2s[c] # <<>> /\ m \in ReqType \cup RelType
    BY ChannelType DEF ServerReceive, TypeOK
  <1>. PICK t \in Tids : t = m.tid
    BY <1>0 DEF ReqType, RelType
  <1>. DEFINE x == <<c, t>>
  <1>1. /\ c2s[c] # <<>> /\ c2s' = [c2s EXCEPT ![c] = Tail(@)] /\ pending' = pending
        /\ reply_cache' = {e \in reply_cache : e.trans # x}
        /\ UNCHANGED <<now, next_tid, pending, in_progress, requests, serving,
                       delivered, dropped, evicted>>
    BY DEF ServerReceive, HandleRelease, Cached, clientVars
  <1>2. /\ Timely' /\ ReleaseLast'
        /\ \A y \in Trans : Live(y)' => Live(y)
        /\ \A d \in Clients : \A i \in 1..Len(c2s'[d]) :
              \E j \in 1..Len(c2s[d]) : c2s'[d][i] = c2s[d][j] /\ (d = c => j > 1)
    BY <1>1, CableShrinks DEF ExactlyOnceInv
  <1>3. \A y : Accepted(y)' <=> Accepted(y)
    BY <1>1 DEF Accepted
  <1>4. AloOnce'
    <2>1. \A y \in Trans : Accepted(y)' =>
             Accepted(y) \/ (y[1] = c /\ IsReq(Head(c2s[c]), y[2]))
      BY <1>3
    <2>. QED  BY <1>1, <2>1, AloShrinks, Zenon DEF ExactlyOnceInv
  <1>5. Fresh'
    BY <1>1, <1>2, <1>3 DEF ExactlyOnceInv, Fresh
  <1>6. 1 \in 1..Len(c2s[c]) /\ c2s[c][1] = m /\ IsRel(m, t)
    BY <1>1, TailMsg DEF TypeOK, IsRel
  <1>7. ~Live(x)'
    <2>2. /\ x \notin DOMAIN pending
          /\ \A j \in 1..Len(c2s[c]) : 1 < j => ~IsReq(c2s[c][j], t)
      BY <1>6 DEF ExactlyOnceInv, ReleaseLast
    <2>3. \A i \in 1..Len(c2s'[c]) : ~IsReq(c2s'[c][i], t)
      BY <2>2, <1>2
    <2>4. \A i \in 1..Len(c2s'[x[1]]) : ~IsReq(c2s'[x[1]][i], x[2])
      BY <2>3
    <2>. QED  BY <1>1, <2>2, <2>4 DEF Live, IsReq
  <1>8. Remembered'
    <2>. SUFFICES ASSUME NEW y \in Trans, Accepted(y), Live(y), y \notin evicted, y # x
                  PROVE  \/ \E i \in 1..Len(in_progress) : in_progress[i] = y
                         \/ \E e \in reply_cache' : e.trans = y
      BY <1>1, <1>2, <1>3, <1>7 DEF Remembered
    <2>. QED  BY <1>1 DEF ExactlyOnceInv, Remembered
  <1>9. Outlives'
    <2>. SUFFICES ASSUME NEW e \in reply_cache
                  PROVE /\ e.trans \in DOMAIN pending => e.expires_at > Budget(e.trans) + MAX_DELAY
                        /\ \A i \in 1..Len(c2s'[e.trans[1]]) :
                              IsReq(c2s'[e.trans[1]][i], e.trans[2]) =>
                                  e.expires_at > c2s'[e.trans[1]][i].sent + MAX_DELAY
      BY <1>1 DEF Outlives, Budget, IsReq
    <2>1. e.trans[1] \in Clients
      BY DEF TypeOK, CacheType, Trans
    <2>. QED  BY <1>2, <2>1 DEF ExactlyOnceInv, Outlives
  <1>10. Once'
    BY <1>1 DEF ExactlyOnceInv, Once
  <1>. QED  BY <1>2, <1>4, <1>5, <1>8, <1>9, <1>10 DEF ExactlyOnceInv

\* in_progress remembers a new transaction, and every old one it does not displace.
LEMMA PushInProgress ==
    ASSUME TypeOK, NEW x \in Trans
    PROVE  /\ \E j \in 1..Len(Push(in_progress, x)) : Push(in_progress, x)[j] = x
           /\ \A i \in 1..Len(in_progress) : in_progress[i] \notin Displaced(in_progress) =>
                \E j \in 1..Len(Push(in_progress, x)) : Push(in_progress, x)[j] = in_progress[i]
  <1>1. in_progress \in Seq(Trans) /\ Len(in_progress) <= REPLY_CACHE_LEN
    BY DEF TypeOK
  <1>2. \E j \in 1..Len(Push(in_progress, x)) : Push(in_progress, x)[j] = x
    BY <1>1, PushType
  <1>3. ASSUME NEW i \in 1..Len(in_progress), in_progress[i] \notin Displaced(in_progress)
        PROVE  \E j \in 1..Len(Push(in_progress, x)) : Push(in_progress, x)[j] = in_progress[i]
    BY <1>1, <1>3, PushKeeps
  <1>. QED  BY <1>2, <1>3

\* What is queued is a transaction.
LEMMA QueuedTrans ==
    ASSUME TypeOK
    PROVE  \A i \in 1..Len(requests) : requests[i].trans \in Trans
  <1>1. requests \in Seq(InboundType)  BY DEF TypeOK
  <1>2. \A i \in 1..Len(requests) : requests[i] \in InboundType  BY <1>1
  <1>. QED  BY <1>2 DEF InboundType

\* A request the responder knows nothing of is delivered, or dropped at the queue:
\* had it been taken in before, Remembered says that it would have been recognised.
LEMMA OnceDeliver ==
    ASSUME TypeOK, ExactlyOnceInv, NEW c \in Clients, NEW t \in Tids, NEW m \in ReqType,
           c2s[c] # <<>>, m = Head(c2s[c]), m.tid = t,
           c2s' = [c2s EXCEPT ![c] = Tail(@)],
           UNCHANGED <<now, next_tid, pending, reply_cache, serving>>,
           Cached(<<c, t>>) = {}, ~(m.xo /\ <<c, t>> \in Range(in_progress)),
           IF m.xo
           THEN /\ in_progress' = Push(in_progress, <<c, t>>)
                /\ evicted' = evicted \cup Displaced(in_progress)
           ELSE UNCHANGED <<in_progress, evicted>>,
           SortEvents(<<c, t>>, m)
    PROVE  ExactlyOnceInv'
  <1>. USE ConstantsAssumption
  <1>. DEFINE x == <<c, t>>
  <1>1. x \in Trans /\ x[1] = c /\ x[2] = t
    BY DEF Trans
  <1>2. /\ Timely' /\ ReleaseLast'
        /\ \A y \in Trans : Live(y)' => Live(y)
        /\ \A d \in Clients : \A i \in 1..Len(c2s'[d]) :
              \E j \in 1..Len(c2s[d]) : c2s'[d][i] = c2s[d][j] /\ (d = c => j > 1)
    BY CableShrinks DEF ExactlyOnceInv
  <1>3. 1 \in 1..Len(c2s[c]) /\ c2s[c][1] = m /\ IsReq(m, t)
    BY TailMsg DEF TypeOK, IsReq, ReqType
  <1>4. in_progress \in Seq(Trans)
    BY DEF TypeOK
  <1>5. Live(x)
    BY <1>1, <1>3 DEF Live
  <1>. HIDE DEF x
  <1>20. /\ \E j \in 1..Len(Push(in_progress, x)) : Push(in_progress, x)[j] = x
         /\ \A i \in 1..Len(in_progress) : in_progress[i] \notin Displaced(in_progress) =>
              \E j \in 1..Len(Push(in_progress, x)) : Push(in_progress, x)[j] = in_progress[i]
    BY <1>1, PushInProgress, Zenon
  <1>6. x \notin evicted => ~Accepted(x)
    <2>. SUFFICES ASSUME x \notin evicted, Accepted(x) PROVE FALSE
      OBVIOUS
    <2>1. ~\E e \in reply_cache : e.trans = x
      BY DEF Cached, x
    <2>2. PICK i \in 1..Len(in_progress) : in_progress[i] = x
      BY <2>1, <1>1, <1>5 DEF ExactlyOnceInv, Remembered
    <2>3. x \in Range(in_progress)
      BY <2>2, <1>4 DEF Range
    <2>4. ~m.xo
      BY <2>3 DEF x
    <2>5. AloAlone(c, 1, t)
      BY <1>3 DEF ExactlyOnceInv, AloOnce
    <2>6. ~Accepted(<<c, t>>)
      BY <2>4, <2>5, <1>3 DEF AloAlone
    <2>. QED  BY <2>6 DEF x
  <1>7. /\ \A y \in Trans : y # x => (delivered'[y] = delivered[y] /\ (y \in dropped' <=> y \in dropped))
        /\ \/ delivered'[x] = delivered[x] + 1 /\ dropped' = dropped
              /\ requests' = Append(requests, [trans |-> x, xo |-> m.xo, bitmap |-> m.bitmap])
           \/ delivered' = delivered /\ dropped' = dropped \cup {x} /\ requests' = requests
    <2>1. delivered \in [Trans -> Nat]  BY DEF TypeOK
    <2>2. CASE Len(requests) < REQUEST_QUEUE_LEN
      BY <2>1, <2>2, <1>1 DEF SortEvents, x
    <2>3. CASE ~(Len(requests) < REQUEST_QUEUE_LEN)
      BY <2>3 DEF SortEvents, x
    <2>. QED  BY <2>2, <2>3
  <1>8. /\ Accepted(x)'
        /\ \A y \in Trans : y # x => (Accepted(y)' <=> Accepted(y))
        /\ \A y \in Trans : Accepted(y) => Accepted(y)'
    <2>1. delivered[x] \in Nat  BY <1>1 DEF TypeOK
    <2>2. delivered'[x] > 0 \/ x \in dropped'  BY <2>1, <1>7
    <2>3. Accepted(x)'  BY <2>2 DEF Accepted, x
    <2>4. \A y \in Trans : y # x => (Accepted(y)' <=> Accepted(y))
      BY <1>7 DEF Accepted
    <2>. QED  BY <2>3, <2>4
  <1>9. AloOnce'
    <2>1. \A y \in Trans : Accepted(y)' =>
             Accepted(y) \/ (y[1] = c /\ IsReq(Head(c2s[c]), y[2]))
      BY <1>1, <1>3, <1>8
    <2>2. pending' = pending  OBVIOUS
    <2>. QED  BY <2>1, <2>2, AloShrinks, Zenon DEF ExactlyOnceInv
  <1>10. Fresh'
    <2>1. t < next_tid[c]
      BY <1>3 DEF ExactlyOnceInv, Fresh, IsReq
    <2>2. \A y \in Trans : Accepted(y)' => y[2] < next_tid[y[1]]
      BY <2>1, <1>1, <1>8 DEF ExactlyOnceInv, Fresh
    <2>3. \A d \in Clients : \A i \in 1..Len(c2s'[d]) : c2s'[d][i].tid < next_tid[d]
      BY <1>2 DEF ExactlyOnceInv, Fresh
    <2>. DEFINE Acc(y) == delivered'[y] > 0 \/ y \in dropped'
    <2>4. \A y \in Trans : Acc(y) <=> Accepted(y)'
      BY DEF Accepted
    <2>5. Acc(x) /\ \A y \in Trans : Accepted(y) => Acc(y)
      BY <2>4, <1>1, <1>8
    <2>. HIDE DEF Acc
    <2>6. \A r \in serving : Acc(r.trans)
      BY <2>5 DEF ExactlyOnceInv, Fresh, TypeOK, InboundType
    <2>7. \A i \in 1..Len(requests) : Acc(requests[i].trans)
      <3>1. \A i \in 1..Len(requests) : requests[i].trans \in Trans
        BY QueuedTrans
      <3>. QED  BY <2>5, <3>1 DEF ExactlyOnceInv, Fresh
    <2>8. \A i \in 1..Len(requests') : Acc(requests'[i].trans)
      <3>. DEFINE q == [trans |-> x, xo |-> m.xo, bitmap |-> m.bitmap]
      <3>1. CASE requests' = requests
        BY <2>7, <3>1
      <3>2. CASE requests' = Append(requests, q)
        <4>1. q.trans = x  OBVIOUS
        <4>. HIDE DEF q
        <4>2. /\ Len(requests') = Len(requests) + 1 /\ Len(requests) \in Nat
              /\ \A i \in 1..Len(requests) : requests'[i] = requests[i]
              /\ requests'[Len(requests) + 1] = q
          BY <3>2, AppendProperties DEF TypeOK
        <4>. QED  BY <4>1, <4>2, <2>5, <2>7
      <3>. QED  BY <3>1, <3>2, <1>7
    <2>9. /\ \A r \in serving' : delivered'[r.trans] > 0 \/ r.trans \in dropped'
          /\ \A i \in 1..Len(requests') :
                delivered'[requests'[i].trans] > 0 \/ requests'[i].trans \in dropped'
      BY <2>6, <2>8 DEF Acc
    <2>10. /\ \A y \in DOMAIN pending : y[2] < next_tid[y[1]]
           /\ \A e \in reply_cache : e.trans[2] < next_tid[e.trans[1]]
      BY DEF ExactlyOnceInv, Fresh
    <2>. QED  BY <2>2, <2>3, <2>9, <2>10 DEF Fresh, Accepted
  <1>11. Remembered'
    <2>1. evicted \subseteq evicted'
      OBVIOUS
    <2>2. ASSUME Live(x)'
          PROVE  \E i \in 1..Len(in_progress') : in_progress'[i] = x
      <3>1. CASE m.xo
        <4>1. in_progress' = Push(in_progress, x)  BY <3>1 DEF x
        <4>. QED  BY <4>1, <1>20
      <3>2. CASE ~m.xo
        <4>1. AloAlone(c, 1, t)
          BY <1>3 DEF ExactlyOnceInv, AloOnce
        <4>2. /\ x \notin DOMAIN pending
              /\ \A j \in 1..Len(c2s[c]) : 1 # j => ~IsReq(c2s[c][j], t)
          BY <4>1, <3>2, <1>3 DEF AloAlone, x
        <4>3. \A i \in 1..Len(c2s'[c]) : ~IsReq(c2s'[c][i], t)
          BY <4>2, <1>2
        <4>4. ~Live(x)'
          BY <4>2, <4>3, <1>1 DEF Live, IsReq
        <4>. QED  BY <4>4, <2>2
      <3>. QED  BY <3>1, <3>2
    <2>3. ASSUME NEW y \in Trans, y # x, Accepted(y)', Live(y)', y \notin evicted'
          PROVE  \/ \E i \in 1..Len(in_progress') : in_progress'[i] = y
                 \/ \E e \in reply_cache' : e.trans = y
      <3>1. Accepted(y) /\ Live(y) /\ y \notin evicted
        BY <2>1, <2>3, <1>2, <1>8
      <3>2. CASE \E e \in reply_cache : e.trans = y
        BY <3>2
      <3>3. CASE \E i \in 1..Len(in_progress) : in_progress[i] = y
        <4>1. CASE ~m.xo
          BY <4>1, <3>3
        <4>2. CASE m.xo
          <5>1. PICK i \in 1..Len(in_progress) : in_progress[i] = y
            BY <3>3
          <5>2. y \notin Displaced(in_progress)
            BY <4>2, <2>3
          <5>5. in_progress' = Push(in_progress, x)
            BY <4>2 DEF x
          <5>. QED  BY <5>1, <5>2, <5>5, <1>20
        <4>. QED  BY <4>1, <4>2
      <3>. QED  BY <3>1, <3>2, <3>3 DEF ExactlyOnceInv, Remembered
    <2>. QED  BY <2>2, <2>3 DEF Remembered
  <1>12. Outlives'
    <2>. SUFFICES ASSUME NEW e \in reply_cache
                  PROVE /\ e.trans \in DOMAIN pending => e.expires_at > Budget(e.trans) + MAX_DELAY
                        /\ \A i \in 1..Len(c2s'[e.trans[1]]) :
                              IsReq(c2s'[e.trans[1]][i], e.trans[2]) =>
                                  e.expires_at > c2s'[e.trans[1]][i].sent + MAX_DELAY
      BY DEF Outlives, Budget, IsReq
    <2>1. e.trans[1] \in Clients
      BY DEF TypeOK, CacheType, Trans
    <2>. QED  BY <1>2, <2>1 DEF ExactlyOnceInv, Outlives
  <1>13. Once'
    <2>1. evicted \subseteq evicted'
      OBVIOUS
    <2>2. ASSUME x \notin evicted
          PROVE  delivered'[x] <= 1 /\ (x \in dropped' => delivered'[x] = 0)
      <3>1. ~(delivered[x] > 0) /\ x \notin dropped
        BY <2>2, <1>6 DEF Accepted
      <3>2. delivered[x] = 0
        BY <3>1, <1>1 DEF TypeOK
      <3>. QED  BY <3>1, <3>2, <1>7
    <2>3. ASSUME NEW y \in Trans, y # x, y \notin evicted
          PROVE  delivered'[y] <= 1 /\ (y \in dropped' => delivered'[y] = 0)
      BY <2>3, <1>7 DEF ExactlyOnceInv, Once
    <2>. QED  BY <2>1, <2>2, <2>3 DEF Once
  <1>. QED  BY <1>2, <1>9, <1>10, <1>11, <1>12, <1>13 DEF ExactlyOnceInv

\* A message put on the cable is the only new one there, and it is not overdue.
LEMMA CableGrows ==
    ASSUME TypeOK, Timely, NEW c \in Clients, NEW m \in ReqType \cup RelType, m.sent = now,
           c2s' = [c2s EXCEPT ![c] = Append(@, m)]
    PROVE  /\ \A d \in Clients : \A i \in 1..Len(c2s'[d]) :
                 \/ i \in 1..Len(c2s[d]) /\ c2s'[d][i] = c2s[d][i]
                 \/ d = c /\ i = Len(c2s[c]) + 1 /\ c2s'[d][i] = m
           /\ \A d \in Clients : Len(c2s[d]) \in Nat
           /\ \A d \in Clients : \A i \in 1..Len(c2s'[d]) :
                 c2s'[d][i].sent <= now /\ now <= c2s'[d][i].sent + MAX_DELAY
  <1>1. c2s \in [Clients -> Seq(ReqType \cup RelType)]
    BY DEF TypeOK
  <1>2. \A d \in Clients :
           /\ Len(c2s[d]) \in Nat /\ Len(c2s'[d]) \in Nat
           /\ \A i \in 1..Len(c2s'[d]) :
                 \/ i \in 1..Len(c2s[d]) /\ c2s'[d][i] = c2s[d][i]
                 \/ d = c /\ i = Len(c2s[c]) + 1 /\ c2s'[d][i] = m
    BY <1>1, AppendMsg
  <1>3. m.sent <= now /\ now <= m.sent + MAX_DELAY
    BY ConstantsAssumption DEF TypeOK
  <1>4. \A d \in Clients : \A i \in 1..Len(c2s'[d]) :
           c2s'[d][i].sent <= now /\ now <= c2s'[d][i].sent + MAX_DELAY
    BY <1>2, <1>3 DEF Timely
  <1>. QED  BY <1>2, <1>4

\* What the invariant says of a tid that was never allocated.
LEMMA NextTidFresh ==
    ASSUME TypeOK, Fresh, NEW c \in Clients, NEW t \in Tids, t = next_tid[c]
    PROVE  /\ <<c, t>> \notin DOMAIN pending
           /\ \A i \in 1..Len(c2s[c]) : c2s[c][i].tid # t
           /\ ~Accepted(<<c, t>>)
           /\ \A e \in reply_cache : e.trans # <<c, t>>
  <1>1. <<c, t>> \in Trans /\ <<c, t>>[1] = c /\ <<c, t>>[2] = t
    BY DEF Trans
  <1>2. next_tid[c] \in Nat  BY DEF TypeOK
  <1>3. ~(t < next_tid[c])  BY <1>2
  <1>. QED  BY <1>1, <1>3 DEF Fresh

\* allocate_tid only moves forward.
LEMMA NextTidGrows ==
    ASSUME TypeOK, NEW c \in Clients, next_tid' = [next_tid EXCEPT ![c] = @ + 1]
    PROVE  /\ \A d \in Clients :
                 next_tid[d] \in Nat /\ next_tid'[d] \in Nat /\ next_tid[d] <= next_tid'[d]
           /\ next_tid[c] < next_tid'[c]
  <1>1. next_tid \in [Clients -> Nat \ {0}]  BY DEF TypeOK
  <1>. QED  BY <1>1

\* Types of what the cable and the cache hold.
LEMMA MessageTid ==
    ASSUME TypeOK, NEW d \in Clients, NEW i \in 1..Len(c2s[d])
    PROVE  c2s[d][i].tid \in Nat /\ c2s[d][i].sent \in Nat
  <1>1. c2s[d] \in Seq(ReqType \cup RelType)  BY DEF TypeOK
  <1>2. c2s[d][i] \in ReqType \cup RelType  BY <1>1
  <1>. QED  BY <1>2 DEF ReqType, RelType, Tids

\* What is cached is the answer to a transaction.
LEMMA CacheTrans ==
    ASSUME TypeOK, NEW e \in reply_cache
    PROVE  e.trans \in Trans /\ e.trans[1] \in Clients /\ e.trans[2] \in Nat
  <1>1. e.trans \in Trans  BY DEF TypeOK, CacheType
  <1>. QED  BY <1>1 DEF Trans, Tids

\* A new tid: the request joins `pending` or, sent at least once, only the cable.
LEMMA OnceNewTid ==
    ASSUME TypeOK, ExactlyOnceInv, NEW c \in Clients, NEW t \in Tids, t = next_tid[c],
           NEW m \in ReqType, m.tid = t, m.sent = now,
           c2s' = [c2s EXCEPT ![c] = Append(@, m)],
           next_tid' = [next_tid EXCEPT ![c] = @ + 1],
           UNCHANGED <<now, reply_cache, in_progress, requests, serving,
                       delivered, dropped, evicted>>,
           DOMAIN pending \subseteq DOMAIN pending',
           DOMAIN pending' \subseteq DOMAIN pending \cup {<<c, t>>},
           \A y \in DOMAIN pending : y # <<c, t>> => pending'[y] = pending[y],
           <<c, t>> \in DOMAIN pending' =>
               /\ m.xo
               /\ pending'[<<c, t>>].retry_at = now + RETRY_INTERVAL
    PROVE  ExactlyOnceInv'
  <1>. USE ConstantsAssumption
  <1>. DEFINE x == <<c, t>>
  <1>1. x \in Trans /\ x[1] = c /\ x[2] = t
    BY DEF Trans
  <1>2. /\ \A d \in Clients : \A i \in 1..Len(c2s'[d]) :
              \/ i \in 1..Len(c2s[d]) /\ c2s'[d][i] = c2s[d][i]
              \/ d = c /\ i = Len(c2s[c]) + 1 /\ c2s'[d][i] = m
        /\ \A d \in Clients : Len(c2s[d]) \in Nat
        /\ \A d \in Clients : \A i \in 1..Len(c2s'[d]) :
              c2s'[d][i].sent <= now /\ now <= c2s'[d][i].sent + MAX_DELAY
    BY CableGrows DEF ExactlyOnceInv
  <1>3. /\ x \notin DOMAIN pending
        /\ \A i \in 1..Len(c2s[c]) : c2s[c][i].tid # t
        /\ ~Accepted(x)
        /\ \A e \in reply_cache : e.trans # x
    BY NextTidFresh DEF ExactlyOnceInv
  <1>4. /\ \A d \in Clients :
              next_tid[d] \in Nat /\ next_tid'[d] \in Nat /\ next_tid[d] <= next_tid'[d]
        /\ t < next_tid'[c]
    BY NextTidGrows
  <1>5. \A y : Accepted(y)' <=> Accepted(y)
    BY DEF Accepted
  <1>6. DOMAIN pending \subseteq Trans
    BY DEF TypeOK
  <1>7. m.type = "TReq" /\ IsReq(m, t) /\ \A u : ~IsRel(m, u)
    BY DEF ReqType, IsReq, IsRel
  <1>. HIDE DEF x
  <1>8. Timely'
    <2>1. ASSUME NEW y \in DOMAIN pending'
          PROVE  /\ pending'[y].retry_at <= now + RETRY_INTERVAL
                 /\ now <= pending'[y].retry_at + POLL_SLACK
      <3>1. CASE y = x
        BY <3>1 DEF x, TypeOK
      <3>2. CASE y # x
        <4>1. y \in DOMAIN pending /\ pending'[y] = pending[y]
          BY <3>2 DEF x
        <4>. QED  BY <4>1 DEF ExactlyOnceInv, Timely
      <3>. QED  BY <3>1, <3>2
    <2>. QED  BY <1>2, <2>1 DEF Timely
  <1>9. Fresh'
    <2>1. \A y \in DOMAIN pending' : y[2] < next_tid'[y[1]]
      <3>1. \A y \in DOMAIN pending : y[1] \in Clients /\ y[2] \in Nat
        BY <1>6 DEF Trans, Tids
      <3>2. \A y \in DOMAIN pending : y[2] < next_tid'[y[1]]
        <4>. SUFFICES ASSUME NEW y \in DOMAIN pending PROVE y[2] < next_tid'[y[1]]
          OBVIOUS
        <4>1. y[2] < next_tid[y[1]]  BY DEF ExactlyOnceInv, Fresh
        <4>2. next_tid[y[1]] \in Nat /\ next_tid[y[1]] <= next_tid'[y[1]] /\ next_tid'[y[1]] \in Nat
          BY <3>1, <1>4
        <4>. QED  BY <3>1, <4>1, <4>2
      <3>. QED  BY <3>2, <1>1, <1>4 DEF x
    <2>2. \A d \in Clients : \A i \in 1..Len(c2s'[d]) : c2s'[d][i].tid < next_tid'[d]
      <3>. SUFFICES ASSUME NEW d \in Clients, NEW i \in 1..Len(c2s'[d])
                    PROVE  c2s'[d][i].tid < next_tid'[d]
        OBVIOUS
      <3>1. CASE i \in 1..Len(c2s[d]) /\ c2s'[d][i] = c2s[d][i]
        <4>1. c2s[d][i].tid < next_tid[d]
          BY <3>1 DEF ExactlyOnceInv, Fresh
        <4>2. c2s[d][i].tid \in Nat
          BY <3>1, MessageTid
        <4>. QED  BY <3>1, <4>1, <4>2, <1>4
      <3>2. CASE d = c /\ c2s'[d][i] = m
        BY <3>2, <1>4
      <3>. QED  BY <3>1, <3>2, <1>2
    <2>3. \A y \in Trans : Accepted(y) => y[2] < next_tid'[y[1]]
      <3>. SUFFICES ASSUME NEW y \in Trans, Accepted(y) PROVE y[2] < next_tid'[y[1]]
        OBVIOUS
      <3>1. y[1] \in Clients /\ y[2] \in Nat  BY DEF Trans, Tids
      <3>2. y[2] < next_tid[y[1]]  BY DEF ExactlyOnceInv, Fresh
      <3>. QED  BY <3>1, <3>2, <1>4
    <2>4. \A e \in reply_cache : e.trans[2] < next_tid'[e.trans[1]]
      <3>. SUFFICES ASSUME NEW e \in reply_cache PROVE e.trans[2] < next_tid'[e.trans[1]]
        OBVIOUS
      <3>1. e.trans[1] \in Clients /\ e.trans[2] \in Nat
        BY CacheTrans
      <3>2. e.trans[2] < next_tid[e.trans[1]]  BY DEF ExactlyOnceInv, Fresh
      <3>. QED  BY <3>1, <3>2, <1>4
    <2>5. /\ \A r \in serving : Accepted(r.trans)
          /\ \A i \in 1..Len(requests) : Accepted(requests[i].trans)
      BY DEF ExactlyOnceInv, Fresh
    <2>. QED  BY <2>1, <2>2, <2>3, <2>4, <2>5 DEF Fresh, Accepted
  <1>10. ReleaseLast'
    <2>. SUFFICES ASSUME NEW d \in Clients, NEW i \in 1..Len(c2s'[d]), NEW u \in Tids,
                         IsRel(c2s'[d][i], u)
                  PROVE  /\ <<d, u>> \notin DOMAIN pending'
                         /\ \A j \in 1..Len(c2s'[d]) : i < j => ~IsReq(c2s'[d][j], u)
      BY DEF ReleaseLast, IsRel, IsReq
    <2>1. i \in 1..Len(c2s[d]) /\ c2s'[d][i] = c2s[d][i]
      BY <1>2, <1>7
    <2>2. /\ <<d, u>> \notin DOMAIN pending
          /\ \A j \in 1..Len(c2s[d]) : i < j => ~IsReq(c2s[d][j], u)
      BY <2>1 DEF ExactlyOnceInv, ReleaseLast
    <2>3. d = c => u # t
      BY <2>1, <1>3 DEF IsRel
    <2>4. <<d, u>> \notin DOMAIN pending'
      BY <2>2, <2>3
    <2>5. ASSUME NEW j \in 1..Len(c2s'[d]), i < j PROVE ~IsReq(c2s'[d][j], u)
      BY <1>2, <2>2, <2>3, <2>5 DEF IsReq
    <2>. QED  BY <2>4, <2>5
  <1>11. AloOnce'
    <2>. SUFFICES ASSUME NEW d \in Clients, NEW i \in 1..Len(c2s'[d]), NEW u \in Tids
                  PROVE  AloAlone(d, i, u)'
      BY DEF AloOnce
    <2>. SUFFICES ASSUME IsReq(c2s'[d][i], u), ~c2s'[d][i].xo
                  PROVE  /\ ~Accepted(<<d, u>>)'
                         /\ <<d, u>> \notin DOMAIN pending'
                         /\ \A j \in 1..Len(c2s'[d]) : i # j => ~IsReq(c2s'[d][j], u)
      BY Zenon DEF AloAlone, IsReq
    <2>1. CASE i \in 1..Len(c2s[d]) /\ c2s'[d][i] = c2s[d][i]
      <3>1. AloAlone(d, i, u)
        BY <2>1 DEF ExactlyOnceInv, AloOnce
      <3>2. /\ ~Accepted(<<d, u>>)
            /\ <<d, u>> \notin DOMAIN pending
            /\ \A j \in 1..Len(c2s[d]) : i # j => ~IsReq(c2s[d][j], u)
        BY <3>1, <2>1 DEF AloAlone
      <3>3. d = c => u # t
        BY <2>1, <1>3 DEF IsReq
      <3>4. <<d, u>> \notin DOMAIN pending'
        BY <3>2, <3>3
      <3>5. ASSUME NEW j \in 1..Len(c2s'[d]), i # j PROVE ~IsReq(c2s'[d][j], u)
        BY <1>2, <3>2, <3>3, <3>5 DEF IsReq
      <3>6. ~Accepted(<<d, u>>)'
        BY <3>2, <1>5
      <3>. QED  BY <3>4, <3>5, <3>6
    <2>2. CASE d = c /\ i = Len(c2s[c]) + 1 /\ c2s'[d][i] = m
      <3>1. u = t
        BY <2>2 DEF IsReq
      <3>2. <<d, u>> = x
        BY <2>2, <3>1 DEF x
      <3>3. x \notin DOMAIN pending'
        BY <2>2 DEF x
      <3>4. ~Accepted(<<d, u>>)'
        BY <1>3, <1>5, <2>2, <3>1 DEF x
      <3>5. ASSUME NEW j \in 1..Len(c2s'[d]), i # j PROVE ~IsReq(c2s'[d][j], u)
        <4>1. j \in 1..Len(c2s[c]) /\ c2s'[d][j] = c2s[c][j]
          BY <1>2, <2>2, <3>5
        <4>. QED  BY <4>1, <3>1, <1>3 DEF IsReq
      <3>. QED  BY <3>2, <3>3, <3>4, <3>5
    <2>. QED  BY <2>1, <2>2, <1>2
  <1>12. Remembered'
    <2>. SUFFICES ASSUME NEW y \in Trans, Accepted(y), Live(y)', y \notin evicted
                  PROVE  \/ \E i \in 1..Len(in_progress) : in_progress[i] = y
                         \/ \E e \in reply_cache : e.trans = y
      BY <1>5 DEF Remembered
    <2>1. y # x
      BY <1>3
    <2>2. y[1] \in Clients /\ (y[1] = c => y[2] # t)
      BY <2>1 DEF Trans, x
    <2>3. Live(y)
      <3>1. CASE y \in DOMAIN pending'
        BY <3>1, <2>1 DEF Live, x
      <3>2. CASE \E i \in 1..Len(c2s'[y[1]]) : IsReq(c2s'[y[1]][i], y[2])
        BY <3>2, <2>2, <1>2 DEF Live, IsReq
      <3>. QED  BY <3>1, <3>2 DEF Live, IsReq
    <2>. QED  BY <2>3 DEF ExactlyOnceInv, Remembered
  <1>13. Outlives'
    <2>1. ASSUME NEW e \in reply_cache, e.trans \in DOMAIN pending'
          PROVE  e.expires_at > Budget(e.trans)' + MAX_DELAY
      <3>1. e.trans # x /\ e.trans \in DOMAIN pending /\ pending'[e.trans] = pending[e.trans]
        BY <2>1, <1>3 DEF x
      <3>2. Budget(e.trans)' = Budget(e.trans)
        BY <3>1 DEF Budget
      <3>. QED  BY <3>1, <3>2 DEF ExactlyOnceInv, Outlives
    <2>2. ASSUME NEW e \in reply_cache, NEW i \in 1..Len(c2s'[e.trans[1]]),
                 IsReq(c2s'[e.trans[1]][i], e.trans[2])
          PROVE  e.expires_at > c2s'[e.trans[1]][i].sent + MAX_DELAY
      <3>1. e.trans \in Trans /\ e.trans[1] \in Clients
        BY DEF TypeOK, CacheType, Trans
      <3>2. e.trans[1] = c => e.trans[2] # t
        BY <1>3, <3>1 DEF Trans, x
      <3>3. i \in 1..Len(c2s[e.trans[1]]) /\ c2s'[e.trans[1]][i] = c2s[e.trans[1]][i]
        BY <1>2, <2>2, <3>1, <3>2 DEF IsReq
      <3>. QED  BY <2>2, <3>3 DEF ExactlyOnceInv, Outlives
    <2>. QED  BY <2>1, <2>2 DEF Outlives, IsReq
  <1>14. Once'
    BY DEF ExactlyOnceInv, Once
  <1>. QED  BY <1>8, <1>9, <1>10, <1>11, <1>12, <1>13, <1>14 DEF ExactlyOnceInv

\* Requests leave `pending`, or stay with their schedule: a packet was stored, the
\* request failed, or an assembly with a hole was thrown away.
LEMMA OncePendingShrinks ==
    ASSUME TypeOK, ExactlyOnceInv, DOMAIN pending' \subseteq DOMAIN pending,
           \A y \in DOMAIN pending' : /\ pending'[y].retry_at = pending[y].retry_at
                                      /\ pending'[y].retries = pending[y].retries,
           UNCHANGED <<now, next_tid, reply_cache, in_progress, requests, serving, c2s,
                       delivered, dropped, evicted>>
    PROVE  ExactlyOnceInv'
  <1>1. \A y : Accepted(y)' <=> Accepted(y)
    BY DEF Accepted
  <1>2. Timely'
    BY DEF ExactlyOnceInv, Timely
  <1>3. Fresh' /\ ReleaseLast' /\ Once'
    BY DEF ExactlyOnceInv, Fresh, ReleaseLast, Once, Accepted, IsReq, IsRel
  <1>4. AloOnce'
    BY DEF ExactlyOnceInv, AloOnce, AloAlone, Accepted, IsReq
  <1>5. Remembered'
    <2>1. \A y \in Trans : Live(y)' => Live(y)
      BY DEF Live, IsReq
    <2>. QED  BY <1>1, <2>1 DEF ExactlyOnceInv, Remembered
  <1>6. Outlives'
    <2>1. \A y \in DOMAIN pending' : Budget(y)' = Budget(y)
      BY DEF Budget
    <2>2. \A e \in reply_cache : e.trans \in DOMAIN pending' =>
             e.expires_at > Budget(e.trans)' + MAX_DELAY
      BY <2>1 DEF ExactlyOnceInv, Outlives
    <2>. QED  BY <2>2 DEF ExactlyOnceInv, Outlives, IsReq
  <1>. QED  BY <1>2, <1>3, <1>4, <1>5, <1>6 DEF ExactlyOnceInv

\* A completed request leaves `pending` and its TRel closes the transaction.
LEMMA OnceRelease ==
    ASSUME TypeOK, ExactlyOnceInv, NEW c \in Clients, NEW t \in Tids,
           <<c, t>> \in DOMAIN pending,
           DOMAIN pending' = DOMAIN pending \ {<<c, t>>},
           \A y \in DOMAIN pending : y # <<c, t>> => pending'[y] = pending[y],
           NEW m \in RelType, m.tid = t, m.sent = now,
           c2s' = [c2s EXCEPT ![c] = Append(@, m)],
           UNCHANGED <<now, next_tid, reply_cache, in_progress, requests, serving,
                       delivered, dropped, evicted>>
    PROVE  ExactlyOnceInv'
  <1>. DEFINE x == <<c, t>>
  <1>1. m.type = "TRel"
    BY DEF RelType
  <1>3. /\ \A d \in Clients : \A i \in 1..Len(c2s'[d]) :
              \/ i \in 1..Len(c2s[d]) /\ c2s'[d][i] = c2s[d][i]
              \/ d = c /\ i = Len(c2s[c]) + 1 /\ c2s'[d][i] = m
        /\ \A d \in Clients : Len(c2s[d]) \in Nat
        /\ \A d \in Clients : \A i \in 1..Len(c2s'[d]) :
              c2s'[d][i].sent <= now /\ now <= c2s'[d][i].sent + MAX_DELAY
    BY CableGrows DEF ExactlyOnceInv
  <1>4. \A y : Accepted(y)' <=> Accepted(y)
    BY DEF Accepted
  <1>5. (\A u : ~IsReq(m, u)) /\ (\A u : IsRel(m, u) => u = t)
    BY <1>1 DEF IsReq, IsRel
  <1>6. \A d \in Clients : \A i \in 1..Len(c2s'[d]) : \A u :
           IsReq(c2s'[d][i], u) => i \in 1..Len(c2s[d]) /\ c2s'[d][i] = c2s[d][i]
    BY <1>3, <1>5
  <1>7. Timely'
    BY <1>3 DEF ExactlyOnceInv, Timely
  <1>8. Fresh'
    <2>1. t < next_tid[c]
      BY DEF ExactlyOnceInv, Fresh
    <2>2. \A d \in Clients : \A i \in 1..Len(c2s'[d]) : c2s'[d][i].tid < next_tid[d]
      BY <2>1, <1>1, <1>3 DEF ExactlyOnceInv, Fresh
    <2>. QED  BY <2>2 DEF ExactlyOnceInv, Fresh, Accepted
  <1>9. ReleaseLast'
    <2>. SUFFICES ASSUME NEW d \in Clients, NEW i \in 1..Len(c2s'[d]), NEW u \in Tids,
                         IsRel(c2s'[d][i], u)
                  PROVE  /\ <<d, u>> \notin DOMAIN pending'
                         /\ \A j \in 1..Len(c2s'[d]) : i < j => ~IsReq(c2s'[d][j], u)
      BY DEF ReleaseLast, IsRel, IsReq
    <2>1. CASE i \in 1..Len(c2s[d]) /\ c2s'[d][i] = c2s[d][i]
      <3>1. /\ <<d, u>> \notin DOMAIN pending
            /\ \A j \in 1..Len(c2s[d]) : i < j => ~IsReq(c2s[d][j], u)
        BY <2>1 DEF ExactlyOnceInv, ReleaseLast
      <3>2. ASSUME NEW j \in 1..Len(c2s'[d]), i < j PROVE ~IsReq(c2s'[d][j], u)
        BY <3>1, <3>2, <1>6
      <3>. QED  BY <3>1, <3>2
    <2>2. CASE d = c /\ i = Len(c2s[c]) + 1 /\ c2s'[d][i] = m
      <3>1. u = t
        BY <2>2, <1>5
      <3>2. ASSUME NEW j \in 1..Len(c2s'[d]), i < j PROVE ~IsReq(c2s'[d][j], u)
        BY <2>2, <3>2, <1>3, <1>6
      <3>. QED  BY <2>2, <3>1, <3>2
    <2>. QED  BY <2>1, <2>2, <1>3
  <1>10. AloOnce'
    <2>. SUFFICES ASSUME NEW d \in Clients, NEW i \in 1..Len(c2s'[d]), NEW u \in Tids
                  PROVE  AloAlone(d, i, u)'
      BY DEF AloOnce
    <2>. SUFFICES ASSUME IsReq(c2s'[d][i], u), ~c2s'[d][i].xo
                  PROVE  /\ ~Accepted(<<d, u>>)'
                         /\ <<d, u>> \notin DOMAIN pending'
                         /\ \A j \in 1..Len(c2s'[d]) : i # j => ~IsReq(c2s'[d][j], u)
      BY Zenon DEF AloAlone, IsReq
    <2>1. i \in 1..Len(c2s[d]) /\ c2s'[d][i] = c2s[d][i]
      BY <1>6
    <2>2. AloAlone(d, i, u)
      BY <2>1 DEF ExactlyOnceInv, AloOnce
    <2>3. /\ ~Accepted(<<d, u>>)
          /\ <<d, u>> \notin DOMAIN pending
          /\ \A j \in 1..Len(c2s[d]) : i # j => ~IsReq(c2s[d][j], u)
      BY <2>1, <2>2 DEF AloAlone
    <2>4. \A j \in 1..Len(c2s'[d]) : i # j => ~IsReq(c2s'[d][j], u)
      BY <2>3, <1>6
    <2>5. ~Accepted(<<d, u>>)'
      BY <2>3, <1>4
    <2>. QED  BY <2>3, <2>4, <2>5
  <1>11. Remembered'
    <2>1. \A y \in Trans : Live(y)' => Live(y)
      <3>. SUFFICES ASSUME NEW y \in Trans, Live(y)' PROVE Live(y)
        OBVIOUS
      <3>1. y[1] \in Clients  BY DEF Trans
      <3>2. CASE y \in DOMAIN pending'
        BY <3>2 DEF Live
      <3>3. CASE \E i \in 1..Len(c2s'[y[1]]) : IsReq(c2s'[y[1]][i], y[2])
        BY <3>1, <3>3, <1>6 DEF Live
      <3>. QED  BY <3>2, <3>3 DEF Live, IsReq
    <2>. QED  BY <1>4, <2>1 DEF ExactlyOnceInv, Remembered
  <1>12. Outlives'
    <2>1. \A y \in DOMAIN pending' : y \in DOMAIN pending /\ pending'[y] = pending[y]
      OBVIOUS
    <2>2. \A y \in DOMAIN pending' : Budget(y)' = Budget(y)
      BY <2>1 DEF Budget
    <2>3. \A e \in reply_cache : e.trans \in DOMAIN pending' =>
             e.expires_at > Budget(e.trans)' + MAX_DELAY
      BY <2>1, <2>2 DEF ExactlyOnceInv, Outlives
    <2>4. ASSUME NEW e \in reply_cache, NEW i \in 1..Len(c2s'[e.trans[1]]),
                 IsReq(c2s'[e.trans[1]][i], e.trans[2])
          PROVE  e.expires_at > c2s'[e.trans[1]][i].sent + MAX_DELAY
      <3>1. e.trans[1] \in Clients
        BY CacheTrans
      <3>2. i \in 1..Len(c2s[e.trans[1]]) /\ c2s'[e.trans[1]][i] = c2s[e.trans[1]][i]
        BY <2>4, <3>1, <1>6
      <3>. QED  BY <2>4, <3>2 DEF ExactlyOnceInv, Outlives
    <2>. QED  BY <2>3, <2>4 DEF Outlives, IsReq
  <1>13. Once'
    BY DEF ExactlyOnceInv, Once
  <1>. QED  BY <1>7, <1>8, <1>9, <1>10, <1>11, <1>12, <1>13 DEF ExactlyOnceInv

\* A response handled by a requestor keeps the invariant.
LEMMA OnceClientReceive ==
    ASSUME TypeOK, ExactlyOnceInv, NEW c \in Clients, ClientReceive(c)
    PROVE  ExactlyOnceInv'
  <1>. DEFINE m == Head(s2c[c])
  <1>1. m \in RespType
    BY ChannelType DEF ClientReceive, TypeOK
  <1>2. PICK t \in Tids : t = m.tid
    BY <1>1 DEF RespType
  <1>. DEFINE x == <<c, t>>
              p == Store(pending[x], m)
  <1>3. UNCHANGED <<now, next_tid, reply_cache, in_progress, requests, serving,
                    delivered, dropped, evicted>>
    BY DEF ClientReceive, serverVars, history
  <1>4. PICK D \in SUBSET Trans : pending \in [D -> PendingType]
    BY DEF TypeOK
  <1>5. CASE x \notin DOMAIN pending
    <2>1. UNCHANGED <<pending, c2s>>
      BY <1>2, <1>5 DEF ClientReceive
    <2>. QED  BY <1>3, <2>1, OnceUnchanged
  <1>6. CASE x \in DOMAIN pending /\ ~Complete(p)
    <2>1. pending' = [pending EXCEPT ![x] = p] /\ UNCHANGED c2s
      BY <1>2, <1>6 DEF ClientReceive
    <2>2. p.retry_at = pending[x].retry_at /\ p.retries = pending[x].retries
      BY <1>4, <1>6 DEF Store, PendingType
    <2>. HIDE DEF p
    <2>3. /\ DOMAIN pending' = DOMAIN pending
          /\ \A y \in DOMAIN pending' : /\ pending'[y].retry_at = pending[y].retry_at
                                        /\ pending'[y].retries = pending[y].retries
      BY <2>1, <2>2, <1>4
    <2>. QED  BY <1>3, <2>1, <2>3, OncePendingShrinks
  <1>7. CASE x \in DOMAIN pending /\ Complete(p)
    <2>1. Finish(c, t, p)
      BY <1>2, <1>7 DEF ClientReceive
    <2>2. pending' = Without(pending, x)
      BY <2>1 DEF Finish
    <2>3. /\ DOMAIN pending' = DOMAIN pending \ {x}
          /\ \A y \in DOMAIN pending : y # x => pending'[y] = pending[y]
      <3>. HIDE DEF x
      <3>. QED  BY <2>2, <1>4 DEF Without, Restrict
    <2>4. CASE UNCHANGED c2s
      <3>1. /\ DOMAIN pending' \subseteq DOMAIN pending
            /\ \A y \in DOMAIN pending' : /\ pending'[y].retry_at = pending[y].retry_at
                                          /\ pending'[y].retries = pending[y].retries
        BY <2>3
      <3>. QED  BY <1>3, <2>4, <3>1, OncePendingShrinks
    <2>5. CASE c2s' = [c2s EXCEPT ![c] = Append(@, TRel(t))]
      <3>1. TRel(t) \in RelType /\ TRel(t).tid = t /\ TRel(t).sent = now
        BY DEF TRel, RelType, TypeOK
      <3>. QED  BY <1>3, <1>7, <2>3, <2>5, <3>1, OnceRelease
    <2>. QED  BY <2>1, <2>4, <2>5 DEF Finish
  <1>. QED  BY <1>5, <1>6, <1>7

\* A retransmission spends one interval of the request's budget.
LEMMA RetryBudget ==
    ASSUME TypeOK, Timely, NEW x \in DOMAIN pending, now' = now,
           x \in DOMAIN pending', pending'[x].retry_at = now + RETRY_INTERVAL,
           pending'[x].retries = pending[x].retries + 1,
           pending'[x].retries <= MAX_RETRIES
    PROVE  Budget(x)' <= Budget(x) /\ Budget(x)' \in Nat
  <1>. USE ConstantsAssumption
  <1>. DEFINE a == MAX_RETRIES - pending[x].retries
  <1>1. pending[x] \in PendingType
    BY DEF TypeOK
  <1>2. a \in Nat /\ a > 0 /\ a - 1 \in Nat /\ pending[x].retry_at \in Nat
    BY <1>1 DEF PendingType
  <1>3. a - 1 = MAX_RETRIES - pending'[x].retries
    BY <1>1 DEF PendingType
  <1>. HIDE DEF a
  <1>4. Interval \in Nat /\ Interval = RETRY_INTERVAL + POLL_SLACK /\ now \in Nat
    BY DEF Interval, TypeOK
  <1>5. a * Interval = (a - 1) * Interval + Interval /\ (a - 1) * Interval \in Nat
    BY <1>2, <1>4, Product
  <1>6. now <= pending[x].retry_at + POLL_SLACK
    BY DEF Timely
  <1>7. Budget(x) = pending[x].retry_at + POLL_SLACK + a * Interval
    BY DEF Budget, a
  <1>8. Budget(x)' = now + RETRY_INTERVAL + POLL_SLACK + (a - 1) * Interval
    BY <1>3 DEF Budget, Interval
  <1>. QED  BY <1>2, <1>4, <1>5, <1>6, <1>7, <1>8

\* A retransmission keeps the invariant.
LEMMA OnceRetransmit ==
    ASSUME TypeOK, ExactlyOnceInv, NEW x \in DOMAIN pending, NEW c \in Clients, NEW t \in Tids,
           x = <<c, t>>, NEW m \in ReqType, m.tid = t, m.sent = now, m.xo,
           DOMAIN pending' = DOMAIN pending,
           \A y \in DOMAIN pending : y # x => pending'[y] = pending[y],
           pending'[x].retry_at = now + RETRY_INTERVAL,
           pending'[x].retries = pending[x].retries + 1,
           pending'[x].retries <= MAX_RETRIES,
           c2s' = [c2s EXCEPT ![c] = Append(@, m)],
           UNCHANGED <<now, next_tid, reply_cache, in_progress, requests, serving,
                       delivered, dropped, evicted>>
    PROVE  ExactlyOnceInv'
  <1>. USE ConstantsAssumption
  <1>1. /\ \A d \in Clients : \A i \in 1..Len(c2s'[d]) :
              \/ i \in 1..Len(c2s[d]) /\ c2s'[d][i] = c2s[d][i]
              \/ d = c /\ i = Len(c2s[c]) + 1 /\ c2s'[d][i] = m
        /\ \A d \in Clients : Len(c2s[d]) \in Nat
        /\ \A d \in Clients : \A i \in 1..Len(c2s'[d]) :
              c2s'[d][i].sent <= now /\ now <= c2s'[d][i].sent + MAX_DELAY
    BY CableGrows DEF ExactlyOnceInv
  <1>2. \A y : Accepted(y)' <=> Accepted(y)
    BY DEF Accepted
  <1>3. (\A u : IsReq(m, u) => u = t) /\ (\A u : ~IsRel(m, u))
    BY DEF IsReq, IsRel, ReqType
  <1>4. Budget(x)' <= Budget(x) /\ Budget(x)' \in Nat
    BY RetryBudget DEF ExactlyOnceInv
  <1>5. Budget(x) \in Nat /\ now <= Budget(x) /\ now \in Nat
    BY BudgetBounds DEF ExactlyOnceInv, TypeOK
  <1>6. Timely'
    <2>1. ASSUME NEW y \in DOMAIN pending
          PROVE  /\ pending'[y].retry_at <= now + RETRY_INTERVAL
                 /\ now <= pending'[y].retry_at + POLL_SLACK
      <3>1. CASE y = x
        BY <3>1, <1>5
      <3>2. CASE y # x
        BY <3>2 DEF ExactlyOnceInv, Timely
      <3>. QED  BY <3>1, <3>2
    <2>. QED  BY <1>1, <2>1 DEF Timely
  <1>7. Fresh'
    <2>1. t < next_tid[c]
      BY DEF ExactlyOnceInv, Fresh
    <2>2. \A d \in Clients : \A i \in 1..Len(c2s'[d]) : c2s'[d][i].tid < next_tid[d]
      BY <2>1, <1>1 DEF ExactlyOnceInv, Fresh
    <2>. QED  BY <2>2 DEF ExactlyOnceInv, Fresh, Accepted
  <1>8. ReleaseLast'
    <2>. SUFFICES ASSUME NEW d \in Clients, NEW i \in 1..Len(c2s'[d]), NEW u \in Tids,
                         IsRel(c2s'[d][i], u)
                  PROVE  /\ <<d, u>> \notin DOMAIN pending'
                         /\ \A j \in 1..Len(c2s'[d]) : i < j => ~IsReq(c2s'[d][j], u)
      BY DEF ReleaseLast, IsRel, IsReq
    <2>1. i \in 1..Len(c2s[d]) /\ c2s'[d][i] = c2s[d][i]
      BY <1>1, <1>3
    <2>2. /\ <<d, u>> \notin DOMAIN pending
          /\ \A j \in 1..Len(c2s[d]) : i < j => ~IsReq(c2s[d][j], u)
      BY <2>1 DEF ExactlyOnceInv, ReleaseLast
    <2>3. d = c => u # t
      BY <2>2
    <2>4. ASSUME NEW j \in 1..Len(c2s'[d]), i < j PROVE ~IsReq(c2s'[d][j], u)
      BY <1>1, <1>3, <2>2, <2>3, <2>4
    <2>. QED  BY <2>2, <2>4
  <1>9. AloOnce'
    <2>. SUFFICES ASSUME NEW d \in Clients, NEW i \in 1..Len(c2s'[d]), NEW u \in Tids
                  PROVE  AloAlone(d, i, u)'
      BY DEF AloOnce
    <2>. SUFFICES ASSUME IsReq(c2s'[d][i], u), ~c2s'[d][i].xo
                  PROVE  /\ ~Accepted(<<d, u>>)'
                         /\ <<d, u>> \notin DOMAIN pending'
                         /\ \A j \in 1..Len(c2s'[d]) : i # j => ~IsReq(c2s'[d][j], u)
      BY Zenon DEF AloAlone, IsReq
    <2>1. i \in 1..Len(c2s[d]) /\ c2s'[d][i] = c2s[d][i]
      BY <1>1
    <2>2. AloAlone(d, i, u)
      BY <2>1 DEF ExactlyOnceInv, AloOnce
    <2>3. /\ ~Accepted(<<d, u>>)
          /\ <<d, u>> \notin DOMAIN pending
          /\ \A j \in 1..Len(c2s[d]) : i # j => ~IsReq(c2s[d][j], u)
      BY <2>1, <2>2 DEF AloAlone
    <2>4. d = c => u # t
      BY <2>3
    <2>5. ASSUME NEW j \in 1..Len(c2s'[d]), i # j PROVE ~IsReq(c2s'[d][j], u)
      BY <1>1, <1>3, <2>3, <2>4, <2>5
    <2>6. ~Accepted(<<d, u>>)'
      BY <2>3, <1>2
    <2>. QED  BY <2>3, <2>5, <2>6
  <1>10. Remembered'
    <2>1. \A y \in Trans : Live(y)' => Live(y)
      <3>. SUFFICES ASSUME NEW y \in Trans, Live(y)', y \notin DOMAIN pending PROVE Live(y)
        BY DEF Live
      <3>1. y[1] \in Clients /\ (y[1] = c => y[2] # t)
        BY DEF Trans
      <3>2. \E i \in 1..Len(c2s'[y[1]]) : IsReq(c2s'[y[1]][i], y[2])
        BY DEF Live, IsReq
      <3>. QED  BY <3>1, <3>2, <1>1, <1>3 DEF Live
    <2>. QED  BY <1>2, <2>1 DEF ExactlyOnceInv, Remembered
  <1>11. Outlives'
    <2>1. ASSUME NEW e \in reply_cache, e.trans \in DOMAIN pending'
          PROVE  e.expires_at > Budget(e.trans)' + MAX_DELAY
      <3>1. e.expires_at > Budget(e.trans) + MAX_DELAY
        BY <2>1 DEF ExactlyOnceInv, Outlives
      <3>2. CASE e.trans = x
        <4>1. e.expires_at \in Nat  BY DEF TypeOK, CacheType
        <4>. QED  BY <3>1, <3>2, <4>1, <1>4, <1>5
      <3>3. CASE e.trans # x
        <4>1. pending'[e.trans] = pending[e.trans]
          BY <2>1, <3>3
        <4>2. Budget(e.trans)' = Budget(e.trans)
          BY <4>1 DEF Budget
        <4>. QED  BY <3>1, <4>2
      <3>. QED  BY <3>2, <3>3
    <2>2. ASSUME NEW e \in reply_cache, NEW i \in 1..Len(c2s'[e.trans[1]]),
                 IsReq(c2s'[e.trans[1]][i], e.trans[2])
          PROVE  e.expires_at > c2s'[e.trans[1]][i].sent + MAX_DELAY
      <3>1. e.trans \in Trans /\ e.trans[1] \in Clients
        BY CacheTrans
      <3>2. CASE i \in 1..Len(c2s[e.trans[1]]) /\ c2s'[e.trans[1]][i] = c2s[e.trans[1]][i]
        BY <2>2, <3>2 DEF ExactlyOnceInv, Outlives
      <3>3. CASE e.trans[1] = c /\ c2s'[e.trans[1]][i] = m
        <4>1. e.trans[2] = t
          BY <2>2, <3>3, <1>3
        <4>2. e.trans = x
          BY <3>1, <3>3, <4>1 DEF Trans
        <4>3. e.expires_at > Budget(x) + MAX_DELAY
          BY <4>2 DEF ExactlyOnceInv, Outlives
        <4>4. e.expires_at \in Nat  BY DEF TypeOK, CacheType
        <4>. QED  BY <3>3, <4>3, <4>4, <1>5
      <3>. QED  BY <3>1, <3>2, <3>3, <1>1
    <2>. QED  BY <2>1, <2>2 DEF Outlives, IsReq
  <1>12. Once'
    BY DEF ExactlyOnceInv, Once
  <1>. QED  BY <1>6, <1>7, <1>8, <1>9, <1>10, <1>11, <1>12 DEF ExactlyOnceInv

\* A retry or a failed request keeps the invariant.
LEMMA OnceClientPoll ==
    ASSUME TypeOK, ExactlyOnceInv, NEW x \in Trans, ClientPoll(x)
    PROVE  ExactlyOnceInv'
  <1>. USE ConstantsAssumption
  <1>. DEFINE p == [pending[x] EXCEPT !.retries = @ + 1,
                                      !.retry_at = now + RETRY_INTERVAL]
  <1>1. PICK D \in SUBSET Trans : pending \in [D -> PendingType]
    BY DEF TypeOK
  <1>2. x \in DOMAIN pending /\ pending[x] \in PendingType
    BY <1>1 DEF ClientPoll
  <1>3. UNCHANGED <<now, next_tid, reply_cache, in_progress, requests, serving,
                    delivered, dropped, evicted>>
    BY DEF ClientPoll, serverVars, history
  <1>4. /\ p.retries = pending[x].retries + 1 /\ p.retry_at = now + RETRY_INTERVAL
        /\ p.bitmap = pending[x].bitmap
    BY <1>2 DEF PendingType
  <1>5. CASE p.retries > MAX_RETRIES
    <2>1. pending' = Without(pending, x) /\ UNCHANGED c2s
      BY <1>5 DEF ClientPoll
    <2>2. /\ DOMAIN pending' \subseteq DOMAIN pending
          /\ \A y \in DOMAIN pending' : /\ pending'[y].retry_at = pending[y].retry_at
                                        /\ pending'[y].retries = pending[y].retries
      BY <2>1, <1>1 DEF Without, Restrict
    <2>. QED  BY <1>3, <2>1, <2>2, OncePendingShrinks
  <1>6. CASE ~(p.retries > MAX_RETRIES)
    <2>1. /\ pending' = [pending EXCEPT ![x] = p]
          /\ c2s' = [c2s EXCEPT ![x[1]] = Append(@, TReq(x[2], TRUE, p.bitmap))]
      BY <1>6 DEF ClientPoll
    <2>2. p.retries <= MAX_RETRIES
      BY <1>2, <1>4, <1>6 DEF PendingType
    <2>. HIDE DEF p
    <2>3. PICK c \in Clients, t \in Tids : x = <<c, t>>
      BY DEF Trans
    <2>. DEFINE m == TReq(t, TRUE, p.bitmap)
    <2>4. m \in ReqType /\ m.tid = t /\ m.sent = now /\ m.xo
      <3>1. p.bitmap \in 0..MAX_SLOTS /\ now \in Nat
        BY <1>2, <1>4 DEF PendingType, TypeOK
      <3>. QED  BY <3>1, Zenon DEF TReq, ReqType
    <2>5. c2s' = [c2s EXCEPT ![c] = Append(@, m)]
      BY <2>1, <2>3
    <2>. HIDE DEF m
    <2>6. /\ DOMAIN pending' = DOMAIN pending
          /\ \A y \in DOMAIN pending : y # x => pending'[y] = pending[y]
          /\ pending'[x] = p
      BY <2>1, <1>1, <1>2
    <2>7. /\ pending'[x].retry_at = now + RETRY_INTERVAL
          /\ pending'[x].retries = pending[x].retries + 1
          /\ pending'[x].retries <= MAX_RETRIES
      BY <2>2, <2>6, <1>4
    <2>. QED  BY <1>2, <1>3, <2>3, <2>4, <2>5, <2>6, <2>7, OnceRetransmit
  <1>. QED  BY <1>5, <1>6

\* request keeps the invariant.
LEMMA OnceRequest ==
    ASSUME TypeOK, ExactlyOnceInv, NEW c \in Clients, NEW n \in Bitmaps, Request(c, n)
    PROVE  ExactlyOnceInv'
  <1>. USE ConstantsAssumption
  <1>1. AllocateTid(c)
    BY DEF Request
  <1>2. PICK t \in Tids : t = next_tid[c]
    BY <1>1 DEF AllocateTid, TypeOK, Tids
  <1>3. UNCHANGED <<now, reply_cache, in_progress, requests, serving,
                    delivered, dropped, evicted>>
    BY DEF Request, serverVars, history
  <1>. DEFINE x == <<c, t>>
              m == TReq(t, TRUE, n)
              p == [bitmap |-> n, received |-> [i \in Slots |-> 0], eom_seq |-> -1,
                    retries |-> 0, retry_at |-> now + RETRY_INTERVAL]
  <1>4. /\ c2s' = [c2s EXCEPT ![c] = Append(@, m)]
        /\ pending' = With(pending, x, p)
    BY <1>2 DEF Request
  <1>5. m \in ReqType /\ m.tid = t /\ m.sent = now /\ m.xo
    <2>1. n \in 0..MAX_SLOTS /\ now \in Nat  BY DEF TypeOK
    <2>. QED  BY <2>1, Zenon DEF TReq, ReqType
  <1>6. p.retry_at = now + RETRY_INTERVAL
    OBVIOUS
  <1>. HIDE DEF p, m
  <1>7. /\ DOMAIN pending \subseteq DOMAIN pending'
        /\ DOMAIN pending' \subseteq DOMAIN pending \cup {<<c, t>>}
        /\ \A y \in DOMAIN pending : y # <<c, t>> => pending'[y] = pending[y]
        /\ pending'[<<c, t>>] = p
    BY <1>4 DEF With
  <1>8. next_tid' = [next_tid EXCEPT ![c] = @ + 1]
    BY <1>1 DEF AllocateTid
  <1>. QED  BY <1>2, <1>3, <1>4, <1>5, <1>6, <1>7, <1>8, OnceNewTid

\* send_alo keeps the invariant.
LEMMA OnceSendAlo ==
    ASSUME TypeOK, ExactlyOnceInv, NEW c \in Clients, SendAlo(c)
    PROVE  ExactlyOnceInv'
  <1>. USE ConstantsAssumption
  <1>1. AllocateTid(c)
    BY DEF SendAlo
  <1>2. PICK t \in Tids : t = next_tid[c]
    BY <1>1 DEF AllocateTid, TypeOK, Tids
  <1>3. UNCHANGED <<now, pending, reply_cache, in_progress, requests, serving,
                    delivered, dropped, evicted>>
    BY DEF SendAlo, serverVars, history
  <1>. DEFINE m == TReq(t, FALSE, MAX_SLOTS)
  <1>4. c2s' = [c2s EXCEPT ![c] = Append(@, m)]
    BY <1>2 DEF SendAlo
  <1>5. m \in ReqType /\ m.tid = t /\ m.sent = now
    <2>1. MAX_SLOTS \in 0..MAX_SLOTS /\ now \in Nat  BY DEF TypeOK
    <2>. QED  BY <2>1, Zenon DEF TReq, ReqType
  <1>. HIDE DEF m
  <1>6. <<c, t>> \notin DOMAIN pending
    BY <1>2, NextTidFresh DEF ExactlyOnceInv
  <1>7. next_tid' = [next_tid EXCEPT ![c] = @ + 1]
    BY <1>1 DEF AllocateTid
  <1>. QED  BY <1>2, <1>3, <1>4, <1>5, <1>6, <1>7, OnceNewTid

\* Every packet handled by the responder keeps the invariant.
LEMMA OnceServerReceive ==
    ASSUME TypeOK, ExactlyOnceInv, NEW c \in Clients, ServerReceive(c)
    PROVE  ExactlyOnceInv'
  <1>1. /\ c2s[c] # <<>> /\ c2s' = [c2s EXCEPT ![c] = Tail(@)]
        /\ UNCHANGED <<now, next_tid, pending, serving>>
    BY DEF ServerReceive, clientVars
  <1>2. PICK m \in ReqType \cup RelType : m = Head(c2s[c])
    BY <1>1, ChannelType DEF TypeOK
  <1>3. CASE m.type = "TRel" /\ HandleRelease(c, m)
    BY <1>2, <1>3, OnceHandleRelease
  <1>4. CASE m.type = "TReq" /\ HandleRequest(c, m)
    <2>1. m \in ReqType
      BY <1>4 DEF RelType
    <2>2. PICK t \in Tids : t = m.tid
      BY <2>1 DEF ReqType
    <2>3. CASE UNCHANGED <<reply_cache, in_progress, requests, delivered, dropped, evicted>>
      BY <1>1, <2>3, OnceSeenAgain
    <2>4. CASE /\ Cached(<<c, t>>) = {}
               /\ ~(m.xo /\ <<c, t>> \in Range(in_progress))
               /\ IF m.xo
                  THEN /\ in_progress' = Push(in_progress, <<c, t>>)
                       /\ evicted' = evicted \cup Displaced(in_progress)
                  ELSE UNCHANGED <<in_progress, evicted>>
               /\ SortEvents(<<c, t>>, m)
               /\ UNCHANGED <<s2c, reply_cache>>
      BY <1>1, <1>2, <2>1, <2>2, <2>4, OnceDeliver
    <2>. QED  BY <1>4, <2>2, <2>3, <2>4 DEF HandleRequest
  <1>. QED  BY <1>2, <1>3, <1>4 DEF ServerReceive

\* The invariant holds of new endpoints.
LEMMA OnceInit == Init => ExactlyOnceInv
  <1>. SUFFICES ASSUME Init PROVE ExactlyOnceInv
    OBVIOUS
  <1>1. /\ \A c \in Clients : Len(c2s[c]) = 0
        /\ Len(requests) = 0
        /\ DOMAIN pending = {}
    BY EmptySeq DEF Init
  <1>2. \A x \in Trans : delivered[x] = 0 /\ x \notin dropped
    BY DEF Init
  <1>3. reply_cache = {} /\ serving = {}
    BY DEF Init
  <1>4. \A n \in 1..0 : FALSE
    OBVIOUS
  <1>5. Timely  BY <1>1, <1>4 DEF Timely
  <1>6. Fresh  BY <1>1, <1>2, <1>3, <1>4 DEF Fresh, Accepted
  <1>7. ReleaseLast /\ AloOnce  BY <1>1, <1>4 DEF ReleaseLast, AloOnce
  <1>8. Remembered /\ Outlives /\ Once
    BY <1>2, <1>3 DEF Remembered, Outlives, Once, Accepted
  <1>. QED  BY <1>5, <1>6, <1>7, <1>8 DEF ExactlyOnceInv

\* Every step keeps the invariant.
LEMMA OnceNext == TypeOK /\ ExactlyOnceInv /\ [Next]_vars => ExactlyOnceInv'
  <1>. SUFFICES ASSUME TypeOK, ExactlyOnceInv, [Next]_vars PROVE ExactlyOnceInv'
    OBVIOUS
  <1>1. ASSUME NEW c \in Clients, NEW n \in Bitmaps, Request(c, n) PROVE ExactlyOnceInv'
    BY <1>1, OnceRequest
  <1>2. ASSUME NEW c \in Clients, SendAlo(c) PROVE ExactlyOnceInv'
    BY <1>2, OnceSendAlo
  <1>3. ASSUME NEW x \in Trans, Abandon(x) PROVE ExactlyOnceInv'
    BY <1>3, OnceUnchanged DEF Abandon, serverVars, history
  <1>4. ASSUME NEW c \in Clients, ClientReceive(c) PROVE ExactlyOnceInv'
    BY <1>4, OnceClientReceive
  <1>5. ASSUME NEW x \in Trans, ClientPoll(x) PROVE ExactlyOnceInv'
    BY <1>5, OnceClientPoll
  <1>6. ASSUME NEW c \in Clients, ServerReceive(c) PROVE ExactlyOnceInv'
    BY <1>6, OnceServerReceive
  <1>7. CASE NextRequest
    BY <1>7, OnceNextRequest
  <1>8. ASSUME NEW r \in serving, NEW k \in Answers, Respond(r, k) PROVE ExactlyOnceInv'
    BY <1>8, OnceRespond
  <1>9. CASE ServerPoll
    BY <1>9, OnceServerPoll
  <1>10. ASSUME NEW c \in Clients, LoseToServer(c) PROVE ExactlyOnceInv'
    BY <1>10, OnceLoseToServer
  <1>11. ASSUME NEW c \in Clients, LoseToClient(c) PROVE ExactlyOnceInv'
    BY <1>11, OnceUnchanged DEF LoseToClient, clientVars, serverVars, history
  <1>12. CASE Tick
    BY <1>12, OnceTick
  <1>13. CASE UNCHANGED vars
    BY <1>13, OnceUnchanged DEF vars, clientVars, serverVars, history
  <1>. QED
    BY <1>1, <1>2, <1>3, <1>4, <1>5, <1>6, <1>7, <1>8, <1>9, <1>10, <1>11, <1>12, <1>13
    DEF Next

\* The inductive invariant holds throughout.
LEMMA ExactlyOnceInvariant == Spec => []ExactlyOnceInv
  BY TypeCorrect, OnceInit, OnceNext, PTL DEF Spec

\* For any number of clients, any timing the assumptions allow and any capacity, the
\* application sees a transaction twice only if the responder had evicted it.
THEOREM ExactlyOnce == Spec => []AtMostOnceUnlessEvicted
  <1>1. ExactlyOnceInv => AtMostOnceUnlessEvicted
    BY DEF ExactlyOnceInv, Once, AtMostOnceUnlessEvicted
  <1>. QED  BY <1>1, ExactlyOnceInvariant, PTL

\* A request that met a full queue is lost for good: no retransmit brings it back
\* while in_progress remembers it.
THEOREM DroppedForGood == Spec => []DroppedStaysLost
  <1>1. ExactlyOnceInv /\ TypeOK => DroppedStaysLost
    BY DEF ExactlyOnceInv, Once, DroppedStaysLost, TypeOK
  <1>. QED  BY <1>1, ExactlyOnceInvariant, TypeCorrect, PTL

-----------------------------------------------------------------------------
(* What the callers of request() see *)

\* The answers of the application fit the bitmaps they are asked with, since the splitter
\* cuts them or since they are short.  AtpEndpoint::respond does neither.
AnswersFit == RESPECT_BITMAP \/ \A n \in Bitmaps, k \in Answers : k <= MaxPackets(n)

\* What is on the cable, and in the queue of the embedded socket.
Sent(d)     == {c2s[d][i] : i \in 1..Len(c2s[d])}
Arriving(d) == {s2c[d][i] : i \in 1..Len(s2c[d])}
Queued      == {requests[i] : i \in 1..Len(requests)}

\* A request carries the bitmap that its sender goes by.
SameBitmap(x, xo, n) == xo /\ x \in DOMAIN pending => n = pending[x].bitmap

Asked ==
    /\ \A d \in Clients : \A m \in Sent(d) : m.type = "TReq" => SameBitmap(<<d, m.tid>>, m.xo, m.bitmap)
    /\ \A r \in Queued \cup serving : SameBitmap(r.trans, r.xo, r.bitmap)
    /\ \A r \in serving : r.xo

\* A packet before the last of its answer leaves a bit of the bitmap for the last.
Early(i, n) == n = 0 \/ i + 1 < n

\* A packet of the one answer to x.
PartOf(x, p) ==
    /\ Len(answered[x]) = 1 /\ p.ans = 1
    /\ p.seq < answered[x][1]
    /\ p.eom <=> p.seq + 1 = answered[x][1]

GoodPart(x, p) ==
    /\ Accepted(x)
    /\ x \in DOMAIN pending => p.eom \/ Early(p.seq, pending[x].bitmap)
    /\ x \notin evicted => PartOf(x, p)

Carried ==
    /\ \A d \in Clients : \A m \in Arriving(d) : GoodPart(<<d, m.tid>>, m)
    /\ \A e \in reply_cache : \A i \in 1..Len(e.packets) : GoodPart(e.trans, e.packets[i])

\* The slots filled so far: without the last packet they are never as many as bits were
\* requested, and they are of one answer.
GoodSlots(x, p) ==
    /\ p.bitmap \in Bitmaps
    /\ p.eom_seq = -1 => \A i \in Filled(p) : Early(i, p.bitmap)
    /\ x \notin evicted =>
          /\ \A i \in Filled(p) : Len(answered[x]) = 1 /\ p.received[i] = 1 /\ i < answered[x][1]
          /\ p.eom_seq # -1 => Len(answered[x]) = 1 /\ p.eom_seq + 1 = answered[x][1]

Assembling == \A x \in DOMAIN pending : GoodSlots(x, pending[x])

\* A request the responder has not evicted is in one place at a time and answered once.
Unanswered(x) == delivered[x] > 0 /\ answered[x] = <<>>

AnsweredOnce ==
    /\ \A x \in Trans \ evicted : Len(answered[x]) <= 1 /\ (answered[x] # <<>> => delivered[x] > 0)
    /\ \A i \in 1..Len(requests) : requests[i].trans \notin evicted =>
          /\ Unanswered(requests[i].trans)
          /\ \A j \in 1..Len(requests) : requests[j].trans = requests[i].trans => i = j
          /\ \A s \in serving : s.trans # requests[i].trans
    /\ \A r \in serving : r.trans \notin evicted =>
          /\ Unanswered(r.trans)
          /\ \A s \in serving : s.trans = r.trans => s = r

OutcomesInv == Asked /\ Carried /\ Assembling /\ AnsweredOnce /\ OutcomesRight


-----------------------------------------------------------------------------
\* What a step keeps of a transaction it does not begin: the bitmap, the answer, the memory.
Keeps(x) ==
    /\ x \in DOMAIN pending' => x \in DOMAIN pending /\ pending'[x].bitmap = pending[x].bitmap
    /\ x \notin evicted' => x \notin evicted /\ (Len(answered[x]) = 1 => answered'[x] = answered[x])
    /\ Accepted(x) => Accepted(x)'

Steady == \A x \in Trans : x[2] < next_tid[x[1]] => Keeps(x)

\* A channel that lost its head holds nothing new.
LEMMA SentTail ==
    ASSUME TypeOK, NEW c \in Clients, c2s[c] # <<>>, c2s' = [c2s EXCEPT ![c] = Tail(@)]
    PROVE  Head(c2s[c]) \in Sent(c) /\ \A d \in Clients : Sent(d)' \subseteq Sent(d)
  <1>1. c2s \in [Clients -> Seq(ReqType \cup RelType)]  BY DEF TypeOK
  <1>2. ASSUME NEW d \in Clients
        PROVE  /\ Len(c2s[d]) \in Nat /\ Len(c2s'[d]) \in Nat
               /\ 1 \in 1..Len(c2s[c]) /\ c2s[c][1] = Head(c2s[c])
               /\ d # c => c2s'[d] = c2s[d]
               /\ \A i \in 1..Len(c2s'[c]) : i + 1 \in 1..Len(c2s[c]) /\ c2s'[c][i] = c2s[c][i + 1]
    BY <1>1, TailMsg
  <1>3. ASSUME NEW d \in Clients PROVE Sent(d)' \subseteq Sent(d)
    BY <1>2 DEF Sent
  <1>. QED  BY <1>2, <1>3 DEF Sent

LEMMA ArrivingTail ==
    ASSUME TypeOK, NEW c \in Clients, s2c[c] # <<>>, s2c' = [s2c EXCEPT ![c] = Tail(@)]
    PROVE  Head(s2c[c]) \in Arriving(c) /\ \A d \in Clients : Arriving(d)' \subseteq Arriving(d)
  <1>1. s2c \in [Clients -> Seq(RespType)]  BY DEF TypeOK
  <1>2. ASSUME NEW d \in Clients
        PROVE  /\ Len(s2c[d]) \in Nat /\ Len(s2c'[d]) \in Nat
               /\ 1 \in 1..Len(s2c[c]) /\ s2c[c][1] = Head(s2c[c])
               /\ d # c => s2c'[d] = s2c[d]
               /\ \A i \in 1..Len(s2c'[c]) : i + 1 \in 1..Len(s2c[c]) /\ s2c'[c][i] = s2c[c][i + 1]
    BY <1>1, TailMsg
  <1>3. ASSUME NEW d \in Clients PROVE Arriving(d)' \subseteq Arriving(d)
    BY <1>2 DEF Arriving
  <1>. QED  BY <1>2, <1>3 DEF Arriving

\* One more message sent by c.
LEMMA SentAppend ==
    ASSUME TypeOK, NEW c \in Clients, NEW m \in ReqType \cup RelType,
           c2s' = [c2s EXCEPT ![c] = Append(@, m)]
    PROVE  \A d \in Clients : \A w \in Sent(d)' : w \in Sent(d) \/ (d = c /\ w = m)
  <1>1. c2s \in [Clients -> Seq(ReqType \cup RelType)]  BY DEF TypeOK
  <1>2. ASSUME NEW d \in Clients, NEW i \in 1..Len(c2s'[d])
        PROVE  \/ i \in 1..Len(c2s[d]) /\ c2s'[d][i] = c2s[d][i]
               \/ d = c /\ i = Len(c2s[c]) + 1 /\ c2s'[d][i] = m
    BY <1>1, AppendMsg
  <1>3. ASSUME NEW d \in Clients, NEW w \in Sent(d)' PROVE w \in Sent(d) \/ (d = c /\ w = m)
    <2>1. PICK i \in 1..Len(c2s'[d]) : w = c2s'[d][i]  BY DEF Sent
    <2>2. CASE i \in 1..Len(c2s[d]) /\ c2s'[d][i] = c2s[d][i]
      <3>1. w = c2s[d][i]  BY <2>1, <2>2
      <3>. QED  BY <2>2, <3>1, Zenon DEF Sent
    <2>3. CASE d = c /\ c2s'[d][i] = m
      BY <2>1, <2>3
    <2>. QED  BY <1>2, <2>2, <2>3
  <1>. QED  BY <1>3

\* The packets of an answer put on the cable to c.
LEMMA ArrivingTransmit ==
    ASSUME TypeOK, NEW c \in Clients, NEW t \in Tids, NEW ps \in Seq(PacketType), Transmit(c, t, ps),
           NEW d \in Clients, NEW w \in Arriving(d)'
    PROVE  w \in Arriving(d) \/ (d = c /\ \E j \in 1..Len(ps) : w = TResp(t, ps[j]))
  <1>. DEFINE q == [j \in 1..Len(ps) |-> TResp(t, ps[j])]
  <1>0. ASSUME NEW p \in PacketType PROVE TResp(t, p) \in RespType
    <2>1. p.seq \in Slots /\ p.eom \in BOOLEAN /\ p.ans \in Nat  BY DEF PacketType
    <2>2. now \in Nat  BY DEF TypeOK
    <2>. QED  BY <2>1, <2>2, Zenon DEF TResp, RespType
  <1>1. \A j \in 1..Len(ps) : TResp(t, ps[j]) \in RespType  BY <1>0
  <1>2. q \in Seq(RespType) /\ Len(q) = Len(ps)  BY <1>1
  <1>3. s2c' = [s2c EXCEPT ![c] = @ \o q]
    <2>1. DOMAIN ps = 1..Len(ps)  OBVIOUS
    <2>. QED  BY <2>1, Zenon DEF Transmit
  <1>4. s2c \in [Clients -> Seq(RespType)]  BY DEF TypeOK
  <1>5. PICK i \in 1..Len(s2c'[d]) : w = s2c'[d][i]  BY DEF Arriving
  <1>6. CASE d # c
    BY <1>3, <1>4, <1>5, <1>6 DEF Arriving
  <1>7. CASE d = c
    <2>0. PICK a \in Seq(RespType) : a = s2c[c]  BY <1>4
    <2>1. s2c'[c] = a \o q  BY <1>3, <1>4, <2>0
    <2>2. \A j \in 1..Len(q) : q[j] = TResp(t, ps[j])  BY <1>2
    <2>. HIDE DEF q
    <2>3. /\ Len(a \o q) = Len(a) + Len(q)
          /\ \A j \in 1..Len(a) : (a \o q)[j] = a[j]
          /\ \A j \in 1..Len(q) : (a \o q)[Len(a) + j] = q[j]
      <3>0. PICK S, b : S = RespType /\ b = q  OBVIOUS
      <3>1. a \in Seq(S) /\ b \in Seq(S)  BY <1>2, <2>0, <3>0
      <3>2. /\ Len(a \o b) = Len(a) + Len(b)
            /\ \A j \in 1..(Len(a) + Len(b)) : (a \o b)[j] = IF j <= Len(a) THEN a[j] ELSE b[j - Len(a)]
        BY <3>1, ConcatProperties
      <3>3. Len(a) \in Nat /\ Len(b) \in Nat  BY <3>1
      <3>4. /\ Len(a \o b) = Len(a) + Len(b)
            /\ \A j \in 1..Len(a) : (a \o b)[j] = a[j]
            /\ \A j \in 1..Len(b) : (a \o b)[Len(a) + j] = b[j]
        BY <3>2, <3>3
      <3>. QED  BY <3>0, <3>4
    <2>4. CASE i <= Len(a)
      BY <1>5, <1>7, <2>0, <2>1, <2>3, <2>4, i \in 1..Len(a) DEF Arriving
    <2>5. CASE i > Len(a)
      <3>1. PICK j \in 1..Len(q) : i = Len(a) + j
        <4>1. i \in Nat /\ i <= Len(a) + Len(q) /\ Len(a) \in Nat /\ Len(q) \in Nat
          BY <1>2, <1>5, <1>7, <2>0, <2>1, <2>3, LenProperties
        <4>2. i - Len(a) \in 1..Len(q) /\ i = Len(a) + (i - Len(a))  BY <4>1, <2>5
        <4>. QED  BY <4>2
      <3>. QED  BY <1>2, <1>5, <1>7, <2>1, <2>2, <2>3, <3>1
    <2>6. Len(a) \in Nat /\ i \in Nat  BY <2>0
    <2>. QED  BY <2>4, <2>5, <2>6
  <1>. QED  BY <1>6, <1>7

\* What was said of a packet stays true of it.
LEMMA PartKept ==
    ASSUME TypeOK, Fresh, Steady, NEW x \in Trans, NEW p, GoodPart(x, p)
    PROVE  GoodPart(x, p)'
  <1>1. Accepted(x)  BY DEF GoodPart
  <1>2. Keeps(x)  BY <1>1 DEF Fresh, Steady
  <1>3. Accepted(x)'  BY <1>1, <1>2 DEF Keeps
  <1>4. x \in DOMAIN pending' => p.eom \/ Early(p.seq, pending'[x].bitmap)
    BY <1>2 DEF Keeps, GoodPart
  <1>5. x \notin evicted' => PartOf(x, p)'
    BY <1>2 DEF Keeps, GoodPart, PartOf
  <1>. QED  BY <1>3, <1>4, <1>5 DEF GoodPart, Early

\* Nor does a step that adds only good packets spoil the ones on their way.
LEMMA CarriedKept ==
    ASSUME TypeOK, Fresh, Carried, Steady,
           \A d \in Clients : \A m \in Arriving(d)' : m \in Arriving(d) \/ GoodPart(<<d, m.tid>>, m)',
           \A e \in reply_cache' :
              e \in reply_cache \/ \A i \in 1..Len(e.packets) : GoodPart(e.trans, e.packets[i])'
    PROVE  Carried'
  <1>1. ASSUME NEW d \in Clients, NEW m \in Arriving(d)' PROVE GoodPart(<<d, m.tid>>, m)'
    <2>1. CASE m \in Arriving(d)
      <3>1. PICK t : t = m.tid  OBVIOUS
      <3>2. s2c[d] \in Seq(RespType)  BY DEF TypeOK
      <3>3. m \in RespType  BY <2>1, <3>2 DEF Arriving
      <3>4. <<d, t>> \in Trans /\ GoodPart(<<d, t>>, m)
        BY <2>1, <3>1, <3>3 DEF RespType, Trans, Carried
      <3>. QED  BY <3>1, <3>4, PartKept
    <2>. QED  BY <2>1
  <1>2. ASSUME NEW e \in reply_cache', NEW i \in 1..Len(e.packets) PROVE GoodPart(e.trans, e.packets[i])'
    <2>1. CASE e \in reply_cache
      <3>1. PICK x, p : x = e.trans /\ p = e.packets[i]  OBVIOUS
      <3>2. x \in Trans /\ GoodPart(x, p)  BY <2>1, <3>1 DEF TypeOK, CacheType, Carried
      <3>. QED  BY <3>1, <3>2, PartKept
    <2>. QED  BY <2>1
  <1>. QED  BY <1>1, <1>2 DEF Carried

\* A request keeps asking with the bitmap its sender goes by.
LEMMA BitmapKept ==
    ASSUME NEW x \in Trans, NEW xo, NEW n, Keeps(x), SameBitmap(x, xo, n)
    PROVE  SameBitmap(x, xo, n)'
  BY DEF Keeps, SameBitmap

\* The same for every request on its way, queued or being served.
LEMMA AskedKept ==
    ASSUME TypeOK, Fresh, Asked, Steady,
           \A d \in Clients : \A m \in Sent(d)' :
              m \in Sent(d) \/ (m.type = "TReq" => SameBitmap(<<d, m.tid>>, m.xo, m.bitmap)'),
           \A r \in (Queued \cup serving)' :
              r \in Queued \cup serving \/ SameBitmap(r.trans, r.xo, r.bitmap)',
           \A r \in serving' : r \in serving \/ r.xo
    PROVE  Asked'
  <1>1. ASSUME NEW d \in Clients, NEW m \in Sent(d), m.type = "TReq"
        PROVE  SameBitmap(<<d, m.tid>>, m.xo, m.bitmap)'
    <2>1. PICK i \in 1..Len(c2s[d]) : m = c2s[d][i]  BY DEF Sent
    <2>2. PICK t, xo, n : t = m.tid /\ xo = m.xo /\ n = m.bitmap  OBVIOUS
    <2>3. t < next_tid[d]  BY <2>1, <2>2 DEF Fresh
    <2>4. c2s[d] \in Seq(ReqType \cup RelType)  BY DEF TypeOK
    <2>5. t \in Tids  BY <2>1, <2>2, <2>4 DEF ReqType, RelType
    <2>6. PICK x : x = <<d, t>>  OBVIOUS
    <2>7. x \in Trans /\ x[1] = d /\ x[2] = t  BY <2>5, <2>6 DEF Trans
    <2>8. Keeps(x)  BY <2>3, <2>7 DEF Steady
    <2>9. SameBitmap(x, xo, n)  BY <1>1, <2>2, <2>6 DEF Asked
    <2>10. SameBitmap(x, xo, n)'  BY <2>7, <2>8, <2>9, BitmapKept
    <2>. QED  BY <2>2, <2>6, <2>10
  <1>2. ASSUME NEW r \in Queued \cup serving PROVE SameBitmap(r.trans, r.xo, r.bitmap)'
    <2>1. PICK x, xo, n : x = r.trans /\ xo = r.xo /\ n = r.bitmap  OBVIOUS
    <2>2. r \in InboundType /\ Accepted(x)
      <3>1. requests \in Seq(InboundType) /\ serving \subseteq InboundType  BY DEF TypeOK
      <3>2. CASE r \in serving  BY <2>1, <3>1, <3>2 DEF Fresh
      <3>3. CASE r \in Queued
        <4>1. PICK i \in 1..Len(requests) : r = requests[i]  BY <3>3 DEF Queued
        <4>. QED  BY <2>1, <3>1, <4>1 DEF Fresh
      <3>. QED  BY <3>2, <3>3
    <2>3. x \in Trans  BY <2>1, <2>2 DEF InboundType
    <2>4. Keeps(x)  BY <2>2, <2>3 DEF Steady, Fresh
    <2>5. SameBitmap(x, xo, n)  BY <2>1 DEF Asked
    <2>6. SameBitmap(x, xo, n)'  BY <2>3, <2>4, <2>5, BitmapKept
    <2>. QED  BY <2>1, <2>6
  <1>3. \A r \in serving' : r.xo  BY DEF Asked
  <1>. QED  BY <1>1, <1>2, <1>3 DEF Asked

\* Slots nothing was stored in.
LEMMA SlotsKept ==
    ASSUME NEW x \in DOMAIN pending, x \in DOMAIN pending', Keeps(x), GoodSlots(x, pending[x]),
           pending'[x].received = pending[x].received, pending'[x].eom_seq = pending[x].eom_seq
    PROVE  GoodSlots(x, pending[x])'
  <1>1. PICK F : F = Filled(pending[x])  OBVIOUS
  <1>2. Filled(pending'[x]) = F  BY <1>1 DEF Filled
  <1>3. pending'[x].bitmap = pending[x].bitmap /\ pending[x].bitmap \in Bitmaps  BY DEF Keeps, GoodSlots
  <1>4. pending'[x].eom_seq = -1 => \A i \in F : Early(i, pending'[x].bitmap)
    BY <1>1, <1>3 DEF GoodSlots
  <1>5. ASSUME x \notin evicted'
        PROVE  /\ \A i \in F : Len(answered'[x]) = 1 /\ pending'[x].received[i] = 1 /\ i < answered'[x][1]
               /\ pending'[x].eom_seq # -1 => Len(answered'[x]) = 1 /\ pending'[x].eom_seq + 1 = answered'[x][1]
    BY <1>1, <1>5 DEF Keeps, GoodSlots
  <1>. QED  BY <1>2, <1>3, <1>4, <1>5 DEF GoodSlots, Early

\* A step that leaves the answers alone keeps what was answered.
LEMMA AnsweredKept ==
    ASSUME TypeOK, AnsweredOnce, UNCHANGED <<requests, serving, answered, delivered, evicted>>
    PROVE  AnsweredOnce'
  BY DEF AnsweredOnce, Unanswered

\* A step that leaves the histories and the pending table alone keeps every claim.
LEMMA SteadyUnchanged ==
    ASSUME UNCHANGED <<delivered, dropped, evicted, answered>>,
           \A x \in DOMAIN pending' : x \in DOMAIN pending /\ pending'[x].bitmap = pending[x].bitmap
    PROVE  Steady
  BY DEF Steady, Keeps, Accepted


-----------------------------------------------------------------------------
\* The steps that touch neither the queues of the responder nor the outcomes.
LEMMA OutcomesQuiet ==
    ASSUME TypeOK, ExactlyOnceInv, OutcomesInv,
           UNCHANGED <<next_tid, pending, outcome, requests, serving, delivered, dropped, evicted, answered>>,
           \A d \in Clients : Sent(d)' \subseteq Sent(d) /\ Arriving(d)' \subseteq Arriving(d),
           reply_cache' \subseteq reply_cache
    PROVE  OutcomesInv'
  <1>1. Steady  BY SteadyUnchanged
  <1>2. Asked'
    <2>1. Queued' = Queued  BY DEF Queued
    <2>. QED  BY <1>1, <2>1, AskedKept DEF OutcomesInv, ExactlyOnceInv
  <1>3. Carried'  BY <1>1, CarriedKept DEF OutcomesInv, ExactlyOnceInv
  <1>4. Assembling'
    BY DEF OutcomesInv, Assembling, GoodSlots, Filled
  <1>5. AnsweredOnce'  BY AnsweredKept DEF OutcomesInv
  <1>6. OutcomesRight'
    BY DEF OutcomesInv, OutcomesRight, ResponseWhole, WaiterHasRequest
  <1>. QED  BY <1>2, <1>3, <1>4, <1>5, <1>6 DEF OutcomesInv

\* Losses, the clock, the eviction of replies and stuttering.
LEMMA OutcomesCable ==
    ASSUME TypeOK, ExactlyOnceInv, OutcomesInv,
           \/ \E c \in Clients : LoseToServer(c) \/ LoseToClient(c)
           \/ Tick \/ ServerPoll \/ UNCHANGED vars
    PROVE  OutcomesInv'
  <1>1. ASSUME NEW c \in Clients, LoseToServer(c) PROVE OutcomesInv'
    <2>1. \A d \in Clients : Sent(d)' \subseteq Sent(d)  BY <1>1, SentTail DEF LoseToServer
    <2>2. \A d \in Clients : Arriving(d)' \subseteq Arriving(d)  BY <1>1 DEF LoseToServer, Arriving
    <2>. QED  BY <1>1, <2>1, <2>2, OutcomesQuiet DEF LoseToServer, clientVars, serverVars, history
  <1>2. ASSUME NEW c \in Clients, LoseToClient(c) PROVE OutcomesInv'
    <2>1. \A d \in Clients : Arriving(d)' \subseteq Arriving(d)  BY <1>2, ArrivingTail DEF LoseToClient
    <2>2. \A d \in Clients : Sent(d)' \subseteq Sent(d)  BY <1>2 DEF LoseToClient, Sent
    <2>. QED  BY <1>2, <2>1, <2>2, OutcomesQuiet DEF LoseToClient, clientVars, serverVars, history
  <1>3. CASE Tick \/ ServerPoll \/ UNCHANGED vars
    <2>1. UNCHANGED <<next_tid, pending, outcome, requests, serving, delivered, dropped, evicted, answered, c2s, s2c>>
      BY <1>3 DEF Tick, ServerPoll, vars, clientVars, serverVars, history
    <2>2. reply_cache' \subseteq reply_cache
      BY <1>3 DEF Tick, ServerPoll, vars, serverVars
    <2>3. \A d \in Clients : Sent(d)' \subseteq Sent(d) /\ Arriving(d)' \subseteq Arriving(d)
      BY <2>1 DEF Sent, Arriving
    <2>. QED  BY <2>1, <2>2, <2>3, OutcomesQuiet
  <1>. QED  BY <1>1, <1>2, <1>3

\* A future that is dropped has no claim to an answer.
LEMMA OutcomesAbandon ==
    ASSUME TypeOK, ExactlyOnceInv, OutcomesInv, NEW x \in Trans, Abandon(x)
    PROVE  OutcomesInv'
  <1>1. /\ outcome' = [outcome EXCEPT ![x] = NoOutcome("abandoned")]
        /\ UNCHANGED <<now, next_tid, pending, reply_cache, in_progress, requests, serving, c2s, s2c,
                       delivered, dropped, evicted, answered>>
    BY DEF Abandon, serverVars, history
  <1>2. Asked' /\ Carried' /\ Assembling' /\ AnsweredOnce'
    BY <1>1 DEF OutcomesInv, Asked, SameBitmap, Sent, Queued, Carried, GoodPart, PartOf, Arriving, Accepted, Early,
                Assembling, GoodSlots, Filled, AnsweredOnce, Unanswered
  <1>3. OutcomesRight'
    <2>1. \A y \in Trans : outcome'[y] = IF y = x THEN NoOutcome("abandoned") ELSE outcome[y]
      BY <1>1 DEF TypeOK
    <2>. QED  BY <1>1, <2>1 DEF OutcomesInv, OutcomesRight, ResponseWhole, WaiterHasRequest, NoOutcome
  <1>. QED  BY <1>2, <1>3 DEF OutcomesInv

\* A new request: its tid is on no packet, so its slots are empty and its bitmap its own.
LEMMA OutcomesRequest ==
    ASSUME TypeOK, ExactlyOnceInv, OutcomesInv, NEW c \in Clients, NEW n \in Bitmaps, Request(c, n)
    PROVE  OutcomesInv'
  <1>. USE ConstantsAssumption
  <1>0. PICK t, x : t = next_tid[c] /\ x = <<c, t>>  OBVIOUS
  <1>1. t \in Tids /\ x \in Trans /\ x[1] = c /\ x[2] = t
    BY <1>0 DEF Request, AllocateTid, TypeOK, Tids, Trans
  <1>2. x \notin DOMAIN pending /\ ~Accepted(x)
    BY <1>0, <1>1, NextTidFresh DEF ExactlyOnceInv
  <1>3. PICK p : /\ p = [bitmap |-> n, received |-> [i \in Slots |-> 0], eom_seq |-> -1,
                         retries |-> 0, retry_at |-> now + RETRY_INTERVAL]
                 /\ pending' = With(pending, x, p)
    BY <1>0 DEF Request
  <1>4. /\ DOMAIN pending' = DOMAIN pending \cup {x} /\ pending'[x] = p
        /\ \A y \in DOMAIN pending : pending'[y] = pending[y]
    BY <1>2, <1>3 DEF With
  <1>5. PICK m : m = TReq(t, TRUE, n) /\ c2s' = [c2s EXCEPT ![c] = Append(@, m)]
    BY <1>0 DEF Request
  <1>6. m.type = "TReq" /\ m.tid = t /\ m.xo = TRUE /\ m.bitmap = n /\ m \in ReqType
    <2>1. n \in 0..MAX_SLOTS /\ now \in Nat  BY DEF TypeOK
    <2>2. m \in ReqType  BY <1>1, <1>5, <2>1, Zenon DEF TReq, ReqType
    <2>. QED  BY <1>5, <2>2 DEF TReq
  <1>7. UNCHANGED <<now, reply_cache, in_progress, requests, serving, s2c, delivered, dropped, evicted, answered>>
    BY DEF Request, serverVars, history
  <1>8. Steady
    <2>. SUFFICES ASSUME NEW y \in Trans, y[2] < next_tid[y[1]] PROVE Keeps(y)
      BY DEF Steady
    <2>1. y # x  BY <1>0, <1>1 DEF TypeOK
    <2>. QED  BY <1>4, <1>7, <2>1 DEF Keeps, Accepted
  <1>9. Asked'
    <2>1. \A d \in Clients : \A w \in Sent(d)' : w \in Sent(d) \/ (d = c /\ w = m)
      <3>1. m \in ReqType \cup RelType  BY <1>6
      <3>. QED  BY <1>5, <3>1, SentAppend
    <2>2. SameBitmap(x, m.xo, m.bitmap)'  BY <1>3, <1>4, <1>6 DEF SameBitmap
    <2>3. Queued' = Queued  BY <1>7 DEF Queued
    <2>. QED  BY <1>0, <1>6, <1>7, <1>8, <2>1, <2>2, <2>3, AskedKept DEF OutcomesInv, ExactlyOnceInv
  <1>10. Carried'
    <2>1. \A d \in Clients : Arriving(d)' = Arriving(d)  BY <1>7 DEF Arriving
    <2>. QED  BY <1>7, <1>8, <2>1, CarriedKept DEF OutcomesInv, ExactlyOnceInv
  <1>11. Assembling'
    <2>. SUFFICES ASSUME NEW y \in DOMAIN pending' PROVE GoodSlots(y, pending[y])'
      BY DEF Assembling
    <2>1. CASE y = x
      <3>1. p.eom_seq = -1 /\ Filled(p) = {}  BY <1>3 DEF Filled
      <3>2. p.bitmap = n /\ n \in Bitmaps  BY <1>3
      <3>. QED  BY <1>4, <2>1, <3>1, <3>2 DEF GoodSlots
    <2>2. CASE y # x
      <3>1. y \in DOMAIN pending /\ pending'[y] = pending[y]  BY <1>4, <2>2
      <3>2. y \in Trans /\ y[2] < next_tid[y[1]]  BY <3>1 DEF TypeOK, ExactlyOnceInv, Fresh
      <3>3. Keeps(y) /\ GoodSlots(y, pending[y])  BY <1>8, <3>1, <3>2 DEF Steady, OutcomesInv, Assembling
      <3>. QED  BY <3>1, <3>3, SlotsKept
    <2>. QED  BY <2>1, <2>2
  <1>12. AnsweredOnce'  BY <1>7, AnsweredKept DEF OutcomesInv
  <1>13. OutcomesRight'
    <2>1. outcome' = [outcome EXCEPT ![x] = NoOutcome("waiting")]  BY <1>0 DEF Request
    <2>2. \A y \in Trans : outcome'[y] = IF y = x THEN NoOutcome("waiting") ELSE outcome[y]
      BY <2>1 DEF TypeOK
    <2>. QED  BY <1>4, <1>7, <2>2 DEF OutcomesInv, OutcomesRight, ResponseWhole, WaiterHasRequest, NoOutcome
  <1>. QED  BY <1>9, <1>10, <1>11, <1>12, <1>13 DEF OutcomesInv

\* An at-least-once packet is never waited for.
LEMMA OutcomesSendAlo ==
    ASSUME TypeOK, ExactlyOnceInv, OutcomesInv, NEW c \in Clients, SendAlo(c)
    PROVE  OutcomesInv'
  <1>. USE ConstantsAssumption
  <1>1. PICK t : t = next_tid[c]  OBVIOUS
  <1>2. t \in Tids  BY <1>1 DEF SendAlo, AllocateTid, TypeOK, Tids
  <1>3. PICK m : m = TReq(t, FALSE, MAX_SLOTS) /\ c2s' = [c2s EXCEPT ![c] = Append(@, m)]
    BY <1>1 DEF SendAlo
  <1>4. m.xo = FALSE /\ m \in ReqType
    <2>1. MAX_SLOTS \in 0..MAX_SLOTS /\ now \in Nat  BY DEF TypeOK
    <2>2. m \in ReqType  BY <1>2, <1>3, <2>1, Zenon DEF TReq, ReqType
    <2>. QED  BY <1>3, <2>2 DEF TReq
  <1>5. UNCHANGED <<pending, outcome, reply_cache, requests, serving, s2c, delivered, dropped, evicted, answered>>
    BY DEF SendAlo, serverVars, history
  <1>6. Steady  BY <1>5, SteadyUnchanged
  <1>7. Asked'
    <2>1. \A d \in Clients : \A w \in Sent(d)' : w \in Sent(d) \/ (d = c /\ w = m)
      BY <1>3, <1>4, SentAppend
    <2>2. \A x : SameBitmap(x, m.xo, m.bitmap)'  BY <1>4 DEF SameBitmap
    <2>3. Queued' = Queued  BY <1>5 DEF Queued
    <2>. QED  BY <1>5, <1>6, <2>1, <2>2, <2>3, AskedKept DEF OutcomesInv, ExactlyOnceInv
  <1>8. Carried'
    <2>1. \A d \in Clients : Arriving(d)' = Arriving(d)  BY <1>5 DEF Arriving
    <2>. QED  BY <1>5, <1>6, <2>1, CarriedKept DEF OutcomesInv, ExactlyOnceInv
  <1>9. Assembling' /\ AnsweredOnce' /\ OutcomesRight'
    BY <1>5 DEF OutcomesInv, Assembling, GoodSlots, Filled, Early, AnsweredOnce, Unanswered,
                OutcomesRight, ResponseWhole, WaiterHasRequest
  <1>. QED  BY <1>7, <1>8, <1>9 DEF OutcomesInv

\* A retransmission asks again with the same bitmap; a request that gives up takes its
\* caller with it.
LEMMA OutcomesClientPoll ==
    ASSUME TypeOK, ExactlyOnceInv, OutcomesInv, NEW x \in Trans, ClientPoll(x)
    PROVE  OutcomesInv'
  <1>. USE ConstantsAssumption
  <1>0. x[1] \in Clients /\ x[2] \in Tids /\ x = <<x[1], x[2]>>  BY DEF Trans
  <1>1. x \in DOMAIN pending /\ pending[x] \in PendingType  BY DEF ClientPoll, TypeOK
  <1>2. PICK p : p = [pending[x] EXCEPT !.retries = @ + 1, !.retry_at = now + RETRY_INTERVAL]  OBVIOUS
  <1>3. p.bitmap = pending[x].bitmap /\ p.received = pending[x].received /\ p.eom_seq = pending[x].eom_seq
    BY <1>1, <1>2 DEF PendingType
  <1>4. UNCHANGED <<next_tid, reply_cache, requests, serving, s2c, delivered, dropped, evicted, answered>>
    BY DEF ClientPoll, serverVars, history
  <1>5. \A d \in Clients : Arriving(d)' = Arriving(d)  BY <1>4 DEF Arriving
  <1>6. Queued' = Queued  BY <1>4 DEF Queued
  <1>7. CASE p.retries > MAX_RETRIES
    <2>1. /\ pending' = Without(pending, x) /\ UNCHANGED c2s
          /\ Resolve(x, NoOutcome("failed"))
      BY <1>2, <1>7 DEF ClientPoll
    <2>2. /\ DOMAIN pending' = DOMAIN pending \ {x}
          /\ \A y \in DOMAIN pending' : y \in DOMAIN pending /\ pending'[y] = pending[y]
      BY <2>1 DEF Without, Restrict
    <2>3. Steady  BY <1>4, <2>2, SteadyUnchanged
    <2>4. Asked'
      <3>1. \A d \in Clients : Sent(d)' = Sent(d)  BY <2>1 DEF Sent
      <3>. QED  BY <1>4, <1>6, <2>3, <3>1, AskedKept DEF OutcomesInv, ExactlyOnceInv
    <2>5. Carried'  BY <1>4, <1>5, <2>3, CarriedKept DEF OutcomesInv, ExactlyOnceInv
    <2>6. Assembling'
      BY <1>4, <2>2 DEF OutcomesInv, Assembling, GoodSlots, Filled, Early
    <2>7. OutcomesRight'
      <3>1. \A y \in Trans : outcome'[y] = IF y = x /\ outcome[y].st = "waiting" THEN NoOutcome("failed") ELSE outcome[y]
        BY <2>1 DEF Resolve, TypeOK
      <3>. QED  BY <1>4, <2>2, <3>1 DEF OutcomesInv, OutcomesRight, ResponseWhole, WaiterHasRequest, NoOutcome
    <2>8. AnsweredOnce'  BY <1>4, AnsweredKept DEF OutcomesInv
    <2>. QED  BY <2>4, <2>5, <2>6, <2>7, <2>8 DEF OutcomesInv
  <1>8. CASE ~(p.retries > MAX_RETRIES)
    <2>1. /\ pending' = [pending EXCEPT ![x] = p]
          /\ c2s' = [c2s EXCEPT ![x[1]] = Append(@, TReq(x[2], TRUE, p.bitmap))]
          /\ UNCHANGED outcome
      BY <1>2, <1>8 DEF ClientPoll
    <2>2. /\ DOMAIN pending' = DOMAIN pending /\ pending'[x] = p
          /\ \A y \in DOMAIN pending : y # x => pending'[y] = pending[y]
      BY <1>1, <2>1
    <2>3. \A y \in DOMAIN pending : /\ pending'[y].bitmap = pending[y].bitmap
                                    /\ pending'[y].received = pending[y].received
                                    /\ pending'[y].eom_seq = pending[y].eom_seq
      BY <1>3, <2>2
    <2>4. Steady  BY <1>4, <2>2, <2>3, SteadyUnchanged
    <2>5. Asked'
      <3>1. PICK m : m = TReq(x[2], TRUE, p.bitmap)  OBVIOUS
      <3>2. m \in ReqType /\ m.tid = x[2] /\ m.bitmap = p.bitmap
        <4>1. p.bitmap \in 0..MAX_SLOTS /\ now \in Nat  BY <1>1, <1>3 DEF PendingType, TypeOK
        <4>2. m \in ReqType  BY <1>0, <3>1, <4>1, Zenon DEF TReq, ReqType
        <4>. QED  BY <3>1, <4>2 DEF TReq
      <3>3. \A d \in Clients : \A w \in Sent(d)' : w \in Sent(d) \/ (d = x[1] /\ w = m)
        BY <1>0, <2>1, <3>1, <3>2, SentAppend
      <3>4. SameBitmap(x, m.xo, m.bitmap)'  BY <2>2, <3>2 DEF SameBitmap
      <3>. QED  BY <1>0, <1>4, <1>6, <2>4, <3>2, <3>3, <3>4, AskedKept DEF OutcomesInv, ExactlyOnceInv
    <2>6. Carried'  BY <1>4, <1>5, <2>4, CarriedKept DEF OutcomesInv, ExactlyOnceInv
    <2>7. Assembling'
      <3>. SUFFICES ASSUME NEW y \in DOMAIN pending' PROVE GoodSlots(y, pending[y])'
        BY DEF Assembling
      <3>1. y \in DOMAIN pending  BY <2>2
      <3>2. y \in Trans /\ y[2] < next_tid[y[1]]  BY <3>1 DEF TypeOK, ExactlyOnceInv, Fresh
      <3>3. Keeps(y) /\ GoodSlots(y, pending[y])  BY <2>4, <3>1, <3>2 DEF Steady, OutcomesInv, Assembling
      <3>. QED  BY <2>3, <3>1, <3>3, SlotsKept
    <2>8. OutcomesRight'
      BY <1>4, <2>1, <2>2 DEF OutcomesInv, OutcomesRight, ResponseWhole, WaiterHasRequest
    <2>9. AnsweredOnce'  BY <1>4, AnsweredKept DEF OutcomesInv
    <2>. QED  BY <2>5, <2>6, <2>7, <2>8, <2>9 DEF OutcomesInv
  <1>. QED  BY <1>7, <1>8


-----------------------------------------------------------------------------
\* A packet stored in its slot.
LEMMA StoreGood ==
    ASSUME TypeOK, NEW x \in DOMAIN pending, NEW q \in PendingType, GoodSlots(x, q),
           q.bitmap = pending[x].bitmap, NEW m \in RespType, GoodPart(x, m), NEW p, p = Store(q, m)
    PROVE  GoodSlots(x, p) /\ p.bitmap = q.bitmap /\ p \in PendingType
  <1>0. /\ q.received \in [Slots -> Nat] /\ q.eom_seq \in Slots \cup {-1} /\ Slots \subseteq Nat
        /\ m.seq \in Slots /\ m.ans \in Nat
    BY ConstantsAssumption DEF PendingType, RespType, Slots
  <1>1. PICK e : e = IF m.eom THEN m.seq ELSE q.eom_seq  OBVIOUS
  <1>2. /\ p.bitmap = q.bitmap /\ p.received = [q.received EXCEPT ![m.seq] = m.ans]
        /\ p.eom_seq = e
    BY <1>1 DEF Store, PendingType
  <1>3. p \in PendingType  BY StoreType
  <1>4. \A i \in Filled(p) : i \in Slots /\ p.received[i] = (IF i = m.seq THEN m.ans ELSE q.received[i]) /\ (i = m.seq \/ i \in Filled(q))
    BY <1>0, <1>2 DEF Filled
  <1>5. e = -1 => ~m.eom /\ q.eom_seq = -1
    BY <1>0, <1>1
  <1>6. p.eom_seq = -1 => \A i \in Filled(p) : Early(i, p.bitmap)
    BY <1>2, <1>4, <1>5 DEF GoodSlots, GoodPart
  <1>7. ASSUME x \notin evicted
        PROVE  /\ \A i \in Filled(p) : Len(answered[x]) = 1 /\ p.received[i] = 1 /\ i < answered[x][1]
               /\ p.eom_seq # -1 => Len(answered[x]) = 1 /\ p.eom_seq + 1 = answered[x][1]
    <2>1. PartOf(x, m)  BY <1>7 DEF GoodPart
    <2>2. ASSUME NEW i \in Filled(p)
          PROVE  Len(answered[x]) = 1 /\ p.received[i] = 1 /\ i < answered[x][1]
      <3>1. CASE i = m.seq  BY <1>4, <2>1, <3>1 DEF PartOf
      <3>2. CASE i # m.seq
        <4>1. i \in Filled(q) /\ p.received[i] = q.received[i]  BY <1>4, <3>2
        <4>. QED  BY <1>7, <4>1 DEF GoodSlots
      <3>. QED  BY <3>1, <3>2
    <2>3. ASSUME p.eom_seq # -1
          PROVE  Len(answered[x]) = 1 /\ p.eom_seq + 1 = answered[x][1]
      <3>1. CASE m.eom  BY <1>1, <1>2, <2>1, <3>1 DEF PartOf
      <3>2. CASE ~m.eom  BY <1>1, <1>2, <1>7, <2>3, <3>2 DEF GoodSlots
      <3>. QED  BY <3>1, <3>2
    <2>. QED  BY <2>2, <2>3
  <1>8. p.bitmap \in Bitmaps  BY <1>2 DEF GoodSlots
  <1>. QED  BY <1>2, <1>3, <1>6, <1>7, <1>8 DEF GoodSlots

\* No request is complete by count: without its last packet a slot of it is empty.
LEMMA CompleteByEom ==
    ASSUME NEW x, NEW p \in PendingType, GoodSlots(x, p), Complete(p)
    PROVE  p.eom_seq # -1 /\ p.eom_seq \in Slots /\ \A i \in 0..p.eom_seq : i \in Filled(p)
  <1>. USE ConstantsAssumption
  <1>1. ASSUME p.eom_seq = -1 PROVE FALSE
    <2>1. PICK F, n : F = Filled(p) /\ n = p.bitmap  OBVIOUS
    <2>2. F # {} /\ Cardinality(F) = n /\ \A i \in F : Early(i, n)
      BY <1>1, <2>1 DEF Complete, GoodSlots
    <2>3. n \in Nat /\ F \subseteq Slots /\ Slots \subseteq Nat
      BY <2>1 DEF PendingType, Filled, Slots
    <2>4. F \subseteq 0..(n - 2) \/ n = 0
      BY <2>2, <2>3 DEF Early
    <2>5. IsFiniteSet(F)
      <3>1. IsFiniteSet(Slots)  BY FS_Interval DEF Slots
      <3>. QED  BY <2>3, <3>1, FS_Subset
    <2>6. CASE n = 0  BY <2>2, <2>5, <2>6, FS_EmptySet
    <2>7. CASE n # 0
      <3>1. PICK k \in Int : k = n - 2  BY <2>3
      <3>2. IsFiniteSet(0..k) /\ Cardinality(0..k) = (IF 0 > k THEN 0 ELSE k - 0 + 1)
        <4>1. 0 \in Int /\ k \in Int  BY <3>1
        <4>. QED  BY <4>1, FS_Interval
      <3>3. F \subseteq 0..k  BY <2>4, <2>7, <3>1
      <3>4. Cardinality(F) <= Cardinality(0..k)  BY <3>2, <3>3, FS_Subset
      <3>. QED  BY <2>2, <2>3, <2>7, <3>1, <3>2, <3>4
    <2>. QED  BY <2>6, <2>7
  <1>. QED  BY <1>1 DEF Complete, PendingType

\* A response that is handed over is the one answer.
LEMMA OutcomesClientReceive ==
    ASSUME TypeOK, ExactlyOnceInv, OutcomesInv, NEW c \in Clients, ClientReceive(c)
    PROVE  OutcomesInv'
  <1>. USE ConstantsAssumption
  <1>1. s2c[c] # <<>> /\ s2c' = [s2c EXCEPT ![c] = Tail(@)]  BY DEF ClientReceive
  <1>2. PICK m, t, x : m = Head(s2c[c]) /\ t = m.tid /\ x = <<c, t>>  OBVIOUS
  <1>3. PICK p : p = Store(pending[x], m)  OBVIOUS
  <1>4. m \in Arriving(c) /\ \A d \in Clients : Arriving(d)' \subseteq Arriving(d)
    BY <1>1, <1>2, ArrivingTail
  <1>5. m \in RespType /\ GoodPart(x, m)
    <2>1. s2c[c] \in Seq(RespType)  BY DEF TypeOK
    <2>. QED  BY <1>2, <1>4, <2>1 DEF Arriving, OutcomesInv, Carried
  <1>6. t \in Tids /\ x \in Trans  BY <1>2, <1>5 DEF RespType, Trans
  <1>7. UNCHANGED <<now, next_tid, reply_cache, in_progress, requests, serving, delivered, dropped, evicted, answered>>
    BY DEF ClientReceive, serverVars, history
  <1>8. Queued' = Queued  BY <1>7 DEF Queued
  <1>9. CASE x \notin DOMAIN pending
    <2>1. UNCHANGED <<pending, outcome, c2s>>  BY <1>2, <1>9 DEF ClientReceive
    <2>2. \A d \in Clients : Sent(d)' \subseteq Sent(d)  BY <2>1 DEF Sent
    <2>. QED  BY <1>4, <1>7, <2>1, <2>2, OutcomesQuiet
  <1>10. CASE x \in DOMAIN pending
    <2>1. pending[x] \in PendingType  BY <1>10 DEF TypeOK
    <2>2. GoodSlots(x, pending[x])  BY <1>10 DEF OutcomesInv, Assembling
    <2>3. GoodSlots(x, p) /\ p.bitmap = pending[x].bitmap /\ p \in PendingType
      BY <1>3, <1>5, <1>10, <2>1, <2>2, StoreGood
    <2>4. CASE ~Complete(p)
      <3>1. pending' = [pending EXCEPT ![x] = p] /\ UNCHANGED <<outcome, c2s>>
        BY <1>2, <1>3, <1>10, <2>4 DEF ClientReceive
      <3>2. /\ DOMAIN pending' = DOMAIN pending /\ pending'[x] = p
            /\ \A y \in DOMAIN pending : y # x => pending'[y] = pending[y]
        BY <1>10, <3>1
      <3>3. Steady  BY <1>7, <2>3, <3>2, SteadyUnchanged
      <3>4. \A d \in Clients : Sent(d)' = Sent(d)  BY <3>1 DEF Sent
      <3>5. Asked'  BY <1>7, <1>8, <3>3, <3>4, AskedKept DEF OutcomesInv, ExactlyOnceInv
      <3>6. Carried'  BY <1>4, <1>7, <3>3, CarriedKept DEF OutcomesInv, ExactlyOnceInv
      <3>7. Assembling'
        <4>. SUFFICES ASSUME NEW y \in DOMAIN pending' PROVE GoodSlots(y, pending[y])'
          BY DEF Assembling
        <4>1. GoodSlots(y, pending'[y])  BY <2>3, <3>2 DEF OutcomesInv, Assembling
        <4>. QED  BY <1>7, <4>1 DEF GoodSlots, Filled, Early
      <3>8. OutcomesRight'  BY <1>7, <3>1, <3>2 DEF OutcomesInv, OutcomesRight, ResponseWhole, WaiterHasRequest
      <3>9. AnsweredOnce'  BY <1>7, AnsweredKept DEF OutcomesInv
      <3>. QED  BY <3>5, <3>6, <3>7, <3>8, <3>9 DEF OutcomesInv
    <2>5. CASE Complete(p)
      <3>1. p.eom_seq # -1 /\ p.eom_seq \in Slots /\ \A i \in 0..p.eom_seq : i \in Filled(p)
        BY <2>3, <2>5, CompleteByEom
      <3>2. PICK n : n = Expected(p)  OBVIOUS
      <3>3. n = p.eom_seq + 1 /\ p.eom_seq \in Nat /\ n \in Nat /\ \A i \in 0..(n - 1) : i \in Filled(p)
        BY <3>1, <3>2 DEF Expected, Slots
      <3>4. Finish(c, t, p)  BY <1>2, <1>3, <1>10, <2>5 DEF ClientReceive
      <3>5. PICK data : data = [i \in 1..n |-> p.received[i - 1]]  OBVIOUS
      <3>6. /\ pending' = Without(pending, x)
            /\ c2s' = [c2s EXCEPT ![c] = Append(@, TRel(t))]
            /\ Resolve(x, Response(data))
        BY <1>2, <3>2, <3>3, <3>4, <3>5 DEF Finish
      <3>7. /\ DOMAIN pending' = DOMAIN pending \ {x}
            /\ \A y \in DOMAIN pending' : y \in DOMAIN pending /\ pending'[y] = pending[y]
        BY <3>6 DEF Without, Restrict
      <3>8. Steady  BY <1>7, <3>7, SteadyUnchanged
      <3>9. Asked'
        <4>1. PICK w : w = TRel(t)  OBVIOUS
        <4>2. w.type = "TRel" /\ w \in ReqType \cup RelType
          BY <1>6, <4>1 DEF TRel, RelType, TypeOK
        <4>3. \A d \in Clients : \A v \in Sent(d)' : v \in Sent(d) \/ (d = c /\ v = w)
          <5>1. w \in ReqType \cup RelType  BY <4>2
          <5>. QED  BY <3>6, <4>1, <5>1, SentAppend
        <4>. QED  BY <1>7, <1>8, <3>8, <4>2, <4>3, AskedKept DEF OutcomesInv, ExactlyOnceInv
      <3>10. Carried'  BY <1>4, <1>7, <3>8, CarriedKept DEF OutcomesInv, ExactlyOnceInv
      <3>11. Assembling'
        BY <1>7, <3>7 DEF OutcomesInv, Assembling, GoodSlots, Filled, Early
      <3>12. \A y \in Trans : outcome'[y] = IF y = x /\ outcome[y].st = "waiting" THEN Response(data) ELSE outcome[y]
        BY <3>6 DEF Resolve, TypeOK
      <3>13. WaiterHasRequest'
        BY <3>7, <3>12 DEF OutcomesInv, OutcomesRight, WaiterHasRequest, Response
      <3>14. ResponseWhole'
        <4>. SUFFICES ASSUME NEW y \in Trans \ evicted, outcome'[y].st = "response"
                      PROVE  Len(answered[y]) = 1 /\ outcome'[y].data = [i \in 1..answered[y][1] |-> 1]
          BY <1>7 DEF ResponseWhole
        <4>1. CASE outcome'[y] = outcome[y]
          BY <4>1 DEF OutcomesInv, OutcomesRight, ResponseWhole
        <4>2. CASE y = x /\ outcome'[y] = Response(data)
          <5>1. Len(answered[x]) = 1 /\ n = answered[x][1]
            BY <2>3, <3>1, <3>3, <4>2 DEF GoodSlots
          <5>2. \A i \in 1..n : p.received[i - 1] = 1
            <6>. SUFFICES ASSUME NEW i \in 1..n PROVE p.received[i - 1] = 1
              OBVIOUS
            <6>1. i - 1 \in Filled(p)  BY <3>3
            <6>. QED  BY <2>3, <4>2, <6>1 DEF GoodSlots
          <5>3. data = [i \in 1..n |-> 1]  BY <3>5, <5>2
          <5>. QED  BY <4>2, <5>1, <5>3 DEF Response
        <4>. QED  BY <3>12, <4>1, <4>2
      <3>15. AnsweredOnce'  BY <1>7, AnsweredKept DEF OutcomesInv
      <3>. QED  BY <3>9, <3>10, <3>11, <3>13, <3>14, <3>15 DEF OutcomesInv, OutcomesRight
    <2>. QED  BY <2>4, <2>5
  <1>. QED  BY <1>9, <1>10


\* A request delivered, ignored or answered from the cache.
LEMMA OutcomesHandleRequest ==
    ASSUME TypeOK, ExactlyOnceInv, ExactlyOnceInv', OutcomesInv, NEW c \in Clients, ServerReceive(c),
           Head(c2s[c]).type = "TReq", HandleRequest(c, Head(c2s[c]))
    PROVE  OutcomesInv'
  <1>1. c2s[c] # <<>> /\ c2s' = [c2s EXCEPT ![c] = Tail(@)]  BY DEF ServerReceive
  <1>2. PICK m, t, x : m = Head(c2s[c]) /\ t = m.tid /\ x = <<c, t>>  OBVIOUS
  <1>3. m \in Sent(c) /\ \A d \in Clients : Sent(d)' \subseteq Sent(d)  BY <1>1, <1>2, SentTail
  <1>4. m \in ReqType
    <2>1. c2s[c] \in Seq(ReqType \cup RelType)  BY DEF TypeOK
    <2>2. m \in ReqType \cup RelType  BY <1>3, <2>1 DEF Sent
    <2>. QED  BY <1>2, <2>2 DEF RelType
  <1>5. t \in Tids /\ x \in Trans  BY <1>2, <1>4 DEF ReqType, Trans
  <1>6. UNCHANGED <<next_tid, pending, outcome, serving, answered>>  BY DEF ServerReceive, clientVars
  <1>7. HandleRequest(c, m)  BY <1>2
  <1>8. CASE UNCHANGED <<s2c, reply_cache, requests, delivered, dropped, evicted>>
    <2>1. \A d \in Clients : Arriving(d)' = Arriving(d)  BY <1>8 DEF Arriving
    <2>. QED  BY <1>3, <1>6, <1>8, <2>1, OutcomesQuiet
  <1>9. CASE /\ \E e \in Oldest(Cached(x)) : Transmit(c, t, e.packets)
             /\ UNCHANGED <<reply_cache, requests, delivered, dropped, evicted>>
    <2>1. PICK e \in reply_cache : e.trans = x /\ Transmit(c, t, e.packets)
      BY <1>9 DEF Oldest, Cached
    <2>2. PICK ps \in Seq(PacketType) : ps = e.packets  BY DEF TypeOK, CacheType
    <2>3. Steady  BY <1>6, <1>9, SteadyUnchanged
    <2>4. Asked'
      <3>1. Queued' = Queued  BY <1>9 DEF Queued
      <3>. QED  BY <1>3, <1>6, <2>3, <3>1, AskedKept DEF OutcomesInv, ExactlyOnceInv
    <2>5. Carried'
      <3>1. ASSUME NEW j \in 1..Len(ps), NEW w, w = TResp(t, ps[j]) PROVE GoodPart(<<c, w.tid>>, w)'
        <4>1. PICK p : p = ps[j]  OBVIOUS
        <4>2. w.tid = t /\ w.eom = p.eom /\ w.seq = p.seq /\ w.ans = p.ans  BY <3>1, <4>1 DEF TResp
        <4>3. GoodPart(x, p)  BY <2>1, <2>2, <4>1 DEF OutcomesInv, Carried
        <4>4. GoodPart(x, w)  BY <4>2, <4>3 DEF GoodPart, PartOf
        <4>5. GoodPart(x, w)'  BY <1>5, <2>3, <4>4, PartKept DEF ExactlyOnceInv
        <4>. QED  BY <1>2, <4>2, <4>5
      <3>2. ASSUME NEW d \in Clients, NEW w \in Arriving(d)'
            PROVE  w \in Arriving(d) \/ (d = c /\ \E j \in 1..Len(ps) : w = TResp(t, ps[j]))
        BY <1>5, <2>1, <2>2, ArrivingTransmit
      <3>3. \A d \in Clients : \A w \in Arriving(d)' : w \in Arriving(d) \/ GoodPart(<<d, w.tid>>, w)'
        BY <3>1, <3>2
      <3>. QED  BY <1>9, <2>3, <3>3, CarriedKept DEF OutcomesInv, ExactlyOnceInv
    <2>6. Assembling' /\ OutcomesRight'
      BY <1>6, <1>9 DEF OutcomesInv, Assembling, GoodSlots, Filled, Early, OutcomesRight, ResponseWhole, WaiterHasRequest
    <2>7. AnsweredOnce'  BY <1>6, <1>9, AnsweredKept DEF OutcomesInv
    <2>. QED  BY <2>4, <2>5, <2>6, <2>7 DEF OutcomesInv
  <1>10. CASE /\ evicted \subseteq evicted'
              /\ SortEvents(x, m)
              /\ UNCHANGED <<s2c, reply_cache>>
    <2>1. /\ delivered' \in [Trans -> Nat] /\ delivered \in [Trans -> Nat]
          /\ \A y \in Trans : delivered[y] <= delivered'[y]
          /\ dropped \subseteq dropped'
      <3>1. /\ delivered' = [delivered EXCEPT ![x] = @ + 1] \/ delivered' = delivered
            /\ dropped \subseteq dropped'
        BY <1>10 DEF SortEvents
      <3>2. delivered \in [Trans -> Nat]  BY DEF TypeOK
      <3>3. CASE delivered' = delivered  BY <3>1, <3>2, <3>3
      <3>4. CASE delivered' = [delivered EXCEPT ![x] = @ + 1]
        <4>1. \A y \in Trans : delivered[y] \in Nat /\ delivered'[y] = IF y = x THEN delivered[y] + 1 ELSE delivered[y]
          BY <1>5, <3>2, <3>4
        <4>2. \A y \in Trans : delivered[y] <= delivered'[y]  BY <4>1
        <4>. QED  BY <1>5, <3>1, <3>2, <3>4, <4>2
      <3>. QED  BY <3>1, <3>3, <3>4
    <2>2. Steady
      BY <1>6, <1>10, <2>1 DEF Steady, Keeps, Accepted
    <2>3. requests \in Seq(InboundType)  BY DEF TypeOK
    <2>4. PICK r : r = [trans |-> x, xo |-> m.xo, bitmap |-> m.bitmap]  OBVIOUS
    <2>5. r \in InboundType  BY <1>4, <1>5, <2>4 DEF ReqType, InboundType
    <2>6. \/ /\ requests' = Append(requests, r)
             /\ delivered' = [delivered EXCEPT ![x] = @ + 1]
          \/ UNCHANGED <<requests, delivered>>
      BY <1>10, <2>4 DEF SortEvents
    <2>7. CASE UNCHANGED <<requests, delivered>>
      <3>1. Asked'
        <4>1. Queued' = Queued  BY <2>7 DEF Queued
        <4>. QED  BY <1>3, <1>6, <2>2, <4>1, AskedKept DEF OutcomesInv, ExactlyOnceInv
      <3>2. AnsweredOnce'  BY <1>6, <1>10, <2>7 DEF OutcomesInv, AnsweredOnce, Unanswered
      <3>3. Carried'
        <4>1. \A d \in Clients : Arriving(d)' = Arriving(d)  BY <1>10 DEF Arriving
        <4>. QED  BY <1>10, <2>2, <4>1, CarriedKept DEF OutcomesInv, ExactlyOnceInv
      <3>4. Assembling' /\ OutcomesRight'
        BY <1>6, <1>10 DEF OutcomesInv, Assembling, GoodSlots, Filled, Early, OutcomesRight, ResponseWhole, WaiterHasRequest
      <3>. QED  BY <3>1, <3>2, <3>3, <3>4 DEF OutcomesInv
    <2>8. CASE requests' = Append(requests, r) /\ delivered' = [delivered EXCEPT ![x] = @ + 1]
      <3>1. /\ Len(requests) \in Nat /\ Len(requests') = Len(requests) + 1
            /\ \A i \in 1..Len(requests) : requests'[i] = requests[i]
            /\ requests'[Len(requests) + 1] = r
        BY <2>3, <2>5, <2>8, AppendProperties
      <3>2. \A v \in Queued' : v \in Queued \/ v = r
        <4>. SUFFICES ASSUME NEW i \in 1..Len(requests') PROVE requests'[i] \in Queued \/ requests'[i] = r
          BY DEF Queued
        <4>1. i \in 1..Len(requests) \/ i = Len(requests) + 1  BY <3>1
        <4>. QED  BY <3>1, <4>1 DEF Queued
      <3>3. Asked'
        <4>1. SameBitmap(x, m.xo, m.bitmap)  BY <1>2, <1>3 DEF OutcomesInv, Asked
        <4>2. SameBitmap(r.trans, r.xo, r.bitmap)'  BY <1>6, <2>4, <4>1 DEF SameBitmap
        <4>. QED  BY <1>3, <1>6, <2>2, <3>2, <4>2, AskedKept DEF OutcomesInv, ExactlyOnceInv
      <3>4. ASSUME x \notin evicted'
            PROVE  /\ answered[x] = <<>> /\ delivered'[x] > 0
                   /\ \A i \in 1..Len(requests) : requests[i].trans # x
                   /\ \A s \in serving : s.trans # x
        <4>1. x \in Trans \ evicted'  BY <1>5, <3>4
        <4>2. delivered'[x] <= 1  BY <4>1 DEF ExactlyOnceInv, Once
        <4>3. delivered[x] = 0 /\ delivered'[x] = 1  BY <1>5, <2>1, <2>8, <4>2
        <4>4. x \in Trans \ evicted  BY <1>10, <4>1
        <4>. QED  BY <4>3, <4>4 DEF OutcomesInv, AnsweredOnce, Unanswered
      <3>5. AnsweredOnce'
        <4>1. \A y \in Trans \ evicted' : Len(answered'[y]) <= 1 /\ (answered'[y] # <<>> => delivered'[y] > 0)
          BY <1>6, <1>10, <2>1 DEF OutcomesInv, AnsweredOnce
        <4>2. ASSUME NEW s \in serving', s.trans \notin evicted'
              PROVE  Unanswered(s.trans)' /\ \A v \in serving' : v.trans = s.trans => v = s
          <5>1. s.trans \in Trans  BY <1>6, <4>2 DEF TypeOK, InboundType
          <5>. QED  BY <1>6, <1>10, <2>1, <4>2, <5>1 DEF OutcomesInv, AnsweredOnce, Unanswered
        <4>3. ASSUME NEW i \in 1..Len(requests'), requests'[i].trans \notin evicted'
              PROVE  /\ Unanswered(requests[i].trans)'
                     /\ \A j \in 1..Len(requests') : requests'[j].trans = requests'[i].trans => i = j
                     /\ \A s \in serving' : s.trans # requests'[i].trans
          <5>0. \A j \in 1..Len(requests') : j \in 1..Len(requests) \/ j = Len(requests) + 1  BY <3>1
          <5>1. CASE i = Len(requests) + 1
            <6>1. requests'[i].trans = x  BY <2>4, <3>1, <5>1
            <6>. QED  BY <1>6, <3>1, <3>4, <4>3, <5>0, <5>1, <6>1 DEF Unanswered
          <5>2. CASE i \in 1..Len(requests)
            <6>0. requests'[i] = requests[i] /\ requests[i] \in InboundType  BY <2>3, <3>1, <5>2
            <6>1. requests'[i] = requests[i] /\ requests[i].trans \notin evicted /\ requests[i].trans \in Trans
              BY <1>10, <4>3, <6>0 DEF InboundType
            <6>2. requests[i].trans # x  BY <3>4, <4>3, <5>2, <6>1
            <6>3. /\ Unanswered(requests[i].trans)
                  /\ \A j \in 1..Len(requests) : requests[j].trans = requests[i].trans => i = j
                  /\ \A s \in serving : s.trans # requests[i].trans
              BY <5>2, <6>1 DEF OutcomesInv, AnsweredOnce
            <6>4. \A j \in 1..Len(requests') : requests'[j].trans = requests'[i].trans => i = j
              BY <2>4, <3>1, <5>0, <6>1, <6>2, <6>3
            <6>5. Unanswered(requests[i].trans)'
              BY <1>6, <2>1, <6>1, <6>3 DEF Unanswered
            <6>. QED  BY <1>6, <6>1, <6>3, <6>4, <6>5
          <5>. QED  BY <5>0, <5>1, <5>2
        <4>. QED  BY <4>1, <4>2, <4>3 DEF AnsweredOnce
      <3>6. Carried'
        <4>1. \A d \in Clients : Arriving(d)' = Arriving(d)  BY <1>10 DEF Arriving
        <4>. QED  BY <1>10, <2>2, <4>1, CarriedKept DEF OutcomesInv, ExactlyOnceInv
      <3>7. Assembling' /\ OutcomesRight'
        BY <1>6, <1>10 DEF OutcomesInv, Assembling, GoodSlots, Filled, Early, OutcomesRight, ResponseWhole, WaiterHasRequest
      <3>. QED  BY <3>3, <3>5, <3>6, <3>7 DEF OutcomesInv
    <2>. QED  BY <2>6, <2>7, <2>8
  <1>. QED  BY <1>2, <1>7, <1>8, <1>9, <1>10 DEF HandleRequest

\* Whatever arrives at the responder.
LEMMA OutcomesServerReceive ==
    ASSUME TypeOK, ExactlyOnceInv, ExactlyOnceInv', OutcomesInv, NEW c \in Clients, ServerReceive(c)
    PROVE  OutcomesInv'
  <1>1. CASE Head(c2s[c]).type = "TReq" /\ HandleRequest(c, Head(c2s[c]))
    BY <1>1, OutcomesHandleRequest
  <1>2. CASE HandleRelease(c, Head(c2s[c]))
    <2>1. \A d \in Clients : Sent(d)' \subseteq Sent(d)  BY SentTail DEF ServerReceive
    <2>2. /\ UNCHANGED <<next_tid, pending, outcome, requests, serving, delivered, dropped, evicted, answered, s2c>>
          /\ reply_cache' \subseteq reply_cache
      BY <1>2 DEF ServerReceive, HandleRelease, clientVars
    <2>3. \A d \in Clients : Arriving(d)' \subseteq Arriving(d)  BY <2>2 DEF Arriving
    <2>. QED  BY <2>1, <2>2, <2>3, OutcomesQuiet
  <1>. QED  BY <1>1, <1>2 DEF ServerReceive

\* The application takes the oldest request: it is in one place all the while.
LEMMA OutcomesNextRequest ==
    ASSUME TypeOK, ExactlyOnceInv, OutcomesInv, NextRequest
    PROVE  OutcomesInv'
  <1>1. UNCHANGED <<next_tid, pending, outcome, reply_cache, c2s, s2c, delivered, dropped, evicted, answered>>
    BY DEF NextRequest, clientVars, history
  <1>2. PICK r : r = Head(requests)  OBVIOUS
  <1>3. requests # <<>> /\ requests' = Tail(requests) /\ serving' = serving \cup IF r.xo THEN {r} ELSE {}
    BY <1>2 DEF NextRequest
  <1>4. /\ Len(requests) \in Nat \ {0} /\ Len(requests') = Len(requests) - 1 /\ r = requests[1]
        /\ \A i \in 1..Len(requests') : requests'[i] = requests[i + 1]
    BY <1>2, <1>3, HeadTailProperties, EmptySeq DEF TypeOK
  <1>5. \A i \in 1..Len(requests') : i + 1 \in 1..Len(requests) /\ i + 1 # 1  BY <1>4
  <1>6. Steady  BY <1>1, SteadyUnchanged
  <1>7. Asked'
    <2>1. \A d \in Clients : Sent(d)' = Sent(d)  BY <1>1 DEF Sent
    <2>2. r \in Queued  BY <1>4 DEF Queued
    <2>3. Queued' \subseteq Queued  BY <1>4, <1>5 DEF Queued
    <2>4. \A s \in serving' : s \in serving \/ (s.xo /\ s = r)  BY <1>3
    <2>. QED  BY <1>6, <2>1, <2>2, <2>3, <2>4, AskedKept DEF OutcomesInv, ExactlyOnceInv
  <1>8. Carried'
    <2>1. \A d \in Clients : Arriving(d)' = Arriving(d)  BY <1>1 DEF Arriving
    <2>. QED  BY <1>1, <1>6, <2>1, CarriedKept DEF OutcomesInv, ExactlyOnceInv
  <1>9. Assembling' /\ OutcomesRight'
    BY <1>1 DEF OutcomesInv, Assembling, GoodSlots, Filled, Early, OutcomesRight, ResponseWhole, WaiterHasRequest
  <1>10. AnsweredOnce'
    <2>1. \A y \in Trans \ evicted' : Len(answered'[y]) <= 1 /\ (answered'[y] # <<>> => delivered'[y] > 0)
      BY <1>1 DEF OutcomesInv, AnsweredOnce
    <2>2. r.trans \notin evicted =>
             /\ Unanswered(r.trans)
             /\ \A j \in 1..Len(requests) : requests[j].trans = r.trans => 1 = j
             /\ \A s \in serving : s.trans # r.trans
      BY <1>4 DEF OutcomesInv, AnsweredOnce
    <2>3. ASSUME NEW i \in 1..Len(requests'), requests'[i].trans \notin evicted
          PROVE  /\ Unanswered(requests'[i].trans)
                 /\ \A j \in 1..Len(requests') : requests'[j].trans = requests'[i].trans => i = j
                 /\ \A s \in serving' : s.trans # requests'[i].trans
      <3>1. PICK k \in 1..Len(requests) : k = i + 1 /\ k # 1 /\ requests'[i] = requests[k]  BY <1>4, <1>5
      <3>2. /\ Unanswered(requests[k].trans)
            /\ \A j \in 1..Len(requests) : requests[j].trans = requests[k].trans => k = j
            /\ \A s \in serving : s.trans # requests[k].trans
        BY <2>3, <3>1 DEF OutcomesInv, AnsweredOnce
      <3>3. r.trans # requests[k].trans
        <4>1. 1 \in 1..Len(requests) /\ requests[1] = r  BY <1>4
        <4>. QED  BY <3>1, <3>2, <4>1
      <3>4. ASSUME NEW j \in 1..Len(requests'), requests'[j].trans = requests'[i].trans PROVE i = j
        <4>1. j + 1 \in 1..Len(requests) /\ requests'[j] = requests[j + 1]  BY <1>4, <1>5
        <4>2. k = j + 1  BY <3>1, <3>2, <3>4, <4>1
        <4>. QED  BY <3>1, <4>2
      <3>. QED  BY <1>3, <3>1, <3>2, <3>3, <3>4
    <2>4. ASSUME NEW s \in serving', s.trans \notin evicted
          PROVE  Unanswered(s.trans) /\ \A v \in serving' : v.trans = s.trans => v = s
      <3>1. \A v \in serving' : v \in serving \/ v = r  BY <1>3
      <3>2. CASE s = r  BY <2>2, <2>4, <3>1, <3>2
      <3>3. CASE s \in serving
        <4>1. Unanswered(s.trans) /\ \A v \in serving : v.trans = s.trans => v = s
          BY <2>4, <3>3 DEF OutcomesInv, AnsweredOnce
        <4>. QED  BY <2>2, <2>4, <3>1, <3>3, <4>1
      <3>. QED  BY <3>1, <3>2, <3>3
    <2>. QED  BY <1>1, <2>1, <2>3, <2>4 DEF AnsweredOnce, Unanswered
  <1>. QED  BY <1>7, <1>8, <1>9, <1>10 DEF OutcomesInv


\* An answer that fits the bitmap, given to a transaction that has none yet.
LEMMA SplitFits ==
    ASSUME AnswersFit, NEW r \in InboundType, r.bitmap \in Bitmaps, NEW k \in Answers
    PROVE  /\ Split(r, k) \in 1..MAX_SLOTS
           /\ r.bitmap # 0 => Split(r, k) <= r.bitmap
  <1>1. /\ k \in 1..MAX_SLOTS /\ r.bitmap \in 0..MAX_SLOTS /\ MAX_SLOTS \in Nat \ {0}
        /\ RESPECT_BITMAP \in BOOLEAN
    BY ConstantsAssumption
  <1>2. MaxPackets(r.bitmap) \in 1..MAX_SLOTS /\ (r.bitmap # 0 => MaxPackets(r.bitmap) = r.bitmap)
    BY <1>1 DEF MaxPackets
  <1>3. CASE RESPECT_BITMAP /\ k > MaxPackets(r.bitmap)
    <2>1. Split(r, k) = MaxPackets(r.bitmap)  BY <1>3 DEF Split
    <2>. QED  BY <1>1, <1>2, <2>1
  <1>4. CASE ~(RESPECT_BITMAP /\ k > MaxPackets(r.bitmap))
    <2>1. Split(r, k) = k  BY <1>4 DEF Split
    <2>2. k <= MaxPackets(r.bitmap)  BY <1>1, <1>2, <1>4 DEF AnswersFit
    <2>. QED  BY <1>1, <1>2, <2>1, <2>2
  <1>. QED  BY <1>3, <1>4

\* An answer is of one packet at least and fits the slots.
LEMMA SplitType ==
    ASSUME NEW r \in InboundType, NEW k \in Answers
    PROVE  Split(r, k) \in 1..MAX_SLOTS
  <1>1. /\ k \in 1..MAX_SLOTS /\ r.bitmap \in 0..MAX_SLOTS /\ MAX_SLOTS \in Nat \ {0}
    BY ConstantsAssumption DEF InboundType
  <1>2. MaxPackets(r.bitmap) \in 1..MAX_SLOTS  BY <1>1 DEF MaxPackets
  <1>. QED  BY <1>1, <1>2 DEF Split

\* The application answers: the first answer of a transaction that was not evicted.
LEMMA OutcomesRespond ==
    ASSUME AnswersFit, TypeOK, ExactlyOnceInv, OutcomesInv,
           NEW r \in serving, NEW k \in Answers, Respond(r, k)
    PROVE  OutcomesInv'
  <1>. USE ConstantsAssumption
  <1>1. PICK x, n, a : x = r.trans /\ n = Split(r, k) /\ a = Len(answered[x]) + 1  OBVIOUS
  <1>2. PICK ps : ps = Packets(n, a)  OBVIOUS
  <1>3. /\ serving' = serving \ {r} /\ Transmit(x[1], x[2], ps)
        /\ answered' = [answered EXCEPT ![x] = Append(@, n)]
        /\ UNCHANGED <<next_tid, pending, outcome, requests, c2s, delivered, dropped>>
    BY <1>1, <1>2 DEF Respond, clientVars
  <1>4. PICK e : e = [trans |-> x, packets |-> ps, expires_at |-> now + RELEASE_TIMEOUT]  OBVIOUS
  <1>5. evicted \subseteq evicted' /\ reply_cache' \subseteq reply_cache \cup {e}
    BY <1>1, <1>2, <1>4 DEF Respond
  <1>6. r \in InboundType  BY DEF TypeOK
  <1>7. x \in Trans /\ x[1] \in Clients /\ x[2] \in Tids /\ x = <<x[1], x[2]>>
    BY <1>1, <1>6 DEF InboundType, Trans
  <1>8. n \in 1..MAX_SLOTS  BY <1>1, <1>6, SplitType
  <1>9. answered \in [Trans -> Seq(1..MAX_SLOTS)]  BY DEF TypeOK
  <1>10. a \in Nat  BY <1>1, <1>7, <1>9
  <1>11. ps \in Seq(PacketType) /\ Len(ps) = n /\ \A j \in 1..n : ps[j] = [seq |-> j - 1, eom |-> j = n, ans |-> a]
    <2>1. ps \in Seq(PacketType)  BY <1>2, <1>8, <1>10, PacketsType
    <2>2. ps = [i \in 1..n |-> [seq |-> i - 1, eom |-> i = n, ans |-> a]] /\ n \in Nat  BY <1>2, <1>8 DEF Packets
    <2>. QED  BY <2>1, <2>2
  <1>12. Accepted(x)  BY <1>1 DEF ExactlyOnceInv, Fresh
  <1>13. x \notin evicted => Unanswered(x) /\ \A s \in serving : s.trans = x => s = r
    BY <1>1 DEF OutcomesInv, AnsweredOnce
  <1>14. \A y \in Trans : y # x => answered'[y] = answered[y]
    BY <1>3, <1>9
  <1>15. answered'[x] = Append(answered[x], n)
    BY <1>3, <1>7, <1>9
  <1>16. x \notin evicted => a = 1 /\ Len(answered'[x]) = 1 /\ answered'[x][1] = n
    <2>1. x \notin evicted => answered[x] = <<>>  BY <1>13 DEF Unanswered
    <2>2. Len(<<>>) = 0 /\ Append(<<>>, n) = <<n>> /\ Len(<<n>>) = 1 /\ <<n>>[1] = n  OBVIOUS
    <2>. QED  BY <1>1, <1>15, <2>1, <2>2
  <1>17. Steady
    <2>. SUFFICES ASSUME NEW y \in Trans PROVE Keeps(y)
      BY DEF Steady
    <2>1. Accepted(y) => Accepted(y)'  BY <1>3 DEF Accepted
    <2>2. y \notin evicted' /\ Len(answered[y]) = 1 => answered'[y] = answered[y]
      <3>1. CASE y = x
        <4>1. y \notin evicted => Len(answered[y]) = 0  BY <1>13, <3>1 DEF Unanswered
        <4>. QED  BY <1>5, <4>1
      <3>2. CASE y # x  BY <1>14, <3>2
      <3>. QED  BY <3>1, <3>2
    <2>. QED  BY <1>3, <1>5, <2>1, <2>2 DEF Keeps
  <1>18. Asked'
    <2>1. \A d \in Clients : Sent(d)' = Sent(d)  BY <1>3 DEF Sent
    <2>2. Queued' = Queued  BY <1>3 DEF Queued
    <2>. QED  BY <1>3, <1>17, <2>1, <2>2, AskedKept DEF OutcomesInv, ExactlyOnceInv
  <1>19. ASSUME NEW j \in 1..n, NEW p, p.seq = ps[j].seq, p.eom = ps[j].eom, p.ans = ps[j].ans
         PROVE  GoodPart(x, p)'
    <2>0. ps[j] = [seq |-> j - 1, eom |-> j = n, ans |-> a] /\ j \in Nat /\ n \in Nat  BY <1>8, <1>11
    <2>1. p.seq = j - 1 /\ (p.eom <=> j = n) /\ p.ans = a /\ j \in Nat
      <3>1. PICK b \in BOOLEAN : b = (j = n)  OBVIOUS
      <3>2. ps[j] = [seq |-> j - 1, eom |-> b, ans |-> a]  BY <2>0, <3>1
      <3>3. p.seq = j - 1 /\ p.eom = b /\ p.ans = a  BY <1>19, <3>2
      <3>. QED  BY <2>0, <3>1, <3>3
    <2>2. Accepted(x)'  BY <1>3, <1>12 DEF Accepted
    <2>3. ASSUME x \in DOMAIN pending, ~p.eom PROVE Early(p.seq, pending[x].bitmap)
      <3>1. PICK b : b = pending[x].bitmap  OBVIOUS
      <3>2. r.bitmap = b
        <4>1. r.xo /\ SameBitmap(r.trans, r.xo, r.bitmap)  BY DEF OutcomesInv, Asked
        <4>. QED  BY <1>1, <2>3, <3>1, <4>1 DEF SameBitmap
      <3>3. b \in Bitmaps  BY <2>3, <3>1 DEF OutcomesInv, Assembling, GoodSlots
      <3>4. b # 0 => n <= b  BY <1>1, <1>6, <3>2, <3>3, SplitFits
      <3>5. b \in Nat  BY <3>3
      <3>6. b = 0 \/ p.seq + 1 < b  BY <1>8, <2>1, <2>3, <3>4, <3>5
      <3>. QED  BY <3>1, <3>6 DEF Early
    <2>4. x \in DOMAIN pending' => p.eom \/ Early(p.seq, pending'[x].bitmap)  BY <1>3, <2>3
    <2>5. ASSUME x \notin evicted' PROVE PartOf(x, p)'
      <3>1. x \notin evicted  BY <1>5, <2>5
      <3>. QED  BY <1>8, <1>16, <2>1, <3>1 DEF PartOf
    <2>. QED  BY <2>2, <2>4, <2>5 DEF GoodPart, Early
  <1>20. Carried'
    <2>1. ASSUME NEW d \in Clients, NEW w \in Arriving(d)'
          PROVE  w \in Arriving(d) \/ (d = x[1] /\ \E j \in 1..Len(ps) : w = TResp(x[2], ps[j]))
      <3>1. PICK c \in Clients, t \in Tids : c = x[1] /\ t = x[2]  BY <1>7
      <3>2. Transmit(c, t, ps) /\ ps \in Seq(PacketType)  BY <1>3, <1>11, <3>1
      <3>3. w \in Arriving(d) \/ (d = c /\ \E j \in 1..Len(ps) : w = TResp(t, ps[j]))
        BY <2>1, <3>2, ArrivingTransmit
      <3>. QED  BY <3>1, <3>3
    <2>2. ASSUME NEW j \in 1..Len(ps), NEW w, w = TResp(x[2], ps[j]) PROVE GoodPart(<<x[1], w.tid>>, w)'
      <3>1. w.tid = x[2] /\ w.seq = ps[j].seq /\ w.eom = ps[j].eom /\ w.ans = ps[j].ans  BY <2>2 DEF TResp
      <3>2. GoodPart(x, w)'  BY <1>11, <1>19, <3>1
      <3>. QED  BY <1>7, <3>1, <3>2
    <2>3. \A d \in Clients : \A w \in Arriving(d)' : w \in Arriving(d) \/ GoodPart(<<d, w.tid>>, w)'
      BY <2>1, <2>2
    <2>4. \A i \in 1..Len(e.packets) : GoodPart(e.trans, e.packets[i])'
      <3>1. e.trans = x /\ e.packets = ps  BY <1>4
      <3>2. \A i \in 1..Len(ps) : GoodPart(x, ps[i])'  BY <1>11, <1>19
      <3>. QED  BY <3>1, <3>2
    <2>5. \A d \in reply_cache' : d \in reply_cache \/ \A i \in 1..Len(d.packets) : GoodPart(d.trans, d.packets[i])'
      BY <1>5, <2>4
    <2>. QED  BY <1>17, <2>3, <2>5, CarriedKept DEF OutcomesInv, ExactlyOnceInv
  <1>21. Assembling'
    <2>. SUFFICES ASSUME NEW y \in DOMAIN pending PROVE GoodSlots(y, pending[y])'
      BY <1>3 DEF Assembling
    <2>1. y \in Trans /\ y[2] < next_tid[y[1]]  BY DEF TypeOK, ExactlyOnceInv, Fresh
    <2>2. Keeps(y) /\ GoodSlots(y, pending[y])  BY <1>17, <2>1 DEF Steady, OutcomesInv, Assembling
    <2>. QED  BY <1>3, <2>2, SlotsKept
  <1>22. AnsweredOnce'
    <2>1. ASSUME NEW y \in Trans \ evicted'
          PROVE  Len(answered'[y]) <= 1 /\ (answered'[y] # <<>> => delivered'[y] > 0)
      <3>1. CASE y = x  BY <1>3, <1>5, <1>13, <1>16, <3>1 DEF Unanswered
      <3>2. CASE y # x  BY <1>3, <1>5, <1>14, <3>2 DEF OutcomesInv, AnsweredOnce
      <3>. QED  BY <3>1, <3>2
    <2>2. ASSUME NEW i \in 1..Len(requests), requests[i].trans \notin evicted'
          PROVE  /\ Unanswered(requests[i].trans)'
                 /\ \A j \in 1..Len(requests) : requests[j].trans = requests[i].trans => i = j
                 /\ \A s \in serving' : s.trans # requests[i].trans
      <3>1. /\ Unanswered(requests[i].trans)
            /\ \A j \in 1..Len(requests) : requests[j].trans = requests[i].trans => i = j
            /\ \A s \in serving : s.trans # requests[i].trans
        BY <1>5, <2>2 DEF OutcomesInv, AnsweredOnce
      <3>2. requests[i].trans \in Trans
        <4>1. requests \in Seq(InboundType)  BY DEF TypeOK
        <4>2. requests[i] \in InboundType  BY <2>2, <4>1
        <4>. QED  BY <4>2 DEF InboundType
      <3>3. requests[i].trans # x  BY <1>1, <3>1
      <3>. QED  BY <1>3, <1>14, <3>1, <3>2, <3>3 DEF Unanswered
    <2>3. ASSUME NEW q \in serving', q.trans \notin evicted'
          PROVE  Unanswered(q.trans)' /\ \A s \in serving' : s.trans = q.trans => s = q
      <3>1. q \in serving /\ q # r  BY <1>3
      <3>2. Unanswered(q.trans) /\ \A s \in serving : s.trans = q.trans => s = q
        BY <1>5, <2>3, <3>1 DEF OutcomesInv, AnsweredOnce
      <3>3. q.trans \in Trans /\ q.trans # x  BY <1>1, <3>1, <3>2 DEF TypeOK, InboundType
      <3>. QED  BY <1>3, <1>14, <3>2, <3>3 DEF Unanswered
    <2>. QED  BY <1>3, <2>1, <2>2, <2>3 DEF AnsweredOnce
  <1>23. OutcomesRight'
    <2>1. WaiterHasRequest'  BY <1>3 DEF OutcomesInv, OutcomesRight, WaiterHasRequest
    <2>2. ASSUME NEW y \in Trans \ evicted', outcome[y].st = "response"
          PROVE  Len(answered'[y]) = 1 /\ outcome[y].data = [i \in 1..answered'[y][1] |-> 1]
      <3>1. Len(answered[y]) = 1 /\ outcome[y].data = [i \in 1..answered[y][1] |-> 1]
        BY <1>5, <2>2 DEF OutcomesInv, OutcomesRight, ResponseWhole
      <3>2. y # x
        <4>1. Len(<<>>) = 0  OBVIOUS
        <4>. QED  BY <1>5, <1>13, <3>1, <4>1 DEF Unanswered
      <3>. QED  BY <1>14, <3>1, <3>2
    <2>. QED  BY <1>3, <2>1, <2>2 DEF OutcomesRight, ResponseWhole
  <1>. QED  BY <1>18, <1>20, <1>21, <1>22, <1>23 DEF OutcomesInv

\* Nothing has been sent yet.
LEMMA OutcomesInit == Init => OutcomesInv
  <1>. SUFFICES ASSUME Init PROVE OutcomesInv
    OBVIOUS
  <1>1. \A d \in Clients : Len(c2s[d]) = 0 /\ Len(s2c[d]) = 0  BY DEF Init
  <1>2. Len(requests) = 0 /\ serving = {} /\ reply_cache = {} /\ DOMAIN pending = {}  BY DEF Init
  <1>3. \A x \in Trans : answered[x] = <<>> /\ outcome[x].st = "none"  BY DEF Init, NoOutcome
  <1>4. Len(<<>>) = 0  OBVIOUS
  <1>5. Asked /\ Carried /\ Assembling  BY <1>1, <1>2 DEF Asked, Carried, Assembling, Sent, Arriving, Queued
  <1>6. AnsweredOnce /\ OutcomesRight
    BY <1>2, <1>3, <1>4 DEF AnsweredOnce, OutcomesRight, ResponseWhole, WaiterHasRequest
  <1>. QED  BY <1>5, <1>6 DEF OutcomesInv

\* Every step.
LEMMA OutcomesNext ==
    ASSUME AnswersFit
    PROVE  TypeOK /\ ExactlyOnceInv /\ ExactlyOnceInv' /\ OutcomesInv /\ [Next]_vars => OutcomesInv'
  <1>. SUFFICES ASSUME TypeOK, ExactlyOnceInv, ExactlyOnceInv', OutcomesInv, [Next]_vars PROVE OutcomesInv'
    OBVIOUS
  <1>1. ASSUME NEW c \in Clients, NEW n \in Bitmaps, Request(c, n) PROVE OutcomesInv'
    BY <1>1, OutcomesRequest
  <1>2. ASSUME NEW c \in Clients, SendAlo(c) PROVE OutcomesInv'
    BY <1>2, OutcomesSendAlo
  <1>3. ASSUME NEW x \in Trans, Abandon(x) PROVE OutcomesInv'
    BY <1>3, OutcomesAbandon
  <1>4. ASSUME NEW c \in Clients, ClientReceive(c) PROVE OutcomesInv'
    BY <1>4, OutcomesClientReceive
  <1>5. ASSUME NEW x \in Trans, ClientPoll(x) PROVE OutcomesInv'
    BY <1>5, OutcomesClientPoll
  <1>6. ASSUME NEW c \in Clients, ServerReceive(c) PROVE OutcomesInv'
    BY <1>6, OutcomesServerReceive
  <1>7. CASE NextRequest
    BY <1>7, OutcomesNextRequest
  <1>8. ASSUME NEW r \in serving, NEW k \in Answers, Respond(r, k) PROVE OutcomesInv'
    BY <1>8, OutcomesRespond
  <1>9. CASE \/ \E c \in Clients : LoseToServer(c) \/ LoseToClient(c)
             \/ Tick \/ ServerPoll \/ UNCHANGED vars
    BY <1>9, OutcomesCable
  <1>. QED
    BY <1>1, <1>2, <1>3, <1>4, <1>5, <1>6, <1>7, <1>8, <1>9 DEF Next

\* With answers that fit the bitmaps they are asked with, as the desktop splitter makes them: a
\* caller that gets a response gets the one answer, all of it and nothing of another, unless the
\* transaction was evicted; and one that waits has a pending request that will end its waiting.
THEOREM OutcomesAreRight ==
    ASSUME AnswersFit
    PROVE  Spec => []OutcomesRight
  <1>1. TypeOK /\ ExactlyOnceInv /\ ExactlyOnceInv' /\ OutcomesInv /\ [Next]_vars => OutcomesInv'
    BY OutcomesNext
  <1>2. OutcomesInv => OutcomesRight
    BY DEF OutcomesInv
  <1>. QED  BY <1>1, <1>2, OutcomesInit, TypeCorrect, ExactlyOnceInvariant, PTL DEF Spec

=============================================================================
