---------------------------- MODULE InkTalkProofs ----------------------------
(***************************************************************************)
(* Proofs about the InkTalk board, for any ring sizes, names, roles and    *)
(* numbers of frames: the rings lose and reorder nothing, no save and no   *)
(* restart harms a job or the other core, and what the board is called     *)
(* agrees with what it keeps in flash once nothing is under way.           *)
(***************************************************************************)
EXTENDS InkTalk, SequenceTheorems, TLAPS

-----------------------------------------------------------------------------
(* Types *)

Stations  == {Us, Peer, None, Broadcast}
FrameType == [kind : {"none", "quiet", "enq", "ack", "rts", "cts", "data"},
              dst : Stations, src : Stations, id : Nat]
RingType(n) == [slots : [0 .. n - 1 -> FrameType], head : 0 .. Wrap - 1, tail : 0 .. Wrap - 1]
Core1Type == [pc : {"top", "work", "parked", "leaving", "csma", "listen", "data"},
              node : {None, Us}, pending : FrameType, attempts : Nat,
              asked : BOOLEAN, seen : BOOLEAN]

WireType ==
    /\ core1 \in Core1Type /\ core1.pending.id = 0
    /\ line \in Seq(FrameType) /\ stackRx \in Seq(FrameType)
    /\ flags \subseteq {"NODE_UPDATED", "PARK_REQUEST", "PARKED"} /\ node \in {None, Us}
    /\ tx \in RingType(TxSlots) /\ Used(tx) <= TxSlots
    /\ rx \in RingType(RxSlots) /\ Used(rx) <= RxSlots
    /\ submitted \in Nat /\ gone \in Seq(Nat) /\ events \in Nat

ConfigType == [name : Names, role : Roles]
WaitType   == [task : Tasks, cfg : ConfigType]
SaveType   == [owner : Tasks \cup {None}, step : {None, "park", "erased"}, cfg : ConfigType, queue : Seq(WaitType)]
Excuses    == {"stale", "overtaken", "edited", "failed", "power", "shell", "late", "cut"}
ItemType   == [kind : {"start", "bytes", "end", "rename"}, name : Names \cup {None}]

BoardType ==
    /\ active \in ConfigType /\ flash \in Seq(ConfigType) /\ Len(flash) <= 1
    /\ running \in Roles /\ {live, ctl} \subseteq Names /\ signal \in Names \cup {None}
    /\ save \in SaveType
    /\ control \in [pc : {"idle", "save", "reply", "flush"}, reboot : BOOLEAN]
    /\ printer \in {"run", "writing", "save", "identify"}
    /\ port \in Seq(ItemType) /\ \A i \in 1 .. Len(port) : port[i].kind = "rename" => port[i].name \in Names
    /\ reprobe \in BOOLEAN /\ jobActive \in BOOLEAN /\ job \in {None, "open", "late"}
    /\ excuses \subseteq Excuses

-----------------------------------------------------------------------------
(* The invariant of the wire *)

\* What a ring holds, oldest first.
Content(r, n) == [i \in 1 .. Used(r) |-> r.slots[(r.tail + (i - 1)) % n]]

Ours(f)   == f.src = Us /\ f.id > 0
Theirs(f) == f.src = Peer /\ f.id > 0

\* The slots of the transmit ring hold the frames after those that are gone.
Numbered ==
    /\ Len(gone) + Used(tx) = submitted
    /\ \A i \in 1 .. Len(gone) : gone[i] = i
    /\ \A i \in 1 .. Used(tx) :
          /\ Content(tx, TxSlots)[i].id = Len(gone) + i
          /\ Content(tx, TxSlots)[i].src = Us /\ Content(tx, TxSlots)[i].kind = "data"
    /\ core1.pc \in {"csma", "listen", "data"} => Used(tx) > 0

\* The node core 0 has taken is core 1's, or core 1 will be told; the request to park stands
\* as long as a save, and PARKED as long as the spin.
Signals ==
    /\ node = Us => core1.node = Us \/ "NODE_UPDATED" \in flags
    /\ "NODE_UPDATED" \in flags => node = Us
    /\ core1.seen => core1.pc \in {"parked", "leaving"} /\ "NODE_UPDATED" \in flags
    /\ "PARKED" \in flags <=> core1.pc \in {"parked", "leaving"}
    /\ "PARK_REQUEST" \in flags <=> save.owner # None
    /\ save.owner = None <=> save.step = None

\* What this board sends comes back only to a core 1 that knows its own number, or will before
\* it decodes the line.
Echoes ==
    /\ Used(tx) > 0 => node = Us
    /\ \A i \in 1 .. Len(line) : Ours(line[i]) =>
          /\ line[i].kind = "data" /\ node = Us
          /\ core1.node = Us \/ core1.pc = "top" \/ (core1.pc \in {"parked", "leaving"} /\ core1.seen)

\* The frames of the other node, in the stack's channel, the ring and on the line.
Heard == stackRx \o Content(rx, RxSlots)

Ordered(h, l, e) ==
    /\ \A i \in 1 .. Len(l) : l[i].id > 0 => Ours(l[i]) \/ Theirs(l[i])
    /\ \A i \in 1 .. Len(l) : Theirs(l[i]) => l[i].id <= e
    /\ \A i, j \in 1 .. Len(l) : i < j /\ Theirs(l[i]) /\ Theirs(l[j]) => l[i].id < l[j].id
    /\ \A i \in 1 .. Len(h) : h[i].id <= e
    /\ \A i, j \in 1 .. Len(h) : i < j /\ h[j].id > 0 => h[i].id < h[j].id
    /\ \A i \in 1 .. Len(h), j \in 1 .. Len(l) : Theirs(l[j]) => h[i].id < l[j].id

InTurn == Ordered(Heard, line, events)

\* As long as the other node has not answered the RTS, there is no CTS on the line.
Asked == core1.asked => core1.pc = "listen" /\ \A i \in 1 .. Len(line) : line[i].kind # "cts"

WireInv == WireType /\ Numbered /\ Echoes /\ InTurn /\ Asked

-----------------------------------------------------------------------------
(* The invariant of core 0 *)

\* Core 1 in the spin, with a request to park, leaves it only if that was seen before the request.
Parking == core1.pc = "leaving" /\ "PARK_REQUEST" \in flags => "stale" \in excuses

\* A job of which no restart was decided is under way, in the port or as the printer task knows it.
Reported ==
    job = "open" =>
        \/ \E i \in 1 .. Len(port) :
              port[i].kind = "start" /\ \A j \in 1 .. Len(port) : i < j => port[j].kind # "end"
        \/ jobActive /\ \A j \in 1 .. Len(port) : port[j].kind # "end"

\* Bytes follow the start of their job.
Follows ==
    /\ \A i \in 1 .. Len(port) : port[i].kind = "bytes" =>
          IF i = 1 THEN jobActive ELSE port[i - 1].kind = "start"
    /\ printer = "writing" => jobActive
    /\ "cut" \notin excuses

Decided ==
    /\ control.pc = "flush" => control.reboot
    /\ control.pc = "idle" => ~control.reboot
    /\ Deciding => job # "open"

\* The names of the printer and of the control listener, one of them perhaps still to be told.
Named ==
    \/ "late" \in excuses
    \/ IF signal = None THEN ctl = live ELSE signal = live

\* The last save there will be is of what is active.
LastCfg == IF save.queue # <<>> THEN save.queue[Len(save.queue)].cfg ELSE save.cfg
Kept ==
    \/ excuses \cap Unsaved # {}
    \/ IF save.owner = None /\ save.queue = <<>> THEN flash = <<active>> ELSE LastCfg = active

ParkInv == Signals /\ FlashSafe /\ Parking

BoardInv ==
    /\ BoardType /\ Reported /\ Follows /\ Decided
    /\ Named /\ (live = active.name \/ "shell" \in excuses) /\ Kept

IInv == WireInv /\ ParkInv /\ BoardInv

-----------------------------------------------------------------------------
(* Arithmetic *)

LEMMA Divide ==
    ASSUME NEW a \in Int, NEW n \in Nat \ {0}
    PROVE  \E q \in Int, r \in 0 .. n - 1 : a = n * q + r /\ a % n = r
  <1>1. a \div n \in Int  OBVIOUS
  <1>2. a % n \in 0 .. n - 1  OBVIOUS
  <1>3. a = n * (a \div n) + (a % n)  OBVIOUS
  <1>4. \A q \in Int, r \in 0 .. n - 1 :
           a = n * q + r /\ a % n = r => \E q1 \in Int, r1 \in 0 .. n - 1 : a = n * q1 + r1 /\ a % n = r1
    OBVIOUS
  <1>. QED  BY <1>1, <1>2, <1>3, <1>4, Zenon

LEMMA Remainder ==
    ASSUME NEW n \in Nat \ {0}, NEW q \in Int, NEW r \in 0 .. n - 1
    PROVE  (n * q + r) % n = r
  OBVIOUS

\* An index that wraps where w is a multiple of n leads to the same of n slots.
LEMMA WrapIsHarmless ==
    ASSUME NEW n \in Nat \ {0}, NEW w \in Nat \ {0}, w % n = 0, NEW a \in Int
    PROVE  (a % w) % n = a % n
  <1>1. PICK k \in Int : w = n * k  BY Divide
  <1>2. PICK q \in Int, s \in 0 .. w - 1 : a = w * q + s /\ a % w = s  BY Divide
  <1>3. PICK p \in Int, r \in 0 .. n - 1 : s = n * p + r /\ s % n = r  BY Divide, s \in Int
  <1>4. k * q + p \in Int /\ w * q = n * (k * q)  BY <1>1
  <1>5. a = n * (k * q + p) + r  BY <1>2, <1>3, <1>4
  <1>6. (n * (k * q + p) + r) % n = r  BY <1>4, Remainder
  <1>. QED  BY <1>2, <1>3, <1>5, <1>6

\* Fewer than n indices in a row lead to different slots.
LEMMA SlotsDiffer ==
    ASSUME NEW n \in Nat \ {0}, NEW a \in Int, NEW b \in Int, a < b, b < a + n
    PROVE  a % n # b % n
  <1>. SUFFICES ASSUME a % n = b % n  PROVE FALSE  OBVIOUS
  <1>1. PICK p \in Int, r \in 0 .. n - 1 : a = n * p + r /\ a % n = r  BY Divide
  <1>2. PICK q \in Int, s \in 0 .. n - 1 : b = n * q + s /\ b % n = s  BY Divide
  <1>3. b - a = n * (q - p)  BY <1>1, <1>2
  <1>4. q - p >= 1 \/ q - p <= 0  OBVIOUS
  <1>. QED  BY <1>3, <1>4

LEMMA AddAfter ==
    ASSUME NEW n \in Nat \ {0}, NEW a \in Int, NEW b \in Int
    PROVE  ((a % n) + b) % n = (a + b) % n
  <1>1. PICK p \in Int, s \in 0 .. n - 1 : a = n * p + s /\ a % n = s  BY Divide
  <1>2. PICK q \in Int, r \in 0 .. n - 1 : s + b = n * q + r /\ (s + b) % n = r
    BY Divide, s + b \in Int
  <1>3. a + b = n * (p + q) + r  BY <1>1, <1>2
  <1>4. (n * (p + q) + r) % n = r  BY Remainder, p + q \in Int
  <1>. QED  BY <1>1, <1>2, <1>3, <1>4

\* The distance from one index to another that has wrapped at most once more.
Between(h, t, w) == IF h >= t THEN h - t ELSE h - t + w

\* The slot that is written next, from where the ring begins and what it holds.
LEMMA Ahead ==
    ASSUME NEW n \in Nat \ {0}, NEW w \in Nat \ {0}, w % n = 0,
           NEW h \in 0 .. w - 1, NEW t \in 0 .. w - 1
    PROVE  h % n = (t + Between(h, t, w)) % n
  <1>1. PICK a \in Int : a = t + Between(h, t, w)  BY DEF Between
  <1>2. a % w = h
    <2>1. CASE h >= t
      <3>1. h % w = h  OBVIOUS
      <3>. QED  BY <1>1, <2>1, <3>1 DEF Between
    <2>2. CASE ~(h >= t)
      <3>1. (w * 1 + h) % w = h  BY Remainder, 1 \in Int
      <3>2. w * 1 + h = a  BY <1>1, <2>2 DEF Between
      <3>. QED  BY <3>1, <3>2
    <2>. QED  BY <2>1, <2>2
  <1>3. (a % w) % n = a % n  BY WrapIsHarmless
  <1>. QED  BY <1>1, <1>2, <1>3

\* An index leads to a slot.
LEMMA ToSlot ==
    ASSUME NEW n \in Nat \ {0}, NEW t \in Nat, NEW i \in Nat
    PROVE  (t + (i - 1)) % n \in 0 .. n - 1
  <1>1. PICK a \in Int : a = t + (i - 1)  OBVIOUS
  <1>2. PICK q \in Int, s \in 0 .. n - 1 : a = n * q + s /\ a % n = s  BY Divide
  <1>. QED  BY <1>1, <1>2

\* Two places of a ring are two slots.
LEMMA TwoSlots ==
    ASSUME NEW n \in Nat \ {0}, NEW t \in Nat, NEW u \in Nat, u < n, NEW i \in 1 .. u
    PROVE  (t + (i - 1)) % n # (t + u) % n
  <1>1. PICK a \in Int : a = t + (i - 1)  OBVIOUS
  <1>2. PICK b \in Int : b = t + u  OBVIOUS
  <1>3. a < b /\ b < a + n  BY <1>1, <1>2
  <1>4. a % n # b % n  BY <1>3, SlotsDiffer
  <1>. QED  BY <1>1, <1>2, <1>4

\* The distance between two indices, one of which moves.
LEMMA OneMore ==
    ASSUME NEW w \in Nat \ {0}, NEW h \in 0 .. w - 1, NEW t \in 0 .. w - 1, NEW u \in Nat,
           u = IF h >= t THEN h - t ELSE h - t + w, NEW k, k = IF h + 1 = w THEN 0 ELSE h + 1,
           u + 1 < w
    PROVE  u + 1 = IF k >= t THEN k - t ELSE k - t + w
  OBVIOUS

LEMMA OneLess ==
    ASSUME NEW w \in Nat \ {0}, NEW h \in 0 .. w - 1, NEW t \in 0 .. w - 1, NEW u \in Nat,
           u = IF h >= t THEN h - t ELSE h - t + w, NEW k, k = IF t + 1 = w THEN 0 ELSE t + 1,
           u > 0
    PROVE  u - 1 = IF h >= k THEN h - k ELSE h - k + w
  OBVIOUS

-----------------------------------------------------------------------------
(* The rings *)

\* The indices of a ring, without the remainder.
LEMMA Indices ==
    ASSUME NEW n \in Nat \ {0}, NEW r \in RingType(n)
    PROVE  /\ r.head \in 0 .. Wrap - 1 /\ r.tail \in 0 .. Wrap - 1 /\ Used(r) \in 0 .. Wrap - 1
           /\ r.slots \in [0 .. n - 1 -> FrameType]
           /\ Used(r) = IF r.head >= r.tail THEN r.head - r.tail ELSE r.head - r.tail + Wrap
  <1>1. r.head \in 0 .. Wrap - 1 /\ r.tail \in 0 .. Wrap - 1 /\ r.slots \in [0 .. n - 1 -> FrameType]
    BY DEF RingType
  <1>2. Wrap \in Nat \ {0}  BY SlotsDivide
  <1>3. CASE r.head >= r.tail
    <2>1. r.head - r.tail \in 0 .. Wrap - 1 /\ r.head - r.tail + Wrap = Wrap * 1 + (r.head - r.tail)
      BY <1>1, <1>2, <1>3
    <2>2. (Wrap * 1 + (r.head - r.tail)) % Wrap = r.head - r.tail  BY <1>2, <2>1, Remainder
    <2>. QED  BY <1>1, <1>3, <2>1, <2>2 DEF Used
  <1>4. CASE ~(r.head >= r.tail)
    <2>1. r.head - r.tail + Wrap \in 0 .. Wrap - 1  BY <1>1, <1>2, <1>4
    <2>2. (Wrap * 0 + (r.head - r.tail + Wrap)) % Wrap = r.head - r.tail + Wrap
      BY <1>2, <2>1, Remainder
    <2>3. Wrap * 0 + (r.head - r.tail + Wrap) = r.head - r.tail + Wrap  BY <1>2, <2>1
    <2>. QED  BY <1>1, <1>4, <2>1, <2>2, <2>3 DEF Used
  <1>. QED  BY <1>3, <1>4

LEMMA Next1 ==
    ASSUME NEW i \in 0 .. Wrap - 1
    PROVE  (i + 1) % Wrap = IF i + 1 = Wrap THEN 0 ELSE i + 1
  <1>1. Wrap \in Nat \ {0}  BY SlotsDivide
  <1>2. CASE i + 1 = Wrap
    <2>1. (Wrap * 1 + 0) % Wrap = 0  BY <1>1, Remainder
    <2>. QED  BY <1>1, <1>2, <2>1
  <1>3. CASE i + 1 # Wrap
    <2>1. (Wrap * 0 + (i + 1)) % Wrap = i + 1  BY <1>1, <1>3, Remainder, i + 1 \in 0 .. Wrap - 1
    <2>2. Wrap * 0 + (i + 1) = i + 1  BY <1>1
    <2>. QED  BY <1>3, <2>1, <2>2
  <1>. QED  BY <1>2, <1>3

LEMMA ContentType ==
    ASSUME NEW n \in Nat \ {0}, NEW r \in RingType(n)
    PROVE  Content(r, n) \in Seq(FrameType) /\ Len(Content(r, n)) = Used(r)
  <1>1. Used(r) \in Nat /\ r.tail \in Nat /\ r.slots \in [0 .. n - 1 -> FrameType]
    BY Indices, SlotsDivide
  <1>2. ASSUME NEW i \in 1 .. Used(r)  PROVE r.slots[(r.tail + (i - 1)) % n] \in FrameType
    <2>1. (r.tail + (i - 1)) % n \in 0 .. n - 1  BY <1>1, ToSlot, i \in Nat
    <2>. QED  BY <1>1, <2>1
  <1>3. Content(r, n) \in [1 .. Used(r) -> FrameType]  BY <1>2, Zenon DEF Content
  <1>. QED  BY <1>1, <1>3

LEMMA PushRing ==
    ASSUME NEW n \in Nat \ {0}, Wrap % n = 0, Wrap > n,
           NEW r \in RingType(n), Used(r) < n, NEW f \in FrameType
    PROVE  /\ Push(r, n, f) \in RingType(n) /\ Used(Push(r, n, f)) = Used(r) + 1
           /\ Content(Push(r, n, f), n) = Append(Content(r, n), f)
  <1>1. PICK h \in 0 .. Wrap - 1, t \in 0 .. Wrap - 1, z \in [0 .. n - 1 -> FrameType] :
           r = [slots |-> z, head |-> h, tail |-> t]
    BY DEF RingType
  <1>2. Wrap \in Nat \ {0}  BY SlotsDivide
  <1>3. PICK u \in Nat : u = Used(r)  BY Indices, <1>2
  <1>4. u = IF h >= t THEN h - t ELSE h - t + Wrap  BY <1>1, <1>3, Indices
  <1>5. PICK k \in 0 .. Wrap - 1 : k = (h + 1) % Wrap /\ k = IF h + 1 = Wrap THEN 0 ELSE h + 1
    BY <1>2, Next1
  <1>6. PICK m \in 0 .. n - 1 : m = h % n  OBVIOUS
  <1>7. PICK p : p = Push(r, n, f)  OBVIOUS
  <1>8. p = [slots |-> [z EXCEPT ![m] = f], head |-> k, tail |-> t]
    BY <1>1, <1>5, <1>6, <1>7 DEF Push
  <1>9. p \in RingType(n) /\ p.head = k /\ p.tail = t /\ p.slots = [z EXCEPT ![m] = f]
    BY <1>8 DEF RingType
  <1>10. Used(p) = u + 1
    <2>1. Used(p) = IF k >= t THEN k - t ELSE k - t + Wrap  BY <1>9, Indices
    <2>2. u + 1 < Wrap  BY <1>2, <1>3
    <2>. QED  BY <1>2, <1>4, <1>5, <2>1, <2>2, OneMore
  <1>11. m = (t + u) % n
    <2>1. h % n = (t + Between(h, t, Wrap)) % n  BY <1>2, Ahead
    <2>2. Between(h, t, Wrap) = u  BY <1>4 DEF Between
    <2>. QED  BY <1>6, <2>1, <2>2
  <1>12. Content(r, n) \in Seq(FrameType) /\ Len(Content(r, n)) = u  BY <1>3, ContentType
  <1>13. ASSUME NEW i \in 1 .. u + 1
         PROVE  Content(p, n)[i] = Append(Content(r, n), f)[i]
    <2>1. Content(p, n)[i] = p.slots[(t + (i - 1)) % n]  BY <1>9, <1>10 DEF Content
    <2>2. CASE i = u + 1
      <3>1. t + (i - 1) = t + u  BY <2>2
      <3>2. Content(p, n)[i] = f  BY <1>9, <1>11, <2>1, <3>1
      <3>. QED  BY <1>12, <2>2, <3>2
    <2>3. CASE i # u + 1
      <3>1. i \in 1 .. u /\ i \in Nat  BY <2>3
      <3>2. (t + (i - 1)) % n # m
        <4>1. t \in Nat /\ u < n  BY <1>3
        <4>2. (t + (i - 1)) % n # (t + u) % n  BY <3>1, <4>1, TwoSlots
        <4>. QED  BY <1>11, <4>2
      <3>3. (t + (i - 1)) % n \in 0 .. n - 1  BY <3>1, ToSlot, t \in Nat
      <3>4. PICK j \in 0 .. n - 1 : j = (t + (i - 1)) % n  BY <3>3
      <3>5. Content(p, n)[i] = z[j]  BY <1>9, <2>1, <3>2, <3>4
      <3>6. Content(r, n)[i] = z[j]  BY <1>1, <1>3, <3>1, <3>4 DEF Content
      <3>. QED  BY <1>12, <3>1, <3>5, <3>6
    <2>. QED  BY <2>2, <2>3
  <1>14. Content(p, n) \in Seq(FrameType) /\ Len(Content(p, n)) = u + 1  BY <1>9, <1>10, ContentType
  <1>15. Append(Content(r, n), f) \in Seq(FrameType) /\ Len(Append(Content(r, n), f)) = u + 1
    BY <1>12
  <1>16. Content(p, n) = Append(Content(r, n), f)  BY <1>13, <1>14, <1>15, SeqEqual
  <1>. QED  BY <1>3, <1>7, <1>9, <1>10, <1>16

LEMMA ReleaseRing ==
    ASSUME NEW n \in Nat \ {0}, Wrap % n = 0, Wrap > n, NEW r \in RingType(n), Used(r) > 0
    PROVE  /\ Release(r) \in RingType(n) /\ Used(Release(r)) = Used(r) - 1
           /\ Content(r, n) # <<>> /\ Front(r, n) = Head(Content(r, n))
           /\ Content(Release(r), n) = Tail(Content(r, n))
  <1>1. PICK h \in 0 .. Wrap - 1, t \in 0 .. Wrap - 1, z \in [0 .. n - 1 -> FrameType] :
           r = [slots |-> z, head |-> h, tail |-> t]
    BY DEF RingType
  <1>2. Wrap \in Nat \ {0}  BY SlotsDivide
  <1>3. PICK u \in Nat : u = Used(r)  BY Indices, <1>2
  <1>4. u = IF h >= t THEN h - t ELSE h - t + Wrap  BY <1>1, <1>3, Indices
  <1>5. PICK k \in 0 .. Wrap - 1 : k = (t + 1) % Wrap /\ k = IF t + 1 = Wrap THEN 0 ELSE t + 1
    BY <1>2, Next1
  <1>6. PICK p : p = Release(r)  OBVIOUS
  <1>7. p = [slots |-> z, head |-> h, tail |-> k]  BY <1>1, <1>5, <1>6 DEF Release
  <1>8. p \in RingType(n) /\ p.head = h /\ p.tail = k /\ p.slots = z  BY <1>7 DEF RingType
  <1>9. Used(p) = u - 1
    <2>1. Used(p) = IF h >= k THEN h - k ELSE h - k + Wrap  BY <1>8, Indices
    <2>. QED  BY <1>2, <1>3, <1>4, <1>5, <2>1, OneLess
  <1>10. Content(r, n) \in Seq(FrameType) /\ Len(Content(r, n)) = u  BY <1>3, ContentType
  <1>11. Front(r, n) = Head(Content(r, n)) /\ Content(r, n) # <<>>
    <2>1. Content(r, n)[1] = z[(t + (1 - 1)) % n]  BY <1>1, <1>3 DEF Content
    <2>2. t + (1 - 1) = t  OBVIOUS
    <2>3. Front(r, n) = z[t % n]  BY <1>1 DEF Front
    <2>. QED  BY <1>3, <1>10, <2>1, <2>2, <2>3
  <1>12. ASSUME NEW i \in 1 .. u - 1
         PROVE  Content(p, n)[i] = Tail(Content(r, n))[i]
    <2>1. Content(p, n)[i] = z[(((t + 1) % Wrap) + (i - 1)) % n]  BY <1>5, <1>8, <1>9 DEF Content
    <2>2. (((t + 1) % Wrap) + (i - 1)) % n = (t + ((i + 1) - 1)) % n
      <3>1. PICK a \in Int : a = t + 1  OBVIOUS
      <3>2. PICK b \in Int : b = i - 1  OBVIOUS
      <3>3. PICK c \in Int : c = a % Wrap  BY <1>5, <3>1
      <3>4. c % n = a % n  BY <1>2, <3>3, WrapIsHarmless
      <3>5. ((c % n) + b) % n = (c + b) % n  BY AddAfter
      <3>6. ((a % n) + b) % n = (a + b) % n  BY AddAfter
      <3>7. a + b = t + ((i + 1) - 1)  BY <3>1, <3>2
      <3>. QED  BY <3>1, <3>2, <3>3, <3>4, <3>5, <3>6, <3>7
    <2>3. Content(r, n)[i + 1] = z[(t + ((i + 1) - 1)) % n]  BY <1>1, <1>3 DEF Content
    <2>4. Tail(Content(r, n))[i] = Content(r, n)[i + 1]  BY <1>3, <1>10, <1>11
    <2>. QED  BY <2>1, <2>2, <2>3, <2>4
  <1>13. Content(p, n) \in Seq(FrameType) /\ Len(Content(p, n)) = u - 1  BY <1>8, <1>9, ContentType
  <1>14. Tail(Content(r, n)) \in Seq(FrameType) /\ Len(Tail(Content(r, n))) = u - 1
    BY <1>3, <1>10, <1>11
  <1>15. Content(p, n) = Tail(Content(r, n))  BY <1>12, <1>13, <1>14, SeqEqual
  <1>. QED  BY <1>3, <1>6, <1>8, <1>9, <1>11, <1>15

-----------------------------------------------------------------------------
(* Frames in their turn *)

LEMMA FrameTypes ==
    /\ NoFrame \in FrameType /\ Quiet \in FrameType /\ NoFrame.id = 0 /\ Quiet.id = 0
    /\ Us # Peer /\ Us # None /\ Peer # None
    /\ \A f \in FrameType : ~(Ours(f) /\ Theirs(f)) /\ f.id \in Nat
  BY NodesDiffer DEF FrameType, Frame, NoFrame, Quiet, Stations, Ours, Theirs, None, Broadcast

LEMMA FirstHeard ==
    ASSUME NEW h \in Seq(FrameType), NEW l \in Seq(FrameType), NEW e \in Nat, l # <<>>, Ordered(h, l, e)
    PROVE  /\ Ordered(h, Tail(l), e)
           /\ ~Ours(Head(l)) => Ordered(Append(h, Head(l)), Tail(l), e)
  <1>1. /\ Len(l) \in Nat /\ Len(l) > 0 /\ Tail(l) \in Seq(FrameType) /\ Len(Tail(l)) = Len(l) - 1
        /\ Head(l) = l[1] /\ \A i \in 1 .. Len(l) - 1 : Tail(l)[i] = l[i + 1]
    OBVIOUS
  <1>2. Ordered(h, Tail(l), e)
    <2>1. PICK t \in Seq(FrameType) : t = Tail(l)  BY <1>1
    <2>2. \A i \in 1 .. Len(t) : i + 1 \in 1 .. Len(l) /\ t[i] = l[i + 1]  BY <1>1, <2>1
    <2>3. \A i, j \in 1 .. Len(t) : i < j => i + 1 < j + 1  OBVIOUS
    <2>4. Ordered(h, t, e)  BY <2>2, <2>3 DEF Ordered
    <2>. QED  BY <2>1, <2>4
  <1>3. ASSUME ~Ours(l[1])  PROVE Ordered(Append(h, l[1]), Tail(l), e)
    <2>1. l[1] \in FrameType /\ 1 \in 1 .. Len(l)  BY <1>1
    <2>2. l[1].id = 0 \/ Theirs(l[1])  BY <1>3, <2>1, FrameTypes DEF Ordered
    <2>3. PICK g \in Seq(FrameType) : g = Append(h, l[1])  BY <2>1, AppendProperties
    <2>4. /\ Len(g) = Len(h) + 1 /\ Len(h) \in Nat /\ g[Len(h) + 1] = l[1]
          /\ \A i \in 1 .. Len(h) : g[i] = h[i]
      BY <2>1, <2>3
    <2>5. \A i \in 1 .. Len(g) : g[i].id <= e
      BY <2>1, <2>2, <2>4 DEF Ordered
    <2>6. ASSUME NEW i \in 1 .. Len(g), NEW j \in 1 .. Len(g), i < j, g[j].id > 0
          PROVE  g[i].id < g[j].id
      <3>1. CASE j = Len(h) + 1
        <4>1. i \in 1 .. Len(h) /\ Theirs(l[1])  BY <2>2, <2>4, <2>6, <3>1
        <4>. QED  BY <2>1, <2>4, <3>1, <4>1 DEF Ordered
      <3>2. CASE j # Len(h) + 1
        <4>1. i \in 1 .. Len(h) /\ j \in 1 .. Len(h)  BY <2>4, <2>6, <3>2
        <4>. QED  BY <2>4, <2>6, <4>1 DEF Ordered
      <3>. QED  BY <3>1, <3>2
    <2>7. ASSUME NEW i \in 1 .. Len(g), NEW j \in 1 .. Len(l) - 1, Theirs(l[j + 1])
          PROVE  g[i].id < l[j + 1].id
      <3>1. j + 1 \in 1 .. Len(l) /\ 1 < j + 1  BY <1>1
      <3>2. CASE i = Len(h) + 1
        <4>1. l[j + 1] \in FrameType /\ l[j + 1].id \in Nat /\ l[j + 1].id > 0
          BY <2>7, <3>1, FrameTypes DEF Theirs
        <4>. QED  BY <2>1, <2>2, <2>4, <2>7, <3>1, <3>2, <4>1 DEF Ordered
      <3>3. CASE i # Len(h) + 1
        <4>1. i \in 1 .. Len(h)  BY <2>4, <3>3
        <4>. QED  BY <2>4, <2>7, <3>1, <4>1 DEF Ordered
      <3>. QED  BY <3>2, <3>3
    <2>8. Ordered(g, Tail(l), e)  BY <1>1, <1>2, <2>5, <2>6, <2>7 DEF Ordered
    <2>. QED  BY <2>3, <2>8
  <1>. QED  BY <1>1, <1>2, <1>3

\* One fewer of what was heard.
LEMMA FewerHeard ==
    ASSUME NEW h \in Seq(FrameType), NEW g \in Seq(FrameType), NEW l, NEW e, Ordered(h, l, e),
           NEW k \in Nat, Len(g) = Len(h) - 1,
           \A i \in 1 .. Len(g) : g[i] = IF i <= k THEN h[i] ELSE h[i + 1]
    PROVE  Ordered(g, l, e)
  <1>1. \A i \in 1 .. Len(g) : i \in 1 .. Len(h) /\ i + 1 \in 1 .. Len(h)  OBVIOUS
  <1>2. \A i \in 1 .. Len(g) : g[i].id <= e  BY <1>1 DEF Ordered
  <1>3. ASSUME NEW i \in 1 .. Len(g), NEW j \in 1 .. Len(g), i < j, g[j].id > 0
        PROVE  g[i].id < g[j].id
    <2>1. PICK a \in 1 .. Len(h) : g[i] = h[a] /\ a = IF i <= k THEN i ELSE i + 1  BY <1>1
    <2>2. PICK b \in 1 .. Len(h) : g[j] = h[b] /\ b = IF j <= k THEN j ELSE j + 1  BY <1>1
    <2>3. a < b  BY <1>3, <2>1, <2>2
    <2>. QED  BY <1>3, <2>1, <2>2, <2>3 DEF Ordered
  <1>4. ASSUME NEW i \in 1 .. Len(g), NEW j \in 1 .. Len(l), Theirs(l[j])  PROVE g[i].id < l[j].id
    <2>1. PICK a \in 1 .. Len(h) : g[i] = h[a]  BY <1>1
    <2>. QED  BY <1>4, <2>1 DEF Ordered
  <1>. QED  BY <1>2, <1>3, <1>4 DEF Ordered

LEMMA Later ==
    ASSUME NEW h \in Seq(FrameType), NEW l \in Seq(FrameType), NEW e \in Nat, Ordered(h, l, e),
           NEW d \in Nat, e <= d
    PROVE  Ordered(h, l, d)
  <1>1. /\ \A i \in 1 .. Len(l) : l[i] \in FrameType /\ l[i].id \in Nat
        /\ \A i \in 1 .. Len(h) : h[i] \in FrameType /\ h[i].id \in Nat
    BY FrameTypes
  <1>2. \A i \in 1 .. Len(l) : Theirs(l[i]) => l[i].id <= d  BY <1>1 DEF Ordered
  <1>3. \A i \in 1 .. Len(h) : h[i].id <= d  BY <1>1 DEF Ordered
  <1>. QED  BY <1>2, <1>3 DEF Ordered

\* Sequences of frames, put together and taken apart.
LEMMA HeadAndTail ==
    ASSUME NEW b \in Seq(FrameType), b # <<>>
    PROVE  Head(b) \in FrameType /\ Tail(b) \in Seq(FrameType) /\ <<Head(b)>> \o Tail(b) = b
  <1>1. 1 \in 1 .. Len(b) /\ Len(b) \in 1 .. Len(b) /\ Head(b) = b[1] /\ 1 + 1 = 2  OBVIOUS
  <1>2. SubSeq(b, 1, Len(b)) = <<b[1]>> \o SubSeq(b, 2, Len(b))  BY <1>1, SubSeqRecursiveFirst
  <1>3. SubSeq(b, 1, Len(b)) = b /\ Tail(b) = SubSeq(b, 2, Len(b))  BY SubSeqFull, TailIsSubSeq
  <1>. QED  BY <1>1, <1>2, <1>3, HeadTailProperties

LEMMA MoveOne ==
    ASSUME NEW a \in Seq(FrameType), NEW b \in Seq(FrameType), b # <<>>
    PROVE  Append(a, Head(b)) \o Tail(b) = a \o b
  <1>1. PICK f \in FrameType, t \in Seq(FrameType) : f = Head(b) /\ t = Tail(b) /\ <<f>> \o t = b
    BY HeadAndTail
  <1>2. <<f>> \in Seq(FrameType)  OBVIOUS
  <1>3. Append(a, f) = a \o <<f>>  BY AppendIsConcat
  <1>4. (a \o <<f>>) \o t = a \o (<<f>> \o t)  BY <1>2, ConcatAssociative
  <1>. QED  BY <1>1, <1>3, <1>4

LEMMA DropOne ==
    ASSUME NEW a \in Seq(FrameType), NEW b \in Seq(FrameType), b # <<>>
    PROVE  /\ a \o Tail(b) \in Seq(FrameType) /\ Len(a \o Tail(b)) = Len(a \o b) - 1
           /\ \A i \in 1 .. Len(a \o Tail(b)) :
                 (a \o Tail(b))[i] = IF i <= Len(a) THEN (a \o b)[i] ELSE (a \o b)[i + 1]
  <1>1. PICK t \in Seq(FrameType) : t = Tail(b)  BY HeadAndTail
  <1>2. Len(a) \in Nat /\ Len(t) \in Nat /\ Len(b) = Len(t) + 1
        /\ \A i \in 1 .. Len(t) : t[i] = b[i + 1]
    BY <1>1, HeadTailProperties
  <1>3. /\ a \o t \in Seq(FrameType) /\ Len(a \o t) = Len(a) + Len(t)
        /\ \A i \in 1 .. Len(a) + Len(t) : (a \o t)[i] = IF i <= Len(a) THEN a[i] ELSE t[i - Len(a)]
    BY ConcatProperties
  <1>4. /\ Len(a \o b) = Len(a) + Len(b)
        /\ \A i \in 1 .. Len(a) + Len(b) : (a \o b)[i] = IF i <= Len(a) THEN a[i] ELSE b[i - Len(a)]
    BY ConcatProperties
  <1>5. ASSUME NEW i \in 1 .. Len(a) + Len(t)
        PROVE  (a \o t)[i] = IF i <= Len(a) THEN (a \o b)[i] ELSE (a \o b)[i + 1]
    <2>1. CASE i <= Len(a)  BY <1>2, <1>3, <1>4, <2>1
    <2>2. CASE i > Len(a)
      <3>1. PICK k \in 1 .. Len(t) : k = i - Len(a)
        <4>1. PICK x \in Nat, y \in Nat : x = Len(a) /\ y = Len(t)  BY <1>2
        <4>2. i \in 1 .. x + y /\ i > x  BY <2>2, <4>1
        <4>3. i - x \in 1 .. y  BY <4>2
        <4>. QED  BY <4>1, <4>3
      <3>2. PICK j \in 1 .. Len(a) + Len(b) : j = i + 1 /\ j - Len(a) = k + 1  BY <1>2, <3>1
      <3>3. (a \o t)[i] = t[k] /\ (a \o b)[j] = b[k + 1]  BY <1>2, <1>3, <1>4, <2>2, <3>1, <3>2
      <3>. QED  BY <1>2, <2>2, <3>2, <3>3
    <2>. QED  BY <1>2, <2>1, <2>2
  <1>. QED  BY <1>1, <1>2, <1>3, <1>4, <1>5

LEMMA DropFirst ==
    ASSUME NEW a \in Seq(FrameType), NEW b \in Seq(FrameType), a # <<>>
    PROVE  Tail(a) \o b = Tail(a \o b) /\ a \o b # <<>>
  <1>1. PICK f \in FrameType, t \in Seq(FrameType) : f = Head(a) /\ t = Tail(a) /\ <<f>> \o t = a
    BY HeadAndTail
  <1>2. (<<f>> \o t) \o b = <<f>> \o (t \o b)  BY ConcatAssociative, <<f>> \in Seq(FrameType)
  <1>3. PICK u \in Seq(FrameType) : u = t \o b  BY ConcatProperties
  <1>4. Tail(<<f>> \o u) = u /\ <<f>> \o u # <<>>  OBVIOUS
  <1>. QED  BY <1>1, <1>2, <1>3, <1>4

\* More on the line: what is not the other node's, or the next of its frames.
LEMMA MoreToHear ==
    ASSUME NEW h \in Seq(FrameType), NEW l \in Seq(FrameType), NEW e \in Nat, Ordered(h, l, e),
           NEW f \in FrameType, NEW d \in Nat, e <= d,
           \/ f.id = 0 \/ Ours(f)
           \/ f.src = Peer /\ f.id = e + 1 /\ d = e + 1
    PROVE  Ordered(h, l \o <<f, Quiet>>, d)
  <1>1. PICK m \in Seq(FrameType) : m = l \o <<f, Quiet>>
    BY FrameTypes, ConcatProperties, <<f, Quiet>> \in Seq(FrameType)
  <1>2. /\ Len(l) \in Nat /\ Len(m) = Len(l) + 2 /\ m[Len(l) + 1] = f /\ m[Len(l) + 2] = Quiet
        /\ \A i \in 1 .. Len(l) : m[i] = l[i]
    BY <1>1, FrameTypes
  <1>3. /\ ~Theirs(Quiet) /\ Quiet.id = 0 /\ ~(Ours(f) /\ Theirs(f))
        /\ Theirs(f) => f.id = e + 1 /\ d = e + 1
    BY FrameTypes DEF Theirs, Ours
  <1>4. ASSUME NEW i \in 1 .. Len(m)
        PROVE  \/ i \in 1 .. Len(l) /\ m[i] = l[i]
               \/ i = Len(l) + 1 /\ m[i] = f
               \/ i = Len(l) + 2 /\ m[i] = Quiet
    <2>1. i \in 1 .. Len(l) \/ i = Len(l) + 1 \/ i = Len(l) + 2  BY <1>2
    <2>. QED  BY <1>2, <2>1
  <1>5. \A i \in 1 .. Len(l) : l[i] \in FrameType /\ l[i].id \in Nat  BY FrameTypes
  <1>6. \A i \in 1 .. Len(h) : h[i] \in FrameType /\ h[i].id \in Nat  BY FrameTypes
  <1>7. f.id \in Nat /\ (f.id > 0 => Ours(f) \/ Theirs(f))  BY FrameTypes DEF Theirs
  <1>8. \A i \in 1 .. Len(m) : /\ m[i].id > 0 => Ours(m[i]) \/ Theirs(m[i])
                               /\ Theirs(m[i]) => m[i].id <= d
    <2>1. ASSUME NEW i \in 1 .. Len(l)
          PROVE  (l[i].id > 0 => Ours(l[i]) \/ Theirs(l[i])) /\ (Theirs(l[i]) => l[i].id <= d)
      BY <1>5 DEF Ordered
    <2>2. Theirs(f) => f.id <= d  BY <1>3
    <2>3. ASSUME NEW i \in 1 .. Len(m)
          PROVE  (m[i].id > 0 => Ours(m[i]) \/ Theirs(m[i])) /\ (Theirs(m[i]) => m[i].id <= d)
      <3>1. CASE i \in 1 .. Len(l) /\ m[i] = l[i]  BY <2>1, <3>1
      <3>2. CASE m[i] = f  BY <1>7, <2>2, <3>2
      <3>3. CASE m[i] = Quiet  BY <1>3, <3>3
      <3>. QED  BY <1>4, <3>1, <3>2, <3>3
    <2>. QED  BY <2>3
  <1>9. ASSUME NEW i \in 1 .. Len(m), NEW j \in 1 .. Len(m), i < j, Theirs(m[i]), Theirs(m[j])
        PROVE  m[i].id < m[j].id
    <2>1. i # Len(l) + 2 /\ j # Len(l) + 2  BY <1>2, <1>3, <1>9
    <2>2. i \in 1 .. Len(l)  BY <1>2, <1>9, <2>1
    <2>3. CASE j \in 1 .. Len(l)  BY <1>2, <1>9, <2>2, <2>3 DEF Ordered
    <2>4. CASE j = Len(l) + 1
      <3>1. f.id = e + 1 /\ l[i].id <= e /\ l[i].id \in Nat
        BY <1>2, <1>3, <1>5, <1>9, <2>2, <2>4 DEF Ordered
      <3>2. m[i] = l[i] /\ m[j] = f  BY <1>2, <2>2, <2>4
      <3>. QED  BY <3>1, <3>2
    <2>. QED  BY <1>4, <2>1, <2>3, <2>4
  <1>10. ASSUME NEW i \in 1 .. Len(h), NEW j \in 1 .. Len(m), Theirs(m[j])  PROVE h[i].id < m[j].id
    <2>1. j # Len(l) + 2  BY <1>2, <1>3, <1>10
    <2>2. CASE j \in 1 .. Len(l)  BY <1>2, <1>10, <2>2 DEF Ordered
    <2>3. CASE j = Len(l) + 1
      <3>1. f.id = e + 1 /\ h[i].id <= e /\ h[i].id \in Nat
        BY <1>2, <1>3, <1>6, <1>10, <2>3 DEF Ordered
      <3>. QED  BY <1>2, <2>3, <3>1
    <2>. QED  BY <1>4, <2>1, <2>2, <2>3
  <1>11. Ordered(h, m, d)  BY <1>6, <1>8, <1>9, <1>10 DEF Ordered
  <1>. QED  BY <1>1, <1>11

-----------------------------------------------------------------------------
(* Core 1 *)

wireVars == <<wire, events>>

LEMMA BoardKept ==
    ASSUME IInv, UNCHANGED core0  PROVE BoardInv'
  BY DEF IInv, BoardInv, BoardType, Reported, Follows, Decided, Deciding, Named, Kept, LastCfg, Unsaved,
         core0, names, jobs

\* What Init and a restart make of a ring.
LEMMA EmptyRing ==
    ASSUME NEW n \in Nat \ {0}
    PROVE  Ring(n) \in RingType(n) /\ Used(Ring(n)) = 0
  <1>1. Wrap \in Nat \ {0}  BY SlotsDivide
  <1>2. Ring(n) \in RingType(n)  BY <1>1, FrameTypes DEF Ring, RingType
  <1>3. Ring(n).head = 0 /\ Ring(n).tail = 0  BY DEF Ring
  <1>. QED  BY <1>2, <1>3, Indices

\* Core 1 looks at the flags, spins, and goes on.
LEMMA Spins ==
    ASSUME IInv, ReadFlags \/ Unpark \/ ClearParked, UNCHANGED <<core0, events>>
    PROVE  WireInv' /\ ParkInv'
  <1>1. WireType /\ core1 \in Core1Type  BY DEF IInv, WireInv, WireType
  <1>2. /\ UNCHANGED <<line, rx, node, tx, submitted, gone, stackRx, events, core0>>
        /\ core1'.pending = core1.pending /\ core1'.asked = core1.asked
        /\ core1' \in Core1Type
        /\ core1'.pc \in {"work", "parked", "leaving"}
        /\ flags' \subseteq {"NODE_UPDATED", "PARK_REQUEST", "PARKED"}
    <2>1. CASE ReadFlags
      <3>1. CASE "PARK_REQUEST" \in flags
        <4>1. \/ core1' = [Becomes("parked") EXCEPT !.seen = TRUE]
              \/ core1' = [Becomes("parked") EXCEPT !.seen = FALSE]
          <5>1. CASE "NODE_UPDATED" \in flags  BY <2>1, <3>1, <5>1 DEF ReadFlags
          <5>2. CASE "NODE_UPDATED" \notin flags  BY <2>1, <3>1, <5>2 DEF ReadFlags
          <5>. QED  BY <5>1, <5>2
        <4>2. PICK b \in BOOLEAN : core1' = [core1 EXCEPT !.pc = "parked", !.seen = b]
          BY <1>1, <4>1 DEF Becomes, Core1Type
        <4>. QED  BY <1>1, <2>1, <3>1, <4>2 DEF ReadFlags, Core1Type, WireType, queue
      <3>2. CASE "PARK_REQUEST" \notin flags
        BY <1>1, <2>1, <3>2 DEF ReadFlags, Becomes, Core1Type, WireType, queue
      <3>. QED  BY <3>1, <3>2
    <2>2. CASE Unpark
      BY <1>1, <2>2 DEF Unpark, Becomes, Core1Type, WireType, queue, signals
    <2>3. CASE ClearParked
      BY <1>1, <2>3 DEF ClearParked, Becomes, Core1Type, WireType, queue
    <2>. QED  BY <2>1, <2>2, <2>3
  <1>3. WireType'  BY <1>1, <1>2 DEF WireType
  <1>4. Numbered'  BY <1>2 DEF IInv, WireInv, Numbered
  <1>5. core1.pc \in {"top", "work", "parked", "leaving"}
    BY DEF ReadFlags, NothingToDo, Unpark, ClearParked
  <1>6. Asked'  BY <1>2, <1>5 DEF IInv, WireInv, Asked
  <1>7. InTurn'  BY <1>2 DEF IInv, WireInv, InTurn, Heard
  <1>8. Echoes' /\ ParkInv'
    <2>1. CASE ReadFlags
      <3>1. core1.pc = "top" \/ line = <<>>  BY <2>1 DEF ReadFlags, NothingToDo
      <3>2. CASE "PARK_REQUEST" \in flags
        <4>1. /\ flags' = flags \cup {"PARKED"} /\ core1'.pc = "parked" /\ core1'.node = core1.node
              /\ core1'.seen = ("NODE_UPDATED" \in flags)
          BY <1>1, <2>1, <3>2 DEF ReadFlags, Becomes, Core1Type
        <4>2. Echoes'  BY <1>1, <1>2, <3>1, <4>1 DEF IInv, WireInv, Echoes, ParkInv, Signals, WireType
        <4>3. Signals'  BY <1>2, <4>1 DEF IInv, ParkInv, Signals, core0
        <4>4. FlashSafe' /\ Parking'  BY <1>2, <4>1 DEF IInv, ParkInv, FlashSafe, Parking, core0
        <4>. QED  BY <4>2, <4>3, <4>4 DEF ParkInv
      <3>3. CASE "PARK_REQUEST" \notin flags
        <4>1. /\ flags' = flags \ {"NODE_UPDATED"} /\ core1'.pc = "work"
              /\ core1'.node = (IF "NODE_UPDATED" \in flags THEN node ELSE core1.node)
              /\ core1'.seen = core1.seen
          BY <1>1, <2>1, <3>3 DEF ReadFlags, Becomes, Core1Type
        <4>2. core1.seen = FALSE
          BY <1>1, <2>1 DEF ReadFlags, NothingToDo, IInv, ParkInv, Signals, Core1Type
        <4>3. Echoes'  BY <1>1, <1>2, <3>1, <4>1 DEF IInv, WireInv, Echoes, ParkInv, Signals, WireType
        <4>4. Signals'  BY <1>2, <2>1, <4>1, <4>2 DEF ReadFlags, NothingToDo, IInv, ParkInv, Signals, core0
        <4>5. save.owner = None /\ save.step = None  BY <3>3 DEF IInv, ParkInv, Signals
        <4>6. FlashSafe' /\ Parking'  BY <1>2, <4>1, <4>5 DEF FlashSafe, Parking, core0, None
        <4>. QED  BY <4>3, <4>4, <4>6 DEF ParkInv
      <3>. QED  BY <3>2, <3>3
    <2>2. CASE Unpark
      <3>1. /\ flags' = flags /\ core1.pc = "parked" /\ core1'.pc = "leaving" /\ core1'.node = core1.node
            /\ core1'.seen = core1.seen /\ "PARK_REQUEST" \notin flags
        BY <1>1, <2>2 DEF Unpark, Becomes, Core1Type, signals
      <3>2. Echoes'  BY <1>2, <3>1 DEF IInv, WireInv, Echoes
      <3>3. Signals'  BY <1>2, <3>1 DEF IInv, ParkInv, Signals, core0
      <3>4. FlashSafe' /\ Parking'
        BY <1>2, <3>1 DEF IInv, ParkInv, Signals, FlashSafe, Parking, core0, None
      <3>. QED  BY <3>2, <3>3, <3>4 DEF ParkInv
    <2>3. CASE ClearParked
      <3>1. /\ flags' = flags \ ({"PARKED"} \cup IF core1.seen THEN {"NODE_UPDATED"} ELSE {})
            /\ core1.pc = "leaving" /\ core1'.pc = "work" /\ core1'.seen = FALSE
            /\ core1'.node = IF core1.seen THEN node ELSE core1.node
        BY <1>1, <2>3 DEF ClearParked, Becomes, Core1Type
      <3>2. Echoes'
        BY <1>2, <3>1 DEF IInv, WireInv, Echoes, ParkInv, Signals
      <3>3. Signals'  BY <1>2, <3>1 DEF IInv, ParkInv, Signals, core0
      <3>4. FlashSafe' /\ Parking'
        BY <1>2, <3>1 DEF IInv, ParkInv, Signals, FlashSafe, Parking, core0
      <3>. QED  BY <3>2, <3>3, <3>4 DEF ParkInv
    <2>. QED  BY <2>1, <2>2, <2>3
  <1>. QED  BY <1>3, <1>4, <1>6, <1>7, <1>8 DEF WireInv

LEMMA HeardType ==
    ASSUME WireType
    PROVE  /\ Heard \in Seq(FrameType) /\ Content(rx, RxSlots) \in Seq(FrameType)
           /\ Len(Content(rx, RxSlots)) = Used(rx) /\ Used(rx) \in Nat
  <1>1. RxSlots \in Nat \ {0} /\ rx \in RingType(RxSlots)  BY SlotsDivide DEF WireType
  <1>2. Content(rx, RxSlots) \in Seq(FrameType) /\ Len(Content(rx, RxSlots)) = Used(rx)
    BY <1>1, ContentType
  <1>. QED  BY <1>2, ConcatProperties DEF Heard, WireType

\* A frame goes into the ring, or is lost for want of a slot.
LEMMA PushHeard ==
    ASSUME WireType, NEW f \in FrameType, PushRx(f), UNCHANGED stackRx
    PROVE  /\ rx' \in RingType(RxSlots) /\ Used(rx') <= RxSlots
           /\ Heard' = Heard \/ Heard' = Append(Heard, f)
  <1>1. RxSlots \in Nat \ {0} /\ Wrap % RxSlots = 0 /\ Wrap > RxSlots /\ rx \in RingType(RxSlots)
    BY SlotsDivide DEF WireType
  <1>2. CASE Used(rx) < RxSlots
    <2>1. /\ rx' \in RingType(RxSlots) /\ Used(rx') = Used(rx) + 1
          /\ Content(rx', RxSlots) = Append(Content(rx, RxSlots), f)
      BY <1>1, <1>2, PushRing DEF PushRx
    <2>2. Used(rx') <= RxSlots  BY <1>1, <1>2, <2>1, HeardType
    <2>3. PICK a \in Seq(FrameType), b \in Seq(FrameType) : a = stackRx /\ b = Content(rx, RxSlots)
      BY HeardType DEF WireType
    <2>4. a \o Append(b, f) = Append(a \o b, f)
      <3>1. Append(b, f) = b \o <<f>> /\ Append(a \o b, f) = (a \o b) \o <<f>>
        BY ConcatProperties, AppendIsConcat, a \o b \in Seq(FrameType)
      <3>2. a \o (b \o <<f>>) = (a \o b) \o <<f>>  BY ConcatAssociative, <<f>> \in Seq(FrameType)
      <3>. QED  BY <3>1, <3>2
    <2>. QED  BY <2>1, <2>2, <2>3, <2>4 DEF Heard
  <1>3. CASE ~(Used(rx) < RxSlots)
    <2>1. rx' = rx  BY <1>3 DEF PushRx
    <2>. QED  BY <1>1, <2>1 DEF Heard, WireType
  <1>. QED  BY <1>2, <1>3

\* Core 1 as its loop or its wait for the line leaves it.
Caller(c) ==
    /\ c \in Core1Type /\ c.pending = core1.pending /\ c.node = core1.node
    /\ c.seen = core1.seen /\ c.asked = core1.asked
    /\ c.pc = IF core1.pc = "work" THEN "top" ELSE core1.pc

\* A word of the line is decoded, or the window of a reply closes.
LEMMA Feeds ==
    ASSUME IInv, core1.pc \in {"work", "csma"}, NEW c, Caller(c), Feed(c) \/ ExpirePending(c),
           UNCHANGED <<queue, stackRx, signals, events, core0>>
    PROVE  WireInv' /\ ParkInv'
  <1>1. WireType /\ core1 \in Core1Type /\ core1.pending \in FrameType /\ core1.pending.id = 0
    BY DEF IInv, WireInv, WireType, Core1Type
  <1>2. core1.asked = FALSE /\ core1.seen = FALSE
    BY <1>1 DEF IInv, WireInv, Asked, ParkInv, Signals, Core1Type
  <1>3. UNCHANGED <<tx, submitted, gone, stackRx, flags, node, events, core0>>  BY DEF queue, signals
  <1>4. \A i \in 1 .. Len(line) : Ours(line[i]) => line[i].kind = "data" /\ node = Us /\ core1.node = Us
    BY DEF IInv, WireInv, Echoes
  <1>5. /\ core1' \in Core1Type /\ core1'.pending.id = 0 /\ core1'.node = core1.node
        /\ core1'.seen = FALSE /\ core1'.asked = FALSE
        /\ core1'.pc = IF core1.pc = "work" THEN "top" ELSE core1.pc
        /\ line' \in Seq(FrameType) /\ rx' \in RingType(RxSlots) /\ Used(rx') <= RxSlots
        /\ Ordered(Heard', line', events)
        /\ \A i \in 1 .. Len(line') : Ours(line'[i]) =>
              line'[i].kind = "data" /\ node = Us /\ core1.node = Us
    <2>1. Heard \in Seq(FrameType) /\ line \in Seq(FrameType) /\ events \in Nat
          /\ Ordered(Heard, line, events) /\ rx \in RingType(RxSlots) /\ Used(rx) <= RxSlots
      BY <1>1, HeardType DEF IInv, WireInv, InTurn, WireType
    <2>2. CASE ExpirePending(c)
      <3>1. core1' = [c EXCEPT !.pending = NoFrame] /\ UNCHANGED <<line, rx>>
        BY <2>2 DEF ExpirePending
      <3>2. core1' \in Core1Type /\ core1'.pending.id = 0 /\ core1'.node = core1.node
            /\ core1'.seen = FALSE /\ core1'.asked = FALSE
            /\ core1'.pc = IF core1.pc = "work" THEN "top" ELSE core1.pc
        BY <1>2, <3>1, FrameTypes DEF Caller, Core1Type
      <3>3. Heard' = Heard  BY <1>3, <3>1 DEF Heard
      <3>. QED  BY <1>4, <2>1, <3>1, <3>2, <3>3
    <2>3. CASE Feed(c)
      <3>1. line # <<>>  BY <2>3 DEF Feed
      <3>2. /\ Head(line) \in FrameType /\ Head(line) = line[1] /\ Tail(line) \in Seq(FrameType)
            /\ Len(Tail(line)) = Len(line) - 1 /\ 1 \in 1 .. Len(line)
            /\ \A i \in 1 .. Len(Tail(line)) : Tail(line)[i] = line[i + 1] /\ i + 1 \in 1 .. Len(line)
        BY <2>1, <3>1
      <3>3. \A i \in 1 .. Len(Tail(line)) : Ours(Tail(line)[i]) =>
               Tail(line)[i].kind = "data" /\ node = Us /\ core1.node = Us
        BY <1>4, <3>2
      <3>4. Ordered(Heard, Tail(line), events)  BY <2>1, <3>1, FirstHeard
      <3>5. CASE Head(line) = Quiet
        <4>1. /\ core1' = [c EXCEPT !.pending = NoFrame] /\ UNCHANGED rx
              /\ line' = Tail(line) \/ line' = Tail(line) \o <<core1.pending, Quiet>>
          BY <2>3, <3>5 DEF Feed, SendPending, Caller
        <4>2. core1' \in Core1Type /\ core1'.pending.id = 0 /\ core1'.node = core1.node
              /\ core1'.seen = FALSE /\ core1'.asked = FALSE
              /\ core1'.pc = IF core1.pc = "work" THEN "top" ELSE core1.pc
          BY <1>2, <4>1, FrameTypes DEF Caller, Core1Type
        <4>3. Heard' = Heard  BY <1>3, <4>1 DEF Heard
        <4>4. CASE line' = Tail(line)
          BY <2>1, <3>2, <3>3, <3>4, <4>1, <4>2, <4>3, <4>4
        <4>5. CASE line' = Tail(line) \o <<core1.pending, Quiet>>
          <5>2. PICK t \in Seq(FrameType), f \in FrameType : t = Tail(line) /\ f = core1.pending
            BY <1>1, <3>2
          <5>1. Ordered(Heard, line', events)
            <6>1. Ordered(Heard, t, events) /\ f.id = 0 /\ events <= events  BY <1>1, <2>1, <3>4, <5>2
            <6>2. Ordered(Heard, t \o <<f, Quiet>>, events)  BY <2>1, <6>1, MoreToHear
            <6>. QED  BY <4>5, <5>2, <6>2
          <5>3. /\ line' \in Seq(FrameType) /\ Len(line') = Len(t) + 2
                /\ \A i \in 1 .. Len(t) : line'[i] = t[i]
                /\ line'[Len(t) + 1] = f /\ line'[Len(t) + 2] = Quiet
            BY <4>5, <5>2, FrameTypes, ConcatProperties, <<f, Quiet>> \in Seq(FrameType)
          <5>4. ~Ours(f) /\ ~Ours(Quiet)  BY <1>1, <5>2, FrameTypes DEF Ours
          <5>5. ASSUME NEW i \in 1 .. Len(line'), Ours(line'[i])
                PROVE  line'[i].kind = "data" /\ node = Us /\ core1.node = Us
            <6>1. i \in 1 .. Len(t)  BY <5>3, <5>4, <5>5
            <6>. QED  BY <3>3, <5>2, <5>3, <5>5, <6>1
          <5>. QED  BY <2>1, <4>1, <4>2, <4>3, <5>1, <5>3, <5>5
        <4>. QED  BY <4>1, <4>4, <4>5
      <3>6. CASE Head(line) # Quiet
        <4>1. FrameEnd(Head(line), c) /\ line' = Tail(line)  BY <2>3, <3>6 DEF Feed
        <4>2. CASE IsEcho(Head(line), c)
          <5>1. core1' = c /\ UNCHANGED rx  BY <4>1, <4>2 DEF FrameEnd
          <5>2. Heard' = Heard  BY <1>3, <5>1 DEF Heard
          <5>. QED  BY <1>1, <1>2, <2>1, <3>2, <3>3, <3>4, <4>1, <5>1, <5>2 DEF Caller
        <4>3. CASE ~IsEcho(Head(line), c)
          <5>1. PushRx(Head(line))  BY <4>1, <4>3 DEF FrameEnd
          <5>2. rx' \in RingType(RxSlots) /\ Used(rx') <= RxSlots
                /\ (Heard' = Heard \/ Heard' = Append(Heard, Head(line)))
            BY <1>1, <1>3, <3>2, <5>1, PushHeard
          <5>3. ~Ours(Head(line))
            BY <1>4, <3>2, <4>3 DEF IsEcho, Ours, Caller
          <5>4. Ordered(Heard', Tail(line), events)
            BY <2>1, <3>1, <3>4, <5>2, <5>3, FirstHeard
          <5>5. AutoReply(Head(line), c.node) \in FrameType /\ AutoReply(Head(line), c.node).id = 0
            BY <1>1, <3>2, FrameTypes DEF AutoReply, Frame, NoFrame, FrameType, Caller, Core1Type, Stations
          <5>6. core1' = c \/ core1' = [c EXCEPT !.pending = AutoReply(Head(line), c.node)]
            BY <4>1, <4>3 DEF FrameEnd
          <5>7. core1' \in Core1Type /\ core1'.pending.id = 0 /\ core1'.node = core1.node
                /\ core1'.seen = FALSE /\ core1'.asked = FALSE
                /\ core1'.pc = IF core1.pc = "work" THEN "top" ELSE core1.pc
            BY <1>1, <1>2, <5>5, <5>6 DEF Caller, Core1Type
          <5>. QED  BY <3>2, <3>3, <4>1, <5>2, <5>4, <5>7
        <4>. QED  BY <4>2, <4>3
      <3>. QED  BY <3>5, <3>6
    <2>. QED  BY <2>2, <2>3
  <1>6. WireType'  BY <1>1, <1>3, <1>5 DEF WireType
  <1>7. Numbered'  BY <1>3, <1>5 DEF IInv, WireInv, Numbered
  <1>8. Echoes'  BY <1>3, <1>5 DEF IInv, WireInv, Echoes
  <1>9. InTurn' /\ Asked'  BY <1>3, <1>5 DEF InTurn, Asked
  <1>10. ParkInv'
    <2>1. Signals'  BY <1>3, <1>5 DEF IInv, ParkInv, Signals, core0
    <2>2. FlashSafe' /\ Parking'  BY <1>3, <1>5 DEF IInv, ParkInv, FlashSafe, Parking, core0
    <2>. QED  BY <2>1, <2>2 DEF ParkInv
  <1>. QED  BY <1>6, <1>7, <1>8, <1>9, <1>10 DEF WireInv

LEMMA Receives ==
    ASSUME IInv, Receive \/ WaitIdle, UNCHANGED <<core0, events>>  PROVE WireInv' /\ ParkInv'
  <1>1. core1 \in Core1Type  BY DEF IInv, WireInv, WireType
  <1>2. CASE Receive
    <2>1. Caller(Becomes("top")) /\ core1.pc = "work"
      BY <1>1, <1>2 DEF Receive, Caller, Becomes, Core1Type
    <2>. QED  BY <1>2, <2>1, Feeds DEF Receive
  <1>3. CASE WaitIdle
    <2>1. core1.pc = "csma" /\ UNCHANGED <<queue, stackRx, signals>>  BY <1>3 DEF WaitIdle
    <2>2. PICK c \in {core1, ConsumeAttempt(core1)} : Feed(c) \/ ExpirePending(c)  BY <1>3 DEF WaitIdle
    <2>3. Caller(c)  BY <1>1, <2>1, <2>2 DEF Caller, ConsumeAttempt, Core1Type
    <2>. QED  BY <2>1, <2>2, <2>3, Feeds
  <1>. QED  BY <1>2, <1>3

\* Steps of core 1 with the frame it sends, which leave the rings and the line alone.
LEMMA Attempts ==
    ASSUME IInv, StartTransmit \/ Deferred \/ CtsTimeout, UNCHANGED <<core0, events>>
    PROVE  WireInv' /\ ParkInv'
  <1>1. WireType /\ core1 \in Core1Type /\ core1.pending.id = 0  BY DEF IInv, WireInv, WireType
  <1>2. /\ UNCHANGED <<line, rx, tx, submitted, gone, stackRx, flags, node, events, core0>>
        /\ core1.pc \in {"work", "csma", "listen"} /\ core1'.pc = "csma" /\ Used(tx) > 0
        /\ core1' \in Core1Type /\ core1'.pending = core1.pending /\ core1'.node = core1.node
        /\ core1'.seen = core1.seen /\ core1'.asked = FALSE
    <2>1. core1.pc # "listen" => core1.asked = FALSE
      BY <1>1 DEF IInv, WireInv, Asked, Core1Type
    <2>2. CASE StartTransmit
      BY <1>1, <2>1, <2>2, SlotsDivide
         DEF StartTransmit, Becomes, Core1Type, queue, signals
    <2>3. CASE Deferred
      BY <1>1, <2>1, <2>3 DEF Deferred, ConsumeAttempt, Core1Type, queue, signals, IInv, WireInv, Numbered
    <2>4. CASE CtsTimeout
      <3>1. PICK c \in Core1Type : /\ c = ConsumeAttempt(core1) /\ c.pending = core1.pending
                                   /\ c.node = core1.node /\ c.seen = core1.seen
        <4>1. core1.attempts \in Nat  BY <1>1 DEF Core1Type
        <4>2. PICK k \in Nat : k = IF core1.attempts > 0 THEN core1.attempts - 1 ELSE 0  BY <4>1
        <4>3. ConsumeAttempt(core1) = [core1 EXCEPT !.attempts = k]  BY <4>2 DEF ConsumeAttempt
        <4>. QED  BY <1>1, <4>3 DEF Core1Type
      <3>2. core1' = [c EXCEPT !.pc = "csma", !.asked = FALSE]  BY <2>4, <3>1 DEF CtsTimeout
      <3>3. Used(tx) > 0  BY <2>4 DEF CtsTimeout, IInv, WireInv, Numbered
      <3>. QED  BY <1>1, <2>4, <3>1, <3>2, <3>3 DEF CtsTimeout, Core1Type, queue, signals
    <2>. QED  BY <2>2, <2>3, <2>4
  <1>3. WireType'  BY <1>1, <1>2 DEF WireType
  <1>4. Numbered'  BY <1>2 DEF IInv, WireInv, Numbered
  <1>5. Echoes'  BY <1>2 DEF IInv, WireInv, Echoes
  <1>6. InTurn'  BY <1>2 DEF IInv, WireInv, InTurn, Heard
  <1>7. Asked'  BY <1>2 DEF Asked
  <1>8. Signals'  BY <1>2 DEF IInv, ParkInv, Signals, core0
  <1>9. FlashSafe' /\ Parking'  BY <1>2 DEF IInv, ParkInv, FlashSafe, Parking, core0
  <1>. QED  BY <1>3, <1>4, <1>5, <1>6, <1>7, <1>8, <1>9 DEF WireInv, ParkInv

\* The dialog's third part: what is not the CTS is thrown away.
LEMMA Listens ==
    ASSUME IInv, Listen, UNCHANGED <<core0, events>>  PROVE WireInv' /\ ParkInv'
  <1>1. WireType /\ core1 \in Core1Type /\ core1.pending.id = 0 /\ line \in Seq(FrameType) /\ events \in Nat
    BY DEF IInv, WireInv, WireType
  <1>2. /\ line # <<>> /\ line' = Tail(line) /\ core1.pc = "listen"
        /\ UNCHANGED <<tx, submitted, gone, stackRx, flags, node, events, core0>>
    BY DEF Listen, queue, signals
  <1>3. /\ Head(line) \in FrameType /\ Head(line) = line[1] /\ 1 \in 1 .. Len(line)
        /\ line' \in Seq(FrameType) /\ Len(line') = Len(line) - 1
        /\ \A i \in 1 .. Len(line') : line'[i] = line[i + 1] /\ i + 1 \in 1 .. Len(line)
    BY <1>1, <1>2
  <1>4. CtsMatches(Head(line), Sending.src, Sending.dst) => Head(line).kind = "cts"  BY DEF CtsMatches
  <1>5. /\ core1' \in Core1Type /\ core1'.pending = core1.pending /\ core1'.node = core1.node
        /\ core1'.seen = core1.seen /\ core1'.pc \in {"listen", "data"}
        /\ core1'.asked = core1.asked /\ (core1'.pc = "data" => ~core1'.asked)
    <2>1. CASE CtsMatches(Head(line), Sending.src, Sending.dst)
      <3>1. core1' = Becomes("data")  BY <2>1 DEF Listen
      <3>2. ~core1.asked  BY <1>2, <1>3, <1>4, <2>1 DEF IInv, WireInv, Asked
      <3>. QED  BY <1>1, <3>1, <3>2 DEF Becomes, Core1Type
    <2>2. CASE ~CtsMatches(Head(line), Sending.src, Sending.dst)
      BY <1>1, <1>2, <2>2 DEF Listen
    <2>. QED  BY <2>1, <2>2
  <1>6. rx' \in RingType(RxSlots) /\ Used(rx') <= RxSlots /\ Ordered(Heard', line', events)
    <2>1. Heard \in Seq(FrameType) /\ Ordered(Heard, line, events)
      BY <1>1, HeardType DEF IInv, WireInv, InTurn
    <2>2. Ordered(Heard, line', events)  BY <1>1, <1>2, <2>1, FirstHeard
    <2>3. CASE CtsMatches(Head(line), Sending.src, Sending.dst)
      <3>1. PushRx(Head(line))  BY <2>3 DEF Listen
      <3>2. rx' \in RingType(RxSlots) /\ Used(rx') <= RxSlots
            /\ (Heard' = Heard \/ Heard' = Append(Heard, Head(line)))
        BY <1>1, <1>2, <1>3, <3>1, PushHeard
      <3>3. ~Ours(Head(line))
        BY <1>3, <1>4, <2>3 DEF IInv, WireInv, Echoes
      <3>. QED  BY <1>1, <1>2, <2>1, <2>2, <3>2, <3>3, FirstHeard
    <2>4. CASE ~CtsMatches(Head(line), Sending.src, Sending.dst)
      <3>1. UNCHANGED rx  BY <2>4 DEF Listen
      <3>2. Heard' = Heard  BY <1>2, <3>1 DEF Heard
      <3>. QED  BY <1>1, <2>2, <3>1, <3>2 DEF WireType
    <2>. QED  BY <2>3, <2>4
  <1>7. WireType'  BY <1>1, <1>2, <1>3, <1>5, <1>6 DEF WireType
  <1>8. Numbered'  BY <1>2, <1>5 DEF IInv, WireInv, Numbered
  <1>9. Echoes'  BY <1>2, <1>3, <1>5 DEF IInv, WireInv, Echoes
  <1>10. InTurn'  BY <1>2, <1>6 DEF InTurn
  <1>11. Asked'  BY <1>2, <1>3, <1>5 DEF IInv, WireInv, Asked
  <1>12. Signals'  BY <1>2, <1>5 DEF IInv, ParkInv, Signals, core0
  <1>13. FlashSafe' /\ Parking'  BY <1>2, <1>5 DEF IInv, ParkInv, FlashSafe, Parking, core0
  <1>. QED  BY <1>7, <1>8, <1>9, <1>10, <1>11, <1>12, <1>13 DEF WireInv, ParkInv

\* Core 1 is done with a frame.
LEMMA Finished ==
    ASSUME WireType, Numbered, Used(tx) > 0
    PROVE  /\ Sending \in FrameType /\ Ours(Sending) /\ Sending.kind = "data" /\ Sending.src = Us
           /\ Finish(Sending) =>
                /\ tx' \in RingType(TxSlots) /\ Used(tx') = Used(tx) - 1 /\ Used(tx') <= TxSlots
                /\ gone' \in Seq(Nat) /\ Len(gone') = Len(gone) + 1 /\ submitted' = submitted
                /\ \A i \in 1 .. Len(gone') : gone'[i] = i
                /\ \A i \in 1 .. Used(tx') :
                      /\ Content(tx', TxSlots)[i].id = Len(gone') + i
                      /\ Content(tx', TxSlots)[i].src = Us /\ Content(tx', TxSlots)[i].kind = "data"
  <1>1. TxSlots \in Nat \ {0} /\ Wrap % TxSlots = 0 /\ Wrap > TxSlots /\ tx \in RingType(TxSlots)
    BY SlotsDivide DEF WireType
  <1>2. PICK c \in Seq(FrameType) : c = Content(tx, TxSlots) /\ Len(c) = Used(tx)  BY <1>1, ContentType
  <1>3. /\ Release(tx) \in RingType(TxSlots) /\ Used(Release(tx)) = Used(tx) - 1
        /\ c # <<>> /\ Sending = Head(c) /\ Content(Release(tx), TxSlots) = Tail(c)
    BY <1>1, <1>2, ReleaseRing DEF Sending
  <1>4. /\ \A i \in 1 .. Len(c) : c[i].id = Len(gone) + i /\ c[i].src = Us /\ c[i].kind = "data"
        /\ Len(gone) \in Nat /\ Used(tx) \in Nat /\ Len(c) > 0
    BY <1>2, <1>3 DEF Numbered, WireType
  <1>5. Sending \in FrameType /\ Sending = c[1] /\ 1 \in 1 .. Len(c)  BY <1>3, <1>4
  <1>6. Sending.id = Len(gone) + 1 /\ Sending.src = Us /\ Sending.kind = "data"  BY <1>4, <1>5
  <1>7. ASSUME Finish(Sending)
        PROVE  /\ gone' \in Seq(Nat) /\ Len(gone') = Len(gone) + 1
               /\ \A i \in 1 .. Len(gone') : gone'[i] = i
    <2>0. gone \in Seq(Nat) /\ Sending.id \in Nat  BY <1>4, <1>6 DEF WireType
    <2>1. PICK g \in Seq(Nat), k \in Nat : g = gone /\ k = Len(g) + 1 /\ gone' = Append(g, k)
      BY <1>6, <1>7, <2>0 DEF Finish
    <2>2. Append(g, k) \in Seq(Nat) /\ Len(Append(g, k)) = Len(g) + 1
      BY AppendProperties
    <2>3. \A i \in 1 .. Len(g) : g[i] = i  BY <2>1 DEF Numbered
    <2>4. ASSUME NEW i \in 1 .. Len(g) + 1  PROVE Append(g, k)[i] = i
      BY <2>1, <2>3, AppendProperties
    <2>. QED  BY <2>1, <2>2, <2>4
  <1>8. ASSUME Finish(Sending)
        PROVE  \A i \in 1 .. Used(tx') :
                      /\ Content(tx', TxSlots)[i].id = Len(gone') + i
                      /\ Content(tx', TxSlots)[i].src = Us /\ Content(tx', TxSlots)[i].kind = "data"
    <2>1. tx' = Release(tx)  BY <1>8 DEF Finish
    <2>2. Used(tx') = Len(c) - 1 /\ Content(tx', TxSlots) = Tail(c)  BY <1>2, <1>3, <2>1
    <2>3. \A i \in 1 .. Len(c) - 1 : Tail(c)[i] = c[i + 1] /\ i + 1 \in 1 .. Len(c)  BY <1>3
    <2>4. ASSUME NEW i \in 1 .. Used(tx')
          PROVE  /\ Content(tx', TxSlots)[i].id = Len(gone') + i
                 /\ Content(tx', TxSlots)[i].src = Us /\ Content(tx', TxSlots)[i].kind = "data"
      <3>1. i \in 1 .. Len(c) - 1 /\ i + 1 \in 1 .. Len(c)  BY <2>2, <2>3
      <3>2. Content(tx', TxSlots)[i] = c[i + 1]  BY <2>2, <2>3, <3>1
      <3>3. Len(gone') = Len(gone) + 1  BY <1>7, <1>8
      <3>. QED  BY <1>4, <3>1, <3>2, <3>3
    <2>. QED  BY <2>4
  <1>9. ASSUME Finish(Sending)
        PROVE  /\ tx' \in RingType(TxSlots) /\ Used(tx') = Used(tx) - 1 /\ Used(tx') <= TxSlots
               /\ submitted' = submitted
    BY <1>1, <1>3, <1>4, <1>9 DEF Finish, WireType
  <1>. QED  BY <1>4, <1>5, <1>6, <1>7, <1>8, <1>9 DEF Ours

LEMMA Sends ==
    ASSUME IInv, Exhausted \/ Transmit \/ SendData, UNCHANGED <<core0, events>>
    PROVE  WireInv' /\ ParkInv'
  <1>1. /\ WireType /\ Numbered /\ core1 \in Core1Type /\ core1.pending.id = 0
        /\ line \in Seq(FrameType) /\ events \in Nat /\ submitted \in Nat
        /\ Heard \in Seq(FrameType) /\ Ordered(Heard, line, events)
    BY HeardType DEF IInv, WireInv, WireType, InTurn
  <1>2. /\ core1.pc \in {"csma", "data"} /\ Used(tx) > 0 /\ core1.asked = FALSE /\ core1.seen = FALSE
        /\ UNCHANGED <<rx, stackRx, flags, node, events, core0>>
    <2>1. core1.pc \in {"csma", "data"} /\ UNCHANGED <<rx, stackRx, flags, node>>
      BY DEF Exhausted, Transmit, SendData, signals
    <2>. QED  BY <1>1, <2>1 DEF IInv, WireInv, Asked, Numbered, ParkInv, Signals, Core1Type
  <1>3. PICK f \in FrameType : f = Sending /\ Ours(f) /\ f.kind = "data" /\ f.src = Us
    BY <1>1, <1>2, Finished
  <1>4. Heard' = Heard  BY <1>2 DEF Heard
  <1>5. node = Us  BY <1>1, <1>2 DEF IInv, WireInv, Echoes
  <1>6. CASE Finish(Sending) /\ core1' = Becomes("top")
             /\ (line' = line \/ line' = line \o <<Sending, Quiet>>)
    <2>1. /\ core1' \in Core1Type /\ core1'.pending = core1.pending /\ core1'.pc = "top"
          /\ core1'.asked = FALSE /\ core1'.seen = FALSE /\ core1'.node = core1.node
      BY <1>1, <1>2, <1>6 DEF Becomes, Core1Type
    <2>2. Ordered(Heard, line \o <<f, Quiet>>, events)
      <3>1. events <= events  BY <1>1
      <3>. QED  BY <1>1, <1>3, <3>1, MoreToHear
    <2>3. /\ line \o <<f, Quiet>> \in Seq(FrameType) /\ Len(line \o <<f, Quiet>>) = Len(line) + 2
          /\ \A i \in 1 .. Len(line) : (line \o <<f, Quiet>>)[i] = line[i]
          /\ (line \o <<f, Quiet>>)[Len(line) + 1] = f /\ (line \o <<f, Quiet>>)[Len(line) + 2] = Quiet
      BY <1>1, FrameTypes, ConcatProperties, <<f, Quiet>> \in Seq(FrameType)
    <2>4. \A i \in 1 .. Len(line') : Ours(line'[i]) => line'[i].kind = "data"
      <3>1. \A i \in 1 .. Len(line) : Ours(line[i]) => line[i].kind = "data"
        BY DEF IInv, WireInv, Echoes
      <3>2. CASE line' = line  BY <3>1, <3>2
      <3>3. CASE line' = line \o <<f, Quiet>>
        <4>1. ASSUME NEW i \in 1 .. Len(line) + 2, Ours((line \o <<f, Quiet>>)[i])
              PROVE  (line \o <<f, Quiet>>)[i].kind = "data"
          <5>1. i \in 1 .. Len(line) \/ i = Len(line) + 1 \/ i = Len(line) + 2  BY <1>1
          <5>2. ~Ours(Quiet)  BY FrameTypes DEF Ours
          <5>. QED  BY <1>3, <2>3, <3>1, <4>1, <5>1, <5>2
        <4>. QED  BY <2>3, <3>3, <4>1
      <3>. QED  BY <1>3, <1>6, <3>2, <3>3
    <2>5. WireType'  BY <1>1, <1>2, <1>3, <1>6, <2>1, <2>3, Finished DEF WireType
    <2>6. Numbered'
      <3>1. Len(gone) \in Nat /\ Used(tx) \in Nat /\ Len(gone) + Used(tx) = submitted
        <4>1. TxSlots \in Nat \ {0} /\ tx \in RingType(TxSlots)  BY SlotsDivide DEF IInv, WireInv, WireType
        <4>. QED  BY <1>1, <4>1, ContentType DEF Numbered, WireType
      <3>2. /\ Used(tx') = Used(tx) - 1 /\ Len(gone') = Len(gone) + 1 /\ submitted' = submitted
            /\ \A i \in 1 .. Len(gone') : gone'[i] = i
            /\ \A i \in 1 .. Used(tx') :
                      /\ Content(tx', TxSlots)[i].id = Len(gone') + i
                      /\ Content(tx', TxSlots)[i].src = Us /\ Content(tx', TxSlots)[i].kind = "data"
        BY <1>1, <1>2, <1>6, Finished
      <3>3. Len(gone') + Used(tx') = submitted'  BY <3>1, <3>2
      <3>. QED  BY <2>1, <3>2, <3>3 DEF Numbered
    <2>7. Echoes'  BY <1>2, <1>5, <2>1, <2>4 DEF Echoes
    <2>8. InTurn' /\ Asked'  BY <1>1, <1>2, <1>3, <1>4, <1>6, <2>1, <2>2 DEF InTurn, Asked
    <2>9. Signals'  BY <1>2, <2>1 DEF IInv, ParkInv, Signals, core0
    <2>10. FlashSafe' /\ Parking'  BY <1>2, <2>1 DEF IInv, ParkInv, FlashSafe, Parking, core0
    <2>. QED  BY <2>5, <2>6, <2>7, <2>8, <2>9, <2>10 DEF WireInv, ParkInv
  <1>7. CASE Transmit /\ Directed(Sending)
    <2>1. /\ line = <<>> /\ UNCHANGED queue
          /\ line' = <<Frame("rts", Sending.dst, Sending.src, 0), Quiet>>
          /\ core1' = [Becomes("listen") EXCEPT !.asked = TRUE]
      BY <1>7 DEF Transmit
    <2>2. /\ core1' \in Core1Type /\ core1'.pending = core1.pending /\ core1'.pc = "listen"
          /\ core1'.seen = FALSE /\ core1'.node = core1.node
      BY <1>1, <1>2, <2>1 DEF Becomes, Core1Type
    <2>3. PICK g \in FrameType : g = Frame("rts", Sending.dst, Sending.src, 0) /\ g.id = 0 /\ g.kind = "rts"
      <3>1. f.dst \in Stations /\ f.src \in Stations  BY DEF FrameType
      <3>2. Frame("rts", f.dst, f.src, 0) \in FrameType  BY <3>1 DEF Frame, FrameType
      <3>3. Frame("rts", f.dst, f.src, 0).id = 0 /\ Frame("rts", f.dst, f.src, 0).kind = "rts"
        BY DEF Frame
      <3>. QED  BY <1>3, <3>2, <3>3
    <2>4. /\ line' \in Seq(FrameType) /\ Len(line') = 2 /\ line'[1] = g /\ line'[2] = Quiet
      BY <2>1, <2>3, FrameTypes
    <2>5. ASSUME NEW i \in 1 .. Len(line')
          PROVE  ~Ours(line'[i]) /\ ~Theirs(line'[i]) /\ line'[i].id = 0 /\ line'[i].kind # "cts"
      <3>1. i = 1 \/ i = 2  BY <2>4
      <3>2. Quiet.kind = "quiet" /\ Quiet.id = 0  BY DEF Quiet, Frame
      <3>. QED  BY <2>3, <2>4, <3>1, <3>2 DEF Ours, Theirs
    <2>6. WireType'  BY <1>1, <1>2, <2>1, <2>2, <2>4 DEF WireType, queue
    <2>7. Numbered'  BY <1>1, <1>2, <2>1 DEF Numbered, queue
    <2>8. Echoes'  BY <1>2, <1>5, <2>5 DEF Echoes
    <2>9. InTurn'
      <3>1. Ordered(Heard, line', events)  BY <1>1, <2>5 DEF Ordered
      <3>. QED  BY <1>2, <1>4, <3>1 DEF InTurn
    <2>10. Asked'  BY <2>2, <2>5 DEF Asked
    <2>11. Signals'  BY <1>2, <2>2 DEF IInv, ParkInv, Signals, core0
    <2>12. FlashSafe' /\ Parking'  BY <1>2, <2>2 DEF IInv, ParkInv, FlashSafe, Parking, core0
    <2>. QED  BY <2>6, <2>7, <2>8, <2>9, <2>10, <2>11, <2>12 DEF WireInv, ParkInv
  <1>8. CASE Exhausted  BY <1>6, <1>8 DEF Exhausted, Finish
  <1>9. CASE SendData  BY <1>6, <1>9 DEF SendData, Finish
  <1>10. CASE Transmit /\ ~Directed(Sending)
    <2>1. line = <<>> /\ line' = <<Sending, Quiet>> /\ Finish(Sending)  BY <1>10 DEF Transmit
    <2>2. line' = line \o <<f, Quiet>>
      <3>1. <<f, Quiet>> \in Seq(FrameType)  BY FrameTypes
      <3>. QED  BY <1>3, <2>1, <3>1, ConcatEmptySeq
    <2>. QED  BY <1>3, <1>6, <2>1, <2>2 DEF Finish
  <1>. QED  BY <1>7, <1>8, <1>9, <1>10

LEMMA EngineKeeps ==
    ASSUME IInv, Engine  PROVE IInv'
  <1>1. UNCHANGED <<core0, events>>  BY DEF Engine, Core1
  <1>2. BoardInv'  BY <1>1, BoardKept
  <1>3. WireInv' /\ ParkInv'
    <2>1. CASE ReadFlags \/ Unpark \/ ClearParked  BY <1>1, <2>1, Spins
    <2>2. CASE Receive \/ WaitIdle  BY <1>1, <2>2, Receives
    <2>3. CASE StartTransmit \/ Deferred \/ CtsTimeout  BY <1>1, <2>3, Attempts
    <2>4. CASE Listen  BY <1>1, <2>4, Listens
    <2>5. CASE Exhausted \/ Transmit \/ SendData  BY <1>1, <2>5, Sends
    <2>. QED  BY <2>1, <2>2, <2>3, <2>4, <2>5 DEF Engine, Core1
  <1>. QED  BY <1>2, <1>3 DEF IInv

-----------------------------------------------------------------------------
(* Core 0's side of the rings, and the other node *)

LEMMA SetsNode ==
    ASSUME IInv, SetNode, UNCHANGED core0  PROVE WireInv' /\ ParkInv'
  <1>1. /\ node = None /\ "NODE_UPDATED" \notin flags /\ node' = Us
        /\ flags' = flags \cup {"NODE_UPDATED"}
        /\ UNCHANGED <<core1, line, rx, tx, submitted, gone, stackRx, events, core0>>
    BY DEF SetNode, air, queue
  <1>2. WireType'  BY <1>1 DEF IInv, WireInv, WireType
  <1>3. Numbered' /\ Asked'  BY <1>1 DEF IInv, WireInv, Numbered, Asked
  <1>4. InTurn'  BY <1>1 DEF IInv, WireInv, InTurn, Heard
  <1>5. Echoes'  BY <1>1, FrameTypes DEF IInv, WireInv, Echoes
  <1>6. Signals'  BY <1>1 DEF IInv, ParkInv, Signals, core0
  <1>7. FlashSafe' /\ Parking'  BY <1>1 DEF IInv, ParkInv, FlashSafe, Parking, core0
  <1>. QED  BY <1>2, <1>3, <1>4, <1>5, <1>6, <1>7 DEF WireInv, ParkInv

LEMMA Submits ==
    ASSUME IInv, NEW dst \in Stations, node # None, SubmitTx(dst), UNCHANGED core0,
           events' \in Nat, events <= events'
    PROVE  WireInv' /\ ParkInv'
  <1>1. /\ UNCHANGED <<core1, line, rx, gone, stackRx, flags, node, core0>>
        /\ Used(tx) < TxSlots /\ tx' = Push(tx, TxSlots, Frame("data", dst, node, submitted + 1))
        /\ submitted' = submitted + 1
    BY DEF SubmitTx, air, signals
  <1>2. WireType /\ node = Us /\ submitted \in Nat  BY <1>1 DEF IInv, WireInv, WireType
  <1>3. TxSlots \in Nat \ {0} /\ Wrap % TxSlots = 0 /\ Wrap > TxSlots /\ tx \in RingType(TxSlots)
    BY <1>2, SlotsDivide DEF WireType
  <1>4. PICK f \in FrameType : /\ f = Frame("data", dst, node, submitted + 1)
                               /\ f.id = submitted + 1 /\ f.src = Us /\ f.kind = "data"
    <2>1. Frame("data", dst, Us, submitted + 1) \in FrameType  BY <1>2 DEF Frame, FrameType, Stations
    <2>. QED  BY <1>2, <2>1 DEF Frame
  <1>5. /\ tx' \in RingType(TxSlots) /\ Used(tx') = Used(tx) + 1
        /\ Content(tx', TxSlots) = Append(Content(tx, TxSlots), f)
    BY <1>1, <1>3, <1>4, PushRing
  <1>6. PICK c \in Seq(FrameType) : c = Content(tx, TxSlots) /\ Len(c) = Used(tx)  BY <1>3, ContentType
  <1>7. WireType'  BY <1>1, <1>2, <1>3, <1>5, <1>6 DEF WireType
  <1>8. Numbered'
    <2>1. /\ Len(gone) + Len(c) = submitted /\ Len(gone) \in Nat /\ Used(tx') = Len(c) + 1
          /\ \A i \in 1 .. Len(c) : c[i].id = Len(gone) + i /\ c[i].src = Us /\ c[i].kind = "data"
      BY <1>5, <1>6, <1>2 DEF IInv, WireInv, Numbered, WireType
    <2>2. ASSUME NEW i \in 1 .. Len(c) + 1
          PROVE  /\ Append(c, f)[i].id = Len(gone) + i
                 /\ Append(c, f)[i].src = Us /\ Append(c, f)[i].kind = "data"
      <3>1. CASE i = Len(c) + 1  BY <1>4, <2>1, <3>1, AppendProperties
      <3>2. CASE i # Len(c) + 1
        <4>1. i \in 1 .. Len(c) /\ Append(c, f)[i] = c[i]  BY <3>2, AppendProperties
        <4>. QED  BY <2>1, <4>1
      <3>. QED  BY <3>1, <3>2
    <2>3. Len(gone) + Used(tx') = submitted + 1 /\ Used(tx') > 0  BY <2>1
    <2>4. Content(tx', TxSlots) = Append(c, f)  BY <1>5, <1>6
    <2>. QED  BY <1>1, <2>1, <2>2, <2>3, <2>4 DEF IInv, WireInv, Numbered
  <1>9. Echoes'  BY <1>1, <1>2 DEF IInv, WireInv, Echoes
  <1>10. InTurn'
    <2>1. Heard' = Heard  BY <1>1 DEF Heard
    <2>2. Heard \in Seq(FrameType) /\ line \in Seq(FrameType) /\ events \in Nat
      BY <1>2, HeardType DEF WireType
    <2>4. Ordered(Heard, line, events')  BY <2>2, Later DEF IInv, WireInv, InTurn
    <2>. QED  BY <1>1, <2>1, <2>4 DEF InTurn
  <1>11. Asked'  BY <1>1 DEF IInv, WireInv, Asked
  <1>12. Signals'  BY <1>1 DEF IInv, ParkInv, Signals, core0
  <1>13. FlashSafe' /\ Parking'  BY <1>1 DEF IInv, ParkInv, FlashSafe, Parking, core0
  <1>. QED  BY <1>7, <1>8, <1>9, <1>10, <1>11, <1>12, <1>13 DEF WireInv, ParkInv

\* A frame moves on to the stack, or is dropped; the stack takes one.
LEMMA Dispatches ==
    ASSUME IInv, Dispatch \/ Take, UNCHANGED core0  PROVE WireInv' /\ ParkInv'
  <1>1. WireType  BY DEF IInv, WireInv
  <1>2. UNCHANGED <<core1, line, tx, submitted, gone, flags, node, events, core0>>
    BY DEF Dispatch, Take, air, queue, signals
  <1>3. PICK a \in Seq(FrameType), b \in Seq(FrameType) :
           a = stackRx /\ b = Content(rx, RxSlots) /\ Heard = a \o b
    BY <1>1, HeardType DEF WireType, Heard
  <1>4. Ordered(a \o b, line, events) /\ a \o b \in Seq(FrameType)
    BY <1>3, ConcatProperties DEF IInv, WireInv, InTurn
  <1>5. /\ rx' \in RingType(RxSlots) /\ Used(rx') <= RxSlots /\ stackRx' \in Seq(FrameType)
        /\ Ordered(Heard', line, events)
    <2>1. CASE Dispatch
      <3>1. RxSlots \in Nat \ {0} /\ Wrap % RxSlots = 0 /\ Wrap > RxSlots /\ rx \in RingType(RxSlots)
        BY <1>1, SlotsDivide DEF WireType
      <3>2. /\ Used(rx) > 0 /\ rx' = Release(rx)
            /\ stackRx' = IF Len(stackRx) < StackCap THEN Append(stackRx, Front(rx, RxSlots)) ELSE stackRx
        BY <2>1 DEF Dispatch
      <3>3. /\ rx' \in RingType(RxSlots) /\ Used(rx') = Used(rx) - 1
            /\ b # <<>> /\ Front(rx, RxSlots) = Head(b) /\ Content(rx', RxSlots) = Tail(b)
        BY <1>3, <3>1, <3>2, ReleaseRing
      <3>4. PICK f \in FrameType, t \in Seq(FrameType) : f = Head(b) /\ t = Tail(b)  BY <3>3
      <3>5. Len(t) = Len(b) - 1 /\ Len(b) > 0 /\ b[1] = f
            /\ \A i \in 1 .. Len(t) : t[i] = b[i + 1] /\ i + 1 \in 1 .. Len(b)
        BY <3>3, <3>4
      <3>6. CASE Len(stackRx) < StackCap
        <4>1. stackRx' = Append(a, f) /\ Heard' = Append(a, f) \o t
          BY <1>3, <3>2, <3>3, <3>4, <3>6 DEF Heard
        <4>5. Append(a, f) \o t = a \o b  BY <3>3, <3>4, MoveOne
        <4>6. Used(rx') <= RxSlots /\ stackRx' \in Seq(FrameType)
          <5>1. Used(rx) \in Nat /\ Used(rx) <= RxSlots  BY <1>1, HeardType DEF WireType
          <5>. QED  BY <3>1, <3>3, <4>1, <5>1, AppendProperties
        <4>. QED  BY <1>4, <3>3, <4>1, <4>5, <4>6
      <3>7. CASE ~(Len(stackRx) < StackCap)
        <4>1. stackRx' = a /\ Heard' = a \o t  BY <1>3, <3>2, <3>3, <3>4, <3>7 DEF Heard
        <4>2. /\ a \o t \in Seq(FrameType) /\ Len(a \o t) = Len(a \o b) - 1
              /\ \A i \in 1 .. Len(a \o t) :
                    (a \o t)[i] = IF i <= Len(a) THEN (a \o b)[i] ELSE (a \o b)[i + 1]
          BY <3>3, <3>4, DropOne
        <4>4. Ordered(a \o t, line, events)  BY <1>4, <4>2, FewerHeard, Len(a) \in Nat
        <4>5. Used(rx') <= RxSlots
          BY <1>1, <3>1, <3>3, Indices, SlotsDivide DEF WireType
        <4>. QED  BY <3>3, <4>1, <4>4, <4>5
      <3>. QED  BY <3>6, <3>7
    <2>2. CASE Take
      <3>1. a # <<>> /\ stackRx' = Tail(a) /\ UNCHANGED rx  BY <1>3, <2>2 DEF Take, air
      <3>2. PICK t \in Seq(FrameType) : t = Tail(a)  BY <3>1
      <3>4. Heard' = t \o b  BY <1>3, <3>1, <3>2 DEF Heard
      <3>5. PICK h \in Seq(FrameType) : h = a \o b  BY <1>4
      <3>6. h # <<>> /\ t \o b = Tail(h)  BY <3>1, <3>2, <3>5, DropFirst
      <3>7. /\ Len(Tail(h)) = Len(h) - 1 /\ Tail(h) \in Seq(FrameType)
            /\ \A i \in 1 .. Len(Tail(h)) : Tail(h)[i] = IF i <= 0 THEN h[i] ELSE h[i + 1]
        BY <3>6
      <3>8. Ordered(Tail(h), line, events)  BY <1>4, <3>5, <3>7, FewerHeard, 0 \in Nat
      <3>. QED  BY <1>1, <3>1, <3>2, <3>4, <3>6, <3>8 DEF WireType
    <2>. QED  BY <2>1, <2>2
  <1>6. WireType'  BY <1>1, <1>2, <1>5 DEF WireType
  <1>7. Numbered' /\ Asked' /\ Echoes'  BY <1>2 DEF IInv, WireInv, Numbered, Asked, Echoes
  <1>8. InTurn'  BY <1>2, <1>5 DEF InTurn
  <1>9. Signals'  BY <1>2 DEF IInv, ParkInv, Signals, core0
  <1>10. FlashSafe' /\ Parking'  BY <1>2 DEF IInv, ParkInv, FlashSafe, Parking, core0
  <1>. QED  BY <1>6, <1>7, <1>8, <1>9, <1>10 DEF WireInv, ParkInv

\* What the rings and the line hold does not depend on core 0's other tasks, nor on how many
\* frames and commands there have been.
LEMMA WireKept ==
    ASSUME IInv, UNCHANGED <<air, queue, stackRx, node>>, events' \in Nat, events <= events',
           flags' \subseteq {"NODE_UPDATED", "PARK_REQUEST", "PARKED"}
    PROVE  WireInv'
  <1>1. UNCHANGED <<core1, line, rx, tx, submitted, gone, stackRx, node>>  BY DEF air, queue
  <1>2. WireType /\ Heard \in Seq(FrameType) /\ line \in Seq(FrameType) /\ events \in Nat
    BY HeardType DEF IInv, WireInv, WireType
  <1>3. WireType'  BY <1>1, <1>2 DEF WireType
  <1>4. Numbered' /\ Echoes' /\ Asked'  BY <1>1 DEF IInv, WireInv, Numbered, Echoes, Asked
  <1>5. InTurn'
    <2>1. Heard' = Heard  BY <1>1 DEF Heard
    <2>2. Ordered(Heard, line, events')  BY <1>2, Later DEF IInv, WireInv, InTurn
    <2>. QED  BY <1>1, <2>1, <2>2 DEF InTurn
  <1>. QED  BY <1>3, <1>4, <1>5 DEF WireInv

\* An action of core 0 that neither saves nor sends.
LEMMA Apart ==
    ASSUME IInv, UNCHANGED <<wire, save>>, events' \in Nat, events <= events',
           "stale" \in excuses => "stale" \in excuses'
    PROVE  WireInv' /\ ParkInv'
  <1>1. UNCHANGED <<air, queue, stackRx, node, flags, core1>>  BY DEF wire, signals, air
  <1>2. flags \subseteq {"NODE_UPDATED", "PARK_REQUEST", "PARKED"}  BY DEF IInv, WireInv, WireType
  <1>3. WireInv'  BY <1>1, <1>2, WireKept
  <1>4. Signals'  BY <1>1 DEF IInv, ParkInv, Signals
  <1>5. FlashSafe' /\ Parking'  BY <1>1 DEF IInv, ParkInv, FlashSafe, Parking
  <1>. QED  BY <1>3, <1>4, <1>5 DEF ParkInv

LEMMA PeerSendsKeeps ==
    ASSUME IInv, NEW kind \in {"enq", "rts", "data"}, NEW dst \in Stations, PeerSends(kind, dst),
           UNCHANGED core0
    PROVE  WireInv' /\ ParkInv'
  <1>1. /\ UNCHANGED <<core1, rx, tx, submitted, gone, stackRx, flags, node, core0>>
        /\ events' = events + 1 /\ line' = line \o <<Frame(kind, dst, Peer, events'), Quiet>>
    BY DEF PeerSends, Event, queue, signals
  <1>2. /\ WireType /\ Heard \in Seq(FrameType) /\ line \in Seq(FrameType) /\ events \in Nat
        /\ Ordered(Heard, line, events)
    BY HeardType DEF IInv, WireInv, WireType, InTurn
  <1>3. events' \in Nat /\ events <= events'  BY <1>1, <1>2
  <1>4. PICK f \in FrameType : /\ f = Frame(kind, dst, Peer, events')
                               /\ f.id = events + 1 /\ f.src = Peer /\ f.kind = kind
    <2>1. Frame(kind, dst, Peer, events') \in FrameType  BY <1>3 DEF Frame, FrameType, Stations
    <2>. QED  BY <1>1, <2>1 DEF Frame
  <1>5. ~Ours(f) /\ ~Ours(Quiet) /\ Quiet.kind = "quiet" /\ f.kind # "cts"
    BY <1>4, NodesDiffer, FrameTypes DEF Ours, Quiet, Frame
  <1>6. PICK m \in Seq(FrameType) : m = line' /\ m = line \o <<f, Quiet>>
    BY <1>1, <1>2, <1>4, FrameTypes, ConcatProperties, <<f, Quiet>> \in Seq(FrameType)
  <1>7. /\ Len(line) \in Nat /\ Len(m) = Len(line) + 2
        /\ m[Len(line) + 1] = f /\ m[Len(line) + 2] = Quiet
        /\ \A i \in 1 .. Len(line) : m[i] = line[i]
    BY <1>2, <1>6, FrameTypes
  <1>8. ASSUME NEW i \in 1 .. Len(m)
        PROVE  (i \in 1 .. Len(line) /\ m[i] = line[i]) \/ (~Ours(m[i]) /\ m[i].kind # "cts")
    <2>1. i \in 1 .. Len(line) \/ i = Len(line) + 1 \/ i = Len(line) + 2  BY <1>7
    <2>. QED  BY <1>5, <1>7, <2>1
  <1>9. WireType'  BY <1>1, <1>2, <1>3, <1>6 DEF WireType
  <1>10. Numbered'  BY <1>1 DEF IInv, WireInv, Numbered
  <1>11. Echoes'  BY <1>1, <1>6, <1>8 DEF IInv, WireInv, Echoes
  <1>12. Asked'  BY <1>1, <1>6, <1>8 DEF IInv, WireInv, Asked
  <1>13. InTurn'
    <2>1. Heard' = Heard  BY <1>1 DEF Heard
    <2>2. Ordered(Heard, line \o <<f, Quiet>>, events')  BY <1>1, <1>2, <1>3, <1>4, MoreToHear
    <2>. QED  BY <1>6, <2>1, <2>2 DEF InTurn
  <1>14. Signals'  BY <1>1 DEF IInv, ParkInv, Signals, core0
  <1>15. FlashSafe' /\ Parking'  BY <1>1 DEF IInv, ParkInv, FlashSafe, Parking, core0
  <1>. QED  BY <1>9, <1>10, <1>11, <1>12, <1>13, <1>14, <1>15 DEF WireInv, ParkInv

LEMMA PeerAnswersKeeps ==
    ASSUME IInv, PeerAnswers, UNCHANGED core0  PROVE WireInv' /\ ParkInv'
  <1>1. /\ UNCHANGED <<rx, tx, submitted, gone, stackRx, flags, node, events, core0>>
        /\ core1.pc = "listen" /\ core1' = [core1 EXCEPT !.asked = FALSE]
        /\ line' = line \o <<Frame("cts", Us, Peer, 0), Quiet>>
    BY DEF PeerAnswers, queue, signals
  <1>2. /\ WireType /\ Heard \in Seq(FrameType) /\ line \in Seq(FrameType) /\ events \in Nat
        /\ Ordered(Heard, line, events) /\ core1 \in Core1Type
    BY HeardType DEF IInv, WireInv, WireType, InTurn
  <1>3. PICK f \in FrameType : f = Frame("cts", Us, Peer, 0) /\ f.id = 0 /\ ~Ours(f)
    <2>1. Frame("cts", Us, Peer, 0) \in FrameType  BY DEF Frame, FrameType, Stations
    <2>. QED  BY <2>1 DEF Frame, Ours
  <1>4. ~Ours(Quiet)  BY FrameTypes DEF Ours
  <1>5. PICK m \in Seq(FrameType) : m = line' /\ m = line \o <<f, Quiet>>
    BY <1>1, <1>2, <1>3, FrameTypes, ConcatProperties, <<f, Quiet>> \in Seq(FrameType)
  <1>6. /\ Len(line) \in Nat /\ Len(m) = Len(line) + 2
        /\ m[Len(line) + 1] = f /\ m[Len(line) + 2] = Quiet
        /\ \A i \in 1 .. Len(line) : m[i] = line[i]
    BY <1>2, <1>5, FrameTypes
  <1>7. ASSUME NEW i \in 1 .. Len(m)  PROVE (i \in 1 .. Len(line) /\ m[i] = line[i]) \/ ~Ours(m[i])
    <2>1. i \in 1 .. Len(line) \/ i = Len(line) + 1 \/ i = Len(line) + 2  BY <1>6
    <2>. QED  BY <1>3, <1>4, <1>6, <2>1
  <1>8. /\ core1' \in Core1Type /\ core1'.pending = core1.pending /\ core1'.node = core1.node
        /\ core1'.pc = "listen" /\ core1'.asked = FALSE /\ core1'.seen = core1.seen
    BY <1>1, <1>2 DEF Core1Type
  <1>9. WireType'  BY <1>1, <1>2, <1>5, <1>8 DEF WireType
  <1>10. Numbered'  BY <1>1, <1>8 DEF IInv, WireInv, Numbered
  <1>11. Echoes'  BY <1>1, <1>5, <1>7, <1>8 DEF IInv, WireInv, Echoes
  <1>12. Asked'  BY <1>8 DEF Asked
  <1>13. InTurn'
    <2>1. Heard' = Heard  BY <1>1 DEF Heard
    <2>2. Ordered(Heard, line \o <<f, Quiet>>, events)
      <3>1. events <= events  BY <1>2
      <3>. QED  BY <1>2, <1>3, <3>1, MoreToHear
    <2>. QED  BY <1>1, <1>5, <2>1, <2>2 DEF InTurn
  <1>14. Signals'  BY <1>1, <1>8 DEF IInv, ParkInv, Signals, core0
  <1>15. FlashSafe' /\ Parking'  BY <1>1, <1>8 DEF IInv, ParkInv, FlashSafe, Parking, core0
  <1>. QED  BY <1>9, <1>10, <1>11, <1>12, <1>13, <1>14, <1>15 DEF WireInv, ParkInv

-----------------------------------------------------------------------------
(* The board starts *)

LEMMA Configs ==
    /\ Default \in ConfigType /\ NoSave \in SaveType
    /\ NoSave.owner = None /\ NoSave.step = None /\ NoSave.queue = <<>>
    /\ \A t \in Tasks : t # None
  BY DefaultsKnown DEF Default, Config, ConfigType, NoSave, SaveType, WaitType, None, Tasks

\* What core 1 and the rings are after a start.
WireStart ==
    /\ core1 = Boot /\ line = <<>> /\ flags = {} /\ node = None
    /\ tx = Ring(TxSlots) /\ rx = Ring(RxSlots) /\ stackRx = <<>>
    /\ submitted = 0 /\ gone = <<>> /\ events \in Nat /\ save = NoSave

LEMMA WireStarts == WireStart => WireInv /\ ParkInv
  <1>. SUFFICES ASSUME WireStart  PROVE WireInv /\ ParkInv  OBVIOUS
  <1>. USE DEF WireStart
  <1>1. TxSlots \in Nat \ {0} /\ RxSlots \in Nat \ {0}  BY SlotsDivide
  <1>2. /\ tx \in RingType(TxSlots) /\ Used(tx) = 0 /\ rx \in RingType(RxSlots) /\ Used(rx) = 0
    BY <1>1, EmptyRing
  <1>3. core1 \in Core1Type /\ core1.pending.id = 0 /\ core1.pc = "top" /\ core1.asked = FALSE
        /\ core1.seen = FALSE
    BY SlotsDivide, FrameTypes DEF Boot, Core1Type
  <1>4. WireType  BY <1>1, <1>2, <1>3 DEF WireType
  <1>5. Heard = <<>>
    <2>1. Content(rx, RxSlots) \in Seq(FrameType) /\ Len(Content(rx, RxSlots)) = 0
      BY <1>1, <1>2, ContentType
    <2>2. Content(rx, RxSlots) = <<>>  BY <2>1
    <2>. QED  BY <2>2 DEF Heard
  <1>6. Numbered  BY <1>2, <1>3 DEF Numbered
  <1>7. Echoes /\ Asked  BY <1>2, <1>3 DEF Echoes, Asked
  <1>8. InTurn  BY <1>5 DEF InTurn, Ordered
  <1>9. Signals  BY <1>3, Configs, NodesDiffer DEF Signals, None
  <1>10. FlashSafe /\ Parking  BY <1>3, Configs DEF FlashSafe, Parking, None
  <1>. QED  BY <1>4, <1>6, <1>7, <1>8, <1>9, <1>10 DEF WireInv, ParkInv

\* What the tasks of core 0 are after a start, from what is in flash.
BoardStart ==
    /\ flash \in Seq(ConfigType) /\ Len(flash) <= 1
    /\ active = Load(flash) /\ running = active.role /\ live = active.name /\ ctl = active.name
    /\ signal = None /\ save = NoSave
    /\ control = [pc |-> "idle", reboot |-> FALSE] /\ printer = "run"
    /\ port = <<>> /\ jobActive = FALSE /\ job = None /\ reprobe = FALSE
    /\ excuses = IF flash = <<>> THEN {"power"} ELSE {}

LEMMA BoardStarts == BoardStart => BoardInv
  <1>. SUFFICES ASSUME BoardStart  PROVE BoardInv  OBVIOUS
  <1>. USE DEF BoardStart
  <1>. DEFINE c == active
  <1>1. c \in ConfigType /\ (flash # <<>> => flash = <<c>>)
    <2>1. CASE flash = <<>>  BY <2>1, Configs DEF Load
    <2>2. CASE flash # <<>>
      <3>1. PICK f \in Seq(ConfigType) : f = flash /\ f # <<>> /\ Len(f) <= 1  BY <2>2
      <3>2. Len(f) = 1 /\ f[1] \in ConfigType
        <4>1. Len(f) \in Nat /\ Len(f) # 0  BY <3>1, EmptySeq
        <4>2. PICK l \in Nat : l = Len(f)  BY <4>1
        <4>3. l = 1  BY <3>1, <4>1, <4>2
        <4>. QED  BY <3>1, <4>2, <4>3, ElementOfSeq, 1 \in 1 .. 1
      <3>3. f = <<f[1]>>  BY <3>2
      <3>. QED  BY <3>1, <3>2 DEF Load
    <2>. QED  BY <2>1, <2>2
  <1>2. c.role \in Roles /\ c.name \in Names  BY <1>1 DEF ConfigType
  <1>3. BoardType
    <2>1. active \in ConfigType /\ running \in Roles /\ {live, ctl} \subseteq Names  BY <1>1, <1>2
    <2>2. control \in [pc : {"idle", "save", "reply", "flush"}, reboot : BOOLEAN]  OBVIOUS
    <2>3. port \in Seq(ItemType) /\ \A i \in 1 .. Len(port) : port[i].kind = "rename" => port[i].name \in Names
      <3>1. port \in Seq(ItemType) /\ Len(port) = 0  OBVIOUS
      <3>. QED  BY <3>1, 1 .. 0 = {}
    <2>6. signal \in Names \cup {None} /\ printer \in {"run", "writing", "save", "identify"}
          /\ reprobe \in BOOLEAN /\ jobActive \in BOOLEAN /\ job \in {None, "open", "late"}
      OBVIOUS
    <2>4. save \in SaveType  BY Configs
    <2>5. excuses \subseteq Excuses  BY DEF Excuses
    <2>. QED  BY <2>1, <2>2, <2>3, <2>4, <2>5, <2>6 DEF BoardType
  <1>4. Reported /\ Follows /\ Decided  BY DEF Reported, Follows, Decided, Deciding, None
  <1>5. Named /\ live = active.name  BY DEF Named
  <1>6. Kept  BY <1>1, Configs DEF Kept, Unsaved
  <1>. QED  BY <1>3, <1>4, <1>5, <1>6 DEF BoardInv

LEMMA Starts ==
    ASSUME Init  PROVE IInv
  <1>1. flash = <<Default>> /\ flash \in Seq(ConfigType) /\ Len(flash) <= 1
        /\ Load(flash) = Default /\ Default.role = DefaultRole /\ Default.name = DefaultName
        /\ excuses = IF flash = <<>> THEN {"power"} ELSE {}
    BY Configs DEF Init, Load, Default, Config
  <1>2. BoardStart  BY <1>1 DEF Init, BoardStart
  <1>3. WireStart  BY DEF Init, WireInit, WireStart
  <1>. QED  BY <1>2, <1>3, WireStarts, BoardStarts DEF IInv

LEMMA Restarts ==
    ASSUME IInv, Restart, events' \in Nat  PROVE IInv'
  <1>1. WireStart'  BY DEF Restart, WireStart
  <1>2. flash' = flash /\ flash \in Seq(ConfigType) /\ Len(flash) <= 1
    BY DEF Restart, IInv, BoardInv, BoardType
  <1>3. BoardStart'  BY <1>2 DEF Restart, BoardStart
  <1>4. (WireStart => WireInv /\ ParkInv)'  BY WireStarts, PTL
  <1>5. (BoardStart => BoardInv)'  BY BoardStarts, PTL
  <1>. QED  BY <1>1, <1>3, <1>4, <1>5 DEF IInv

-----------------------------------------------------------------------------
(* Saves *)

LEMMA SaveKept ==
    ASSUME IInv  PROVE save \in SaveType /\ save.queue \in Seq(WaitType) /\ Len(save.queue) \in Nat
                       /\ save.cfg \in ConfigType /\ save.owner \in Tasks \cup {None}
                       /\ excuses \subseteq Excuses /\ active \in ConfigType
                       /\ flags \subseteq {"NODE_UPDATED", "PARK_REQUEST", "PARKED"}
  <1>1. save \in SaveType /\ excuses \subseteq Excuses /\ active \in ConfigType
        /\ flags \subseteq {"NODE_UPDATED", "PARK_REQUEST", "PARKED"}
    BY DEF IInv, BoardInv, BoardType, WireInv, WireType
  <1>2. save.queue \in Seq(WaitType) /\ save.cfg \in ConfigType /\ save.owner \in Tasks \cup {None}
    BY <1>1 DEF SaveType
  <1>. QED  BY <1>1, <1>2

\* Request, with what it adds to the excuses for those it overtakes.
Asks(t, cfg, waiting, over, why) ==
    /\ save' = [owner |-> t, step |-> "park", cfg |-> cfg, queue |-> waiting]
    /\ flags' = flags \cup {"PARK_REQUEST"}
    /\ excuses' = why \cup over \cup (IF core1.pc = "leaving" THEN {"stale"} ELSE {})

\* A save that begins asks core 1 to park.
LEMMA Requests ==
    ASSUME IInv, save.owner = None, NEW t \in Tasks, NEW cfg \in ConfigType, NEW waiting \in Seq(WaitType),
           NEW over \in SUBSET {"overtaken"}, NEW why, excuses \subseteq why, why \subseteq Excuses,
           Asks(t, cfg, waiting, over, why),
           UNCHANGED <<air, queue, stackRx, node>>, events' \in Nat, events <= events'
    PROVE  /\ WireInv' /\ ParkInv'
           /\ save' \in SaveType /\ save'.owner = t /\ save'.cfg = cfg /\ save'.queue = waiting
           /\ why \subseteq excuses' /\ excuses' \subseteq why \cup {"overtaken", "stale"}
           /\ over \subseteq excuses'
  <1>1. /\ save' = [owner |-> t, step |-> "park", cfg |-> cfg, queue |-> waiting]
        /\ flags' = flags \cup {"PARK_REQUEST"} /\ UNCHANGED <<core1, node>>
        /\ excuses' = why \cup over \cup (IF core1.pc = "leaving" THEN {"stale"} ELSE {})
    BY DEF Asks, air
  <1>2. /\ save' \in SaveType /\ save'.owner = t /\ save'.cfg = cfg /\ save'.queue = waiting
        /\ save'.step = "park"
    BY <1>1 DEF SaveType
  <1>3. /\ why \subseteq excuses' /\ excuses' \subseteq why \cup {"overtaken", "stale"}
        /\ over \subseteq excuses'
        /\ core1.pc = "leaving" => "stale" \in excuses'
    BY <1>1
  <1>4. flags' \subseteq {"NODE_UPDATED", "PARK_REQUEST", "PARKED"}  BY <1>1, SaveKept
  <1>5. WireInv'  BY <1>4, WireKept
  <1>6. Signals'
    <2>1. t # None /\ "park" # None  BY Configs DEF None
    <2>. QED  BY <1>1, <1>2, <2>1 DEF IInv, ParkInv, Signals
  <1>7. FlashSafe' /\ Parking'  BY <1>1, <1>2, <1>3 DEF FlashSafe, Parking
  <1>. QED  BY <1>2, <1>3, <1>5, <1>6, <1>7 DEF ParkInv

\* A task that has changed ACTIVE saves it, or waits for those who save.
LEMMA StartsSave ==
    ASSUME IInv, NEW t \in Tasks, NEW cfg \in ConfigType,
           NEW why, excuses \subseteq why, why \subseteq Excuses,
           StartSave(t, cfg, why), cfg = active',
           UNCHANGED <<air, queue, stackRx, node, flash>>, events' \in Nat, events <= events'
    PROVE  /\ WireInv' /\ ParkInv' /\ Kept' /\ save' \in SaveType
           /\ why \subseteq excuses' /\ excuses' \subseteq why \cup {"overtaken", "stale"}
  <1>0. save \in SaveType /\ save.queue \in Seq(WaitType) /\ Len(save.queue) \in Nat  BY SaveKept
  <1>1. CASE save.owner = None
    <2>1. PICK over \in SUBSET {"overtaken"} :
             /\ over = IF save.queue # <<>> THEN {"overtaken"} ELSE {}
             /\ Asks(t, cfg, save.queue, over, why)
      BY <1>1 DEF StartSave, Request, Asks
    <2>2. /\ WireInv' /\ ParkInv'
          /\ save' \in SaveType /\ save'.owner = t /\ save'.cfg = cfg /\ save'.queue = save.queue
          /\ why \subseteq excuses' /\ excuses' \subseteq why \cup {"overtaken", "stale"}
          /\ save.queue # <<>> => "overtaken" \in excuses'
      BY <1>0, <1>1, <2>1, Requests
    <2>3. Kept'  BY <2>2, Configs DEF Kept, LastCfg, Unsaved
    <2>. QED  BY <2>2, <2>3
  <1>2. CASE save.owner # None
    <2>1. /\ save' = [save EXCEPT !.queue = Append(@, [task |-> t, cfg |-> cfg])]
          /\ excuses' = why /\ UNCHANGED <<flags, core1>>
      BY <1>2 DEF StartSave, air
    <2>2. PICK w \in WaitType : w = [task |-> t, cfg |-> cfg] /\ w.cfg = cfg
      <3>1. [task |-> t, cfg |-> cfg] \in WaitType  BY DEF WaitType
      <3>. QED  BY <3>1
    <2>3. PICK q \in Seq(WaitType) : q = Append(save.queue, w)  BY <1>0, AppendProperties
    <2>4. q # <<>> /\ q[Len(q)] = w  BY <1>0, <2>3, AppendProperties
    <2>5. /\ save' \in SaveType /\ save'.owner = save.owner /\ save'.step = save.step
          /\ save'.queue = q
      <3>1. save' = [save EXCEPT !.queue = q]  BY <2>1, <2>2, <2>3
      <3>. QED  BY <1>0, <3>1 DEF SaveType
    <2>6. Kept'  BY <2>2, <2>4, <2>5 DEF Kept, LastCfg
    <2>7. WireInv'  BY <2>1, SaveKept, WireKept
    <2>8. Signals'  BY <2>1, <2>5 DEF IInv, ParkInv, Signals
    <2>9. FlashSafe' /\ Parking'  BY <2>1, <2>5 DEF IInv, ParkInv, FlashSafe, Parking
    <2>. QED  BY <2>1, <2>5, <2>6, <2>7, <2>8, <2>9 DEF ParkInv
  <1>. QED  BY <1>1, <1>2

\* One of those who wait is next; the last of them stays the last, unless it overtakes.
LEMMA Acquires ==
    ASSUME IInv, Acquire  PROVE IInv'
  <1>0. save \in SaveType /\ save.queue \in Seq(WaitType) /\ save.owner = None /\ excuses \subseteq Excuses
        /\ events \in Nat
    BY SaveKept DEF Acquire, IInv, WireInv, WireType
  <1>1. PICK q \in Seq(WaitType) : q = save.queue  BY <1>0
  <1>2. PICK n \in Nat : n = Len(q)  BY <1>1
  <1>3. PICK i \in DOMAIN save.queue :
           Request(save.queue[i].task, save.queue[i].cfg,
                   [j \in 1 .. Len(save.queue) - 1 |-> save.queue[IF j < i THEN j ELSE j + 1]], i > 1, excuses)
    BY Zenon DEF Acquire
  <1>4. PICK z : z = [j \in 1 .. n - 1 |-> q[IF j < i THEN j ELSE j + 1]]  OBVIOUS
  <1>5. i \in 1 .. n /\ \A j \in 1 .. n : q[j] \in WaitType /\ q[j].task \in Tasks /\ q[j].cfg \in ConfigType
    <2>1. \A j \in 1 .. n : q[j] \in WaitType  BY <1>2, ElementOfSeq
    <2>2. DOMAIN q = 1 .. n  BY <1>2
    <2>. QED  BY <1>1, <1>3, <2>1, <2>2 DEF WaitType
  <1>6. z \in Seq(WaitType) /\ Len(z) = n - 1
    <2>1. \A j \in 1 .. n - 1 : z[j] \in WaitType
      <3>1. ASSUME NEW j \in 1 .. n - 1  PROVE z[j] \in WaitType
        <4>1. j \in 1 .. n /\ j + 1 \in 1 .. n  BY <1>2
        <4>. QED  BY <1>4, <1>5, <4>1
      <3>. QED  BY <3>1
    <2>2. z \in [1 .. n - 1 -> WaitType]  BY <1>4, <2>1
    <2>3. n - 1 \in Nat  BY <1>5
    <2>. QED  BY <2>2, <2>3
  <1>7. PICK t \in Tasks, c \in ConfigType :
           t = q[i].task /\ c = q[i].cfg /\ Request(t, c, z, i > 1, excuses)
    <2>1. z = [j \in 1 .. Len(save.queue) - 1 |-> save.queue[IF j < i THEN j ELSE j + 1]]
      BY <1>1, <1>2, <1>4
    <2>. QED  BY <1>1, <1>3, <1>5, <2>1
  <1>8. UNCHANGED <<air, queue, stackRx, node, events, active, flash, running, names, control, printer,
                    reprobe, jobs>>
    BY DEF Acquire
  <1>9. /\ WireInv' /\ ParkInv'
        /\ save' \in SaveType /\ save'.owner = t /\ save'.cfg = c /\ save'.queue = z
        /\ excuses \subseteq excuses' /\ excuses' \subseteq excuses \cup {"overtaken", "stale"}
        /\ i > 1 => "overtaken" \in excuses'
    <2>1. PICK over \in SUBSET {"overtaken"} :
             over = (IF i > 1 THEN {"overtaken"} ELSE {}) /\ Asks(t, c, z, over, excuses)
      BY <1>7 DEF Request, Asks
    <2>2. PICK w : w = excuses /\ excuses \subseteq w /\ w \subseteq Excuses  BY <1>0
    <2>3. events' \in Nat /\ events <= events'  BY <1>0, <1>8
    <2>4. Asks(t, c, z, over, w) /\ UNCHANGED <<air, queue, stackRx, node>>  BY <1>8, <2>1, <2>2
    <2>5. /\ save.owner = None /\ z \in Seq(WaitType) /\ t \in Tasks /\ c \in ConfigType
          /\ over \in SUBSET {"overtaken"}
      BY <1>0, <1>6, <1>7, <2>1
    <2>6. /\ WireInv' /\ ParkInv'
          /\ save' \in SaveType /\ save'.owner = t /\ save'.cfg = c /\ save'.queue = z
          /\ w \subseteq excuses' /\ excuses' \subseteq w \cup {"overtaken", "stale"}
          /\ over \subseteq excuses'
      BY <2>2, <2>3, <2>4, <2>5, Requests
    <2>. QED  BY <2>1, <2>2, <2>6
  <1>10. BoardType'
    <2>1. excuses' \subseteq Excuses  BY <1>0, <1>9 DEF Excuses
    <2>. QED  BY <1>8, <1>9, <2>1 DEF IInv, BoardInv, BoardType, names, jobs
  <1>11. Reported' /\ Follows' /\ Decided'
    <2>1. UNCHANGED <<job, port, jobActive, control, printer>>  BY <1>8 DEF jobs
    <2>2. "cut" \notin excuses'  BY <1>9 DEF IInv, BoardInv, Follows
    <2>. QED  BY <2>1, <2>2 DEF IInv, BoardInv, Reported, Follows, Decided, Deciding
  <1>12. Named' /\ (live' = active'.name \/ "shell" \in excuses')
    BY <1>8, <1>9 DEF IInv, BoardInv, Named, names
  <1>13. Kept'
    <2>1. CASE excuses \cap Unsaved # {}  BY <1>9, <2>1 DEF Kept
    <2>2. CASE i > 1  BY <1>9, <2>2 DEF Kept, Unsaved
    <2>3. CASE excuses \cap Unsaved = {} /\ ~(i > 1)
      <3>0. i = 1 /\ n # 0  BY <1>5, <2>3
      <3>1. save.queue # <<>>  BY <1>1, <1>2, <3>0
      <3>2. q[n].cfg = active
        BY <1>1, <1>2, <2>3, <3>1 DEF IInv, BoardInv, Kept, LastCfg
      <3>3. CASE n = 1
        <4>1. z = <<>>  BY <1>6, <3>3
        <4>. QED  BY <1>7, <1>8, <1>9, <3>0, <3>2, <3>3, <4>1, Configs DEF Kept, LastCfg
      <3>4. CASE n # 1
        <4>1. n - 1 \in 1 .. n - 1 /\ ~(n - 1 < i) /\ (n - 1) + 1 = n  BY <3>0, <3>4
        <4>2. PICK k \in Nat : k = n - 1 /\ k \in 1 .. n - 1 /\ ~(k < i) /\ k + 1 = n  BY <4>1
        <4>3. z[k] = q[k + 1]  BY <1>4, <4>2
        <4>4. z # <<>> /\ z[Len(z)] = q[n]
          <5>1. Len(z) = k /\ k # 0  BY <1>6, <4>2
          <5>. QED  BY <4>2, <4>3, <5>1
        <4>. QED  BY <1>8, <1>9, <3>2, <4>4 DEF Kept, LastCfg
      <3>. QED  BY <3>3, <3>4
    <2>. QED  BY <2>1, <2>2, <2>3
  <1>. QED  BY <1>9, <1>10, <1>11, <1>12, <1>13 DEF IInv, BoardInv

\* Core 1 is parked, and the block is erased.
LEMMA Erases ==
    ASSUME IInv, Erase  PROVE IInv'
  <1>1. /\ save.step = "park" /\ "PARKED" \in flags /\ flash' = <<>>
        /\ save' = [save EXCEPT !.step = "erased"]
        /\ UNCHANGED <<air, queue, stackRx, node, flags, core1, events, active, running, names, control,
                       printer, reprobe, jobs, excuses>>
    BY DEF Erase, wire, signals, air
  <1>2. /\ save' \in SaveType /\ save'.owner = save.owner /\ save'.step = "erased" /\ save'.queue = save.queue
        /\ save'.cfg = save.cfg
    BY <1>1, SaveKept DEF SaveType
  <1>3. save.owner # None  BY <1>1 DEF IInv, ParkInv, Signals, None
  <1>4. WireInv'
    <2>1. events' \in Nat /\ events <= events'  BY <1>1 DEF IInv, WireInv, WireType
    <2>. QED  BY <1>1, <2>1, SaveKept, WireKept
  <1>5. Signals'  BY <1>1, <1>2, <1>3 DEF IInv, ParkInv, Signals, None
  <1>6. FlashSafe'  BY <1>1, <1>3 DEF IInv, ParkInv, Signals, FlashSafe, Parking
  <1>7. Parking'  BY <1>1 DEF IInv, ParkInv, Parking
  <1>8. BoardType'
    <2>1. <<>> \in Seq(ConfigType) /\ Len(<<>>) <= 1  BY EmptySeq
    <2>. QED  BY <1>1, <1>2, <2>1 DEF IInv, BoardInv, BoardType, names, jobs
  <1>9. Reported' /\ Follows' /\ Decided' /\ Named' /\ (live' = active'.name \/ "shell" \in excuses')
    BY <1>1 DEF IInv, BoardInv, Reported, Follows, Decided, Deciding, Named, names, jobs
  <1>10. Kept'  BY <1>1, <1>2, <1>3 DEF IInv, BoardInv, Kept, LastCfg
  <1>. QED  BY <1>4, <1>5, <1>6, <1>7, <1>8, <1>9, <1>10 DEF IInv, ParkInv, BoardInv

\* The block is written, or core 1 did not park; whoever saved goes on.
LEMMA Ends ==
    ASSUME IInv, Written \/ ParkTimeout  PROVE IInv'
  <1>1. PICK ok \in BOOLEAN : SaveEnds(ok) /\ save.step \in {"park", "erased"}
    BY DEF Written, ParkTimeout
  <1>2. /\ save' = [NoSave EXCEPT !.queue = save.queue] /\ flags' = flags \ {"PARK_REQUEST"}
        /\ control' = IF save.owner = "control" THEN [pc |-> "reply", reboot |-> control.reboot /\ ok] ELSE control
        /\ printer' = IF save.owner = "printer" THEN "run" ELSE printer
        /\ UNCHANGED <<air, queue, stackRx, node, core1, events, active, running, names, reprobe, jobs>>
    BY <1>1 DEF SaveEnds, air
  <1>3. /\ save' \in SaveType /\ save'.owner = None /\ save'.step = None /\ save'.queue = save.queue
    BY <1>2, SaveKept, Configs DEF NoSave, SaveType
  <1>4. /\ flash' \in Seq(ConfigType) /\ Len(flash') <= 1 /\ excuses' \subseteq excuses \cup {"failed"}
        /\ excuses \subseteq excuses' \cup {"stale"} \cup Unsaved
    <2>1. CASE Written
      <3>1. flash' = <<save.cfg>> /\ save.cfg \in ConfigType  BY <2>1, SaveKept DEF Written
      <3>2. flash' \in Seq(ConfigType) /\ Len(flash') <= 1  BY <3>1
      <3>. QED  BY <2>1, <3>2 DEF Written
    <2>2. CASE ParkTimeout
      BY <2>2 DEF ParkTimeout, IInv, BoardInv, BoardType
    <2>. QED  BY <2>1, <2>2
  <1>5. WireInv'
    <2>1. events' \in Nat /\ events <= events'  BY <1>2 DEF IInv, WireInv, WireType
    <2>2. flags' \subseteq {"NODE_UPDATED", "PARK_REQUEST", "PARKED"}  BY <1>2, SaveKept
    <2>. QED  BY <1>2, <2>1, <2>2, WireKept
  <1>6. Signals'  BY <1>2, <1>3 DEF IInv, ParkInv, Signals
  <1>7. FlashSafe' /\ Parking'  BY <1>2, <1>3 DEF FlashSafe, Parking, None
  <1>8. BoardType'
    <2>1. control' \in [pc : {"idle", "save", "reply", "flush"}, reboot : BOOLEAN]
          /\ printer' \in {"run", "writing", "save", "identify"}
      BY <1>2 DEF IInv, BoardInv, BoardType
    <2>2. excuses' \subseteq Excuses  BY <1>4, SaveKept DEF Excuses
    <2>. QED  BY <1>2, <1>3, <1>4, <2>1, <2>2 DEF IInv, BoardInv, BoardType, names, jobs
  <1>9. Reported' /\ Follows'  BY <1>2, <1>4 DEF IInv, BoardInv, Reported, Follows, jobs
  <1>10. Decided'  BY <1>2 DEF IInv, BoardInv, BoardType, Decided, Deciding, jobs
  <1>11. Named' /\ (live' = active'.name \/ "shell" \in excuses')
    BY <1>2, <1>4 DEF IInv, BoardInv, Named, names, Unsaved
  <1>12. Kept'
    <2>1. CASE ParkTimeout  BY <2>1 DEF ParkTimeout, Kept, Unsaved
    <2>2. CASE Written
      <3>1. /\ flash' = <<save.cfg>> /\ active' = active /\ save.owner # None
            /\ excuses' = excuses \ ({"stale"} \cup IF save.cfg = active /\ save.queue = <<>> THEN Unsaved ELSE {})
        BY <1>2, <2>2 DEF Written, IInv, ParkInv, Signals, None
      <3>2. CASE save.queue = <<>> /\ save.cfg = active
        BY <1>3, <3>1, <3>2 DEF Kept
      <3>3. CASE save.queue = <<>> /\ save.cfg # active
        <4>1. excuses \cap Unsaved # {}  BY <3>1, <3>3 DEF IInv, BoardInv, Kept, LastCfg
        <4>. QED  BY <3>1, <3>3, <4>1 DEF Kept, Unsaved
      <3>4. CASE save.queue # <<>>
        BY <1>3, <3>1, <3>4 DEF IInv, BoardInv, Kept, LastCfg, Unsaved
      <3>. QED  BY <3>2, <3>3, <3>4
    <2>. QED  BY <2>1, <2>2
  <1>. QED  BY <1>5, <1>6, <1>7, <1>8, <1>9, <1>10, <1>11, <1>12 DEF IInv, ParkInv, BoardInv

-----------------------------------------------------------------------------
(* The port of the printer *)

\* The port as it is read: what is in it, first to last.
LEMMA Port ==
    ASSUME IInv
    PROVE  /\ port \in Seq(ItemType) /\ Len(port) \in Nat
           /\ \A i \in 1 .. Len(port) : port[i] \in ItemType
           /\ \A i \in 1 .. Len(port) : port[i].kind = "rename" => port[i].name \in Names
           /\ port # <<>> => /\ 1 \in 1 .. Len(port) /\ Head(port) = port[1]
                             /\ Tail(port) \in Seq(ItemType) /\ Len(Tail(port)) = Len(port) - 1
                             /\ \A i \in 1 .. Len(port) - 1 : Tail(port)[i] = port[i + 1]
  <1>1. /\ port \in Seq(ItemType) /\ Len(port) \in Nat
        /\ \A i \in 1 .. Len(port) : port[i].kind = "rename" => port[i].name \in Names
    BY DEF IInv, BoardInv, BoardType
  <1>2. \A i \in 1 .. Len(port) : port[i] \in ItemType  BY <1>1, ElementOfSeq
  <1>3. ASSUME port # <<>>
        PROVE  /\ 1 \in 1 .. Len(port) /\ Head(port) = port[1]
               /\ Tail(port) \in Seq(ItemType) /\ Len(Tail(port)) = Len(port) - 1
               /\ \A i \in 1 .. Len(port) - 1 : Tail(port)[i] = port[i + 1]
    BY <1>1, <1>3
  <1>. QED  BY <1>1, <1>2, <1>3

\* What the invariant says of the port and of the job, of any port p.
PortHolds(p, j, active1) ==
    /\ p \in Seq(ItemType) /\ \A i \in 1 .. Len(p) : p[i].kind = "rename" => p[i].name \in Names
    /\ j = "open" =>
          \/ \E i \in 1 .. Len(p) :
                p[i].kind = "start" /\ \A k \in 1 .. Len(p) : i < k => p[k].kind # "end"
          \/ active1 /\ \A k \in 1 .. Len(p) : p[k].kind # "end"
    /\ \A i \in 1 .. Len(p) : p[i].kind = "bytes" =>
          IF i = 1 THEN active1 ELSE p[i - 1].kind = "start"

\* The printer task takes what is first.
LEMMA Taken ==
    ASSUME IInv, port # <<>>, NEW active1 \in BOOLEAN,
           CASE Head(port).kind = "start" -> active1
             [] Head(port).kind = "end" -> ~active1
             [] OTHER -> active1 = jobActive
    PROVE  PortHolds(Tail(port), job, active1)
  <1>1. PICK p \in Seq(ItemType), t \in Seq(ItemType), n \in Nat :
           /\ p = port /\ t = Tail(port) /\ Len(t) = n /\ Len(p) = n + 1 /\ p[1] = Head(port)
           /\ \A i \in 1 .. n : t[i] = p[i + 1]
    <2>1. PICK m \in Nat : m = Len(port) /\ m # 0  BY Port, EmptySeq
    <2>2. PICK n \in Nat : n + 1 = m /\ m - 1 = n  BY <2>1, m - 1 \in Nat
    <2>. QED  BY <2>1, <2>2, Port
  <1>2. /\ \A i \in 1 .. n + 1 : p[i].kind = "rename" => p[i].name \in Names
        /\ Reported /\ Follows /\ jobActive \in BOOLEAN
    BY <1>1, Port DEF IInv, BoardInv, BoardType
  <1>3. p[1].kind \in {"start", "bytes", "end", "rename"}
    <2>1. 1 \in 1 .. n + 1  OBVIOUS
    <2>2. p[1] \in ItemType  BY <1>1, <2>1, ElementOfSeq
    <2>. QED  BY <2>2 DEF ItemType
  <1>4. \A i \in 1 .. n : i + 1 \in 1 .. n + 1 /\ i + 1 # 1 /\ (i + 1) - 1 = i  OBVIOUS
  <1>5. ASSUME NEW i \in 1 .. n, t[i].kind = "bytes"
        PROVE  IF i = 1 THEN active1 ELSE t[i - 1].kind = "start"
    <2>1. p[i + 1].kind = "bytes" /\ p[i].kind = "start"  BY <1>1, <1>2, <1>4, <1>5 DEF Follows
    <2>2. CASE i = 1  BY <1>1, <2>1, <2>2
    <2>3. CASE i # 1
      <3>1. PICK k \in 1 .. n : k = i - 1 /\ k + 1 = i  BY <2>3
      <3>. QED  BY <1>1, <2>1, <2>3, <3>1
    <2>. QED  BY <2>2, <2>3
  <1>6. ASSUME job = "open"
        PROVE  \/ \E i \in 1 .. n : t[i].kind = "start" /\ \A k \in 1 .. n : i < k => t[k].kind # "end"
               \/ active1 /\ \A k \in 1 .. n : t[k].kind # "end"
    <2>1. CASE \E i \in 1 .. n + 1 : p[i].kind = "start" /\ \A k \in 1 .. n + 1 : i < k => p[k].kind # "end"
      <3>1. PICK i \in 1 .. n + 1 : p[i].kind = "start" /\ \A k \in 1 .. n + 1 : i < k => p[k].kind # "end"
        BY <2>1
      <3>2. CASE i = 1
        <4>1. active1  BY <1>1, <3>1, <3>2
        <4>2. \A k \in 1 .. n : t[k].kind # "end"  BY <1>1, <1>4, <3>1, <3>2
        <4>. QED  BY <4>1, <4>2
      <3>3. CASE i # 1
        <4>1. PICK h \in 1 .. n : h + 1 = i  BY <3>1, <3>3, i - 1 \in 1 .. n
        <4>2. t[h].kind = "start"  BY <1>1, <3>1, <4>1
        <4>3. \A k \in 1 .. n : h < k => t[k].kind # "end"
          <5>1. ASSUME NEW k \in 1 .. n, h < k  PROVE t[k].kind # "end"
            <6>1. i < k + 1  BY <4>1, <5>1
            <6>. QED  BY <1>1, <1>4, <3>1, <6>1
          <5>. QED  BY <5>1
        <4>. QED  BY <4>2, <4>3
      <3>. QED  BY <3>2, <3>3
    <2>2. CASE jobActive /\ \A k \in 1 .. n + 1 : p[k].kind # "end"
      <3>1. \A k \in 1 .. n : t[k].kind # "end"  BY <1>1, <1>4, <2>2
      <3>2. p[1].kind # "end"  BY <2>2, 1 \in 1 .. n + 1
      <3>3. active1  BY <1>1, <1>3, <2>2, <3>2
      <3>. QED  BY <3>1, <3>3
    <2>. QED  BY <1>1, <1>2, <1>6, <2>1, <2>2 DEF Reported
  <1>7. \A i \in 1 .. n : t[i].kind = "rename" => t[i].name \in Names  BY <1>1, <1>2, <1>4
  <1>8. PortHolds(t, job, active1)  BY <1>1, <1>5, <1>6, <1>7 DEF PortHolds
  <1>. QED  BY <1>1, <1>8

\* The node's task puts more behind what is there: a rename, the end of a job, or its start.
LEMMA Put ==
    ASSUME IInv, NEW x \in ItemType, x.kind # "bytes", x.kind = "rename" => x.name \in Names,
           NEW j \in {None, job}, x.kind = "end" => j = None
    PROVE  PortHolds(Append(port, x), j, jobActive)
  <1>1. PICK p \in Seq(ItemType), n \in Nat : p = port /\ n = Len(p)  BY Port
  <1>2. PICK q \in Seq(ItemType) : q = Append(p, x)  BY AppendProperties
  <1>3. Len(q) = n + 1 /\ q[n + 1] = x /\ \A i \in 1 .. n : q[i] = p[i]
    BY <1>1, <1>2, AppendProperties
  <1>4. /\ \A i \in 1 .. n : p[i].kind = "rename" => p[i].name \in Names
        /\ Reported /\ Follows
    BY <1>1, Port DEF IInv, BoardInv
  <1>5. \A i \in 1 .. n + 1 : i \in 1 .. n \/ i = n + 1  OBVIOUS
  <1>6. \A i \in 1 .. n + 1 : q[i].kind = "rename" => q[i].name \in Names  BY <1>3, <1>4, <1>5
  <1>7. ASSUME NEW i \in 1 .. n + 1, q[i].kind = "bytes"
        PROVE  IF i = 1 THEN jobActive ELSE q[i - 1].kind = "start"
    <2>1. i \in 1 .. n /\ p[i].kind = "bytes"  BY <1>3, <1>5, <1>7
    <2>2. CASE i = 1  BY <1>1, <1>4, <2>1, <2>2 DEF Follows
    <2>3. CASE i # 1
      <3>1. i - 1 \in 1 .. n  BY <2>3
      <3>. QED  BY <1>1, <1>3, <1>4, <2>1, <2>3, <3>1 DEF Follows
    <2>. QED  BY <2>2, <2>3
  <1>8. ASSUME j = "open"
        PROVE  \/ \E i \in 1 .. n + 1 :
                     q[i].kind = "start" /\ \A k \in 1 .. n + 1 : i < k => q[k].kind # "end"
               \/ jobActive /\ \A k \in 1 .. n + 1 : q[k].kind # "end"
    <2>1. job = "open" /\ x.kind # "end"  BY <1>8 DEF None
    <2>2. CASE \E i \in 1 .. n : p[i].kind = "start" /\ \A k \in 1 .. n : i < k => p[k].kind # "end"
      <3>1. PICK i \in 1 .. n : p[i].kind = "start" /\ \A k \in 1 .. n : i < k => p[k].kind # "end"
        BY <2>2
      <3>2. i \in 1 .. n + 1 /\ q[i].kind = "start"  BY <1>3, <3>1
      <3>3. \A k \in 1 .. n + 1 : i < k => q[k].kind # "end"  BY <1>3, <1>5, <2>1, <3>1
      <3>. QED  BY <3>2, <3>3
    <2>3. CASE jobActive /\ \A k \in 1 .. n : p[k].kind # "end"  BY <1>3, <1>5, <2>1, <2>3
    <2>. QED  BY <1>1, <1>4, <2>1, <2>2, <2>3 DEF Reported
  <1>9. PortHolds(q, j, jobActive)  BY <1>3, <1>6, <1>7, <1>8 DEF PortHolds
  <1>. QED  BY <1>1, <1>2, <1>9

\* A job's start, and its first bytes.
LEMMA PutJob ==
    ASSUME IInv, NEW x \in ItemType, x.kind = "start", NEW y \in ItemType, y.kind = "bytes",
           NEW j
    PROVE  PortHolds(port \o <<x, y>>, j, jobActive)
  <1>1. PICK p \in Seq(ItemType), n \in Nat : p = port /\ n = Len(p)  BY Port
  <1>2. PICK q \in Seq(ItemType) : q = p \o <<x, y>>  BY ConcatProperties, <<x, y>> \in Seq(ItemType)
  <1>3. /\ Len(q) = n + 2 /\ q[n + 1] = x /\ q[n + 2] = y
        /\ \A i \in 1 .. n : q[i] = p[i]
    BY <1>1, <1>2
  <1>4. /\ \A i \in 1 .. n : p[i].kind = "rename" => p[i].name \in Names
        /\ Follows
    BY <1>1, Port DEF IInv, BoardInv
  <1>5. \A i \in 1 .. n + 2 : i \in 1 .. n \/ i = n + 1 \/ i = n + 2  OBVIOUS
  <1>6. \A i \in 1 .. n + 2 : q[i].kind = "rename" => q[i].name \in Names  BY <1>3, <1>4, <1>5
  <1>7. ASSUME NEW i \in 1 .. n + 2, q[i].kind = "bytes"
        PROVE  IF i = 1 THEN jobActive ELSE q[i - 1].kind = "start"
    <2>1. CASE i = n + 2
      <3>1. i # 1 /\ i - 1 = n + 1  BY <2>1
      <3>. QED  BY <1>3, <3>1
    <2>2. CASE i \in 1 .. n
      <3>1. p[i].kind = "bytes"  BY <1>3, <1>7, <2>2
      <3>2. CASE i = 1  BY <1>1, <1>4, <2>2, <3>1, <3>2 DEF Follows
      <3>3. CASE i # 1
        <4>1. i - 1 \in 1 .. n  BY <2>2, <3>3
        <4>. QED  BY <1>1, <1>3, <1>4, <2>2, <3>1, <3>3, <4>1 DEF Follows
      <3>. QED  BY <3>2, <3>3
    <2>. QED  BY <1>3, <1>5, <1>7, <2>1, <2>2
  <1>8. \E i \in 1 .. n + 2 : q[i].kind = "start" /\ \A k \in 1 .. n + 2 : i < k => q[k].kind # "end"
    <2>1. n + 1 \in 1 .. n + 2 /\ \A k \in 1 .. n + 2 : n + 1 < k => k = n + 2  OBVIOUS
    <2>. QED  BY <1>3, <2>1
  <1>9. PortHolds(q, j, jobActive)  BY <1>3, <1>6, <1>7, <1>8 DEF PortHolds
  <1>. QED  BY <1>1, <1>2, <1>9

-----------------------------------------------------------------------------
(* Core 0's tasks *)

\* The parts of the board's invariant that an action leaves as they are.
LEMMA NamesKept ==
    ASSUME IInv, UNCHANGED <<active, live, ctl, signal>>, excuses \subseteq excuses'
    PROVE  Named' /\ (live' = active'.name \/ "shell" \in excuses')
  BY DEF IInv, BoardInv, Named

LEMMA FlashKept ==
    ASSUME IInv, UNCHANGED <<active, flash, save>>, excuses \subseteq excuses'
    PROVE  Kept'
  BY DEF IInv, BoardInv, Kept, LastCfg

LEMMA JobsKept ==
    ASSUME IInv, UNCHANGED <<port, jobActive>>, job' = job \/ job' # "open",
           printer' = "writing" => printer = "writing", "cut" \notin excuses'
    PROVE  Reported' /\ Follows'
  BY DEF IInv, BoardInv, Reported, Follows

LEMMA PortKept ==
    ASSUME PortHolds(port', job', jobActive'), printer' = "writing" => jobActive', "cut" \notin excuses'
    PROVE  Reported' /\ Follows'
  BY DEF PortHolds, Reported, Follows

\* A restart is decided only when no job is reported; what is not reported yet is late.
LEMMA DecidesInTime ==
    ASSUME IInv, ~jobActive, job' = IF Unreported THEN "late" ELSE job
    PROVE  job' # "open"
  <1>. SUFFICES ASSUME job' = "open"  PROVE FALSE  OBVIOUS
  <1>1. job = "open" /\ ~Unreported  OBVIOUS
  <1>2. PICK i \in 1 .. Len(port) : port[i].kind = "start"  BY <1>1 DEF IInv, BoardInv, Reported
  <1>3. DOMAIN port = 1 .. Len(port)  BY Port
  <1>. QED  BY <1>1, <1>2, <1>3 DEF Unreported

LEMMA SetsConfig ==
    ASSUME IInv, NEW n \in Names, NEW r \in Roles, SetConfig(n, r)  PROVE IInv'
  <1>1. /\ control.pc = "idle" /\ (r # running => ~jobActive) /\ events' = events + 1
        /\ active' = Config(n, r) /\ live' = n
        /\ ctl' = IF live # n THEN n ELSE ctl
        /\ control' = [pc |-> "save", reboot |-> r # running]
        /\ job' = IF r # running /\ Unreported THEN "late" ELSE job
        /\ UNCHANGED <<air, queue, stackRx, node, flash, running, signal, printer, reprobe, port, jobActive>>
    BY DEF SetConfig, Event, Reregister, Follow
  <1>2. PICK why : why = excuses \cup IF live # n /\ signal # None THEN {"late"} ELSE {}  OBVIOUS
  <1>3. PICK c \in ConfigType : c = active' /\ c.name = n
    BY <1>1 DEF Config, ConfigType
  <1>4. StartSave("control", c, why)  BY <1>1, <1>2, <1>3 DEF SetConfig
  <1>5. excuses \subseteq Excuses /\ events \in Nat /\ events' \in Nat /\ events <= events'
    BY <1>1, SaveKept DEF IInv, WireInv, WireType
  <1>6. excuses \subseteq why /\ why \subseteq Excuses /\ "control" \in Tasks
    BY <1>2, <1>5 DEF Excuses, Tasks
  <1>7. /\ WireInv' /\ ParkInv' /\ Kept' /\ save' \in SaveType
        /\ why \subseteq excuses' /\ excuses' \subseteq why \cup {"overtaken", "stale"}
    BY <1>1, <1>3, <1>4, <1>5, <1>6, StartsSave
  <1>8. BoardType'
    <2>1. control' \in [pc : {"idle", "save", "reply", "flush"}, reboot : BOOLEAN]  BY <1>1
    <2>2. excuses' \subseteq Excuses  BY <1>6, <1>7 DEF Excuses
    <2>3. job' \in {None, "open", "late"} /\ live' \in Names /\ ctl' \in Names
      BY <1>1 DEF IInv, BoardInv, BoardType
    <2>. QED  BY <1>1, <1>3, <1>7, <2>1, <2>2, <2>3 DEF IInv, BoardInv, BoardType
  <1>9. Reported' /\ Follows'
    <2>1. "cut" \notin excuses'  BY <1>2, <1>7 DEF IInv, BoardInv, Follows
    <2>. QED  BY <1>1, <2>1, JobsKept
  <1>10. Decided'
    <2>1. CASE r # running
      <3>1. job' # "open"  BY <1>1, <2>1, DecidesInTime
      <3>. QED  BY <1>1, <3>1 DEF Decided
    <2>2. CASE r = running  BY <1>1, <2>2 DEF Decided, Deciding
    <2>. QED  BY <2>1, <2>2
  <1>11. Named' /\ live' = active'.name
    BY <1>1, <1>2, <1>3, <1>7 DEF IInv, BoardInv, Named
  <1>. QED  BY <1>7, <1>8, <1>9, <1>10, <1>11 DEF IInv, BoardInv

LEMMA ControlKeeps ==
    ASSUME IInv, AskReboot \/ Reply \/ NameChanged  PROVE IInv'
  <1>1. /\ UNCHANGED <<wire, active, flash, running, live, save, printer, reprobe, port, jobActive, excuses>>
        /\ events' = events \/ events' = events + 1
    BY DEF AskReboot, Reply, NameChanged, Event, names, jobs
  <1>2. WireInv' /\ ParkInv'
    <2>1. events' \in Nat /\ events <= events'  BY <1>1 DEF IInv, WireInv, WireType
    <2>. QED  BY <1>1, <2>1, Apart
  <1>3. /\ control' \in [pc : {"idle", "save", "reply", "flush"}, reboot : BOOLEAN]
        /\ job' \in {None, "open", "late"} /\ ctl' \in Names /\ signal' \in Names \cup {None}
        /\ Decided' /\ Named' /\ (job' = job \/ job' # "open")
    <2>0. /\ control \in [pc : {"idle", "save", "reply", "flush"}, reboot : BOOLEAN]
          /\ job \in {None, "open", "late"} /\ {live, ctl} \subseteq Names
          /\ signal \in Names \cup {None} /\ Decided /\ Named
      BY DEF IInv, BoardInv, BoardType
    <2>1. CASE AskReboot
      <3>1. /\ control' = [pc |-> "reply", reboot |-> TRUE] /\ ~jobActive
            /\ job' = IF Unreported THEN "late" ELSE job
            /\ UNCHANGED <<live, ctl, signal, excuses>>
        BY <2>1 DEF AskReboot, names
      <3>2. job' # "open"  BY <3>1, DecidesInTime
      <3>3. job' \in {None, "open", "late"}  BY <2>0, <3>1
      <3>4. control'.pc = "reply" /\ control' \in [pc : {"idle", "save", "reply", "flush"}, reboot : BOOLEAN]
        BY <3>1
      <3>5. Decided'  BY <3>2, <3>4 DEF Decided
      <3>6. Named' /\ ctl' \in Names /\ signal' \in Names \cup {None}  BY <2>0, <3>1 DEF Named
      <3>. QED  BY <3>2, <3>3, <3>4, <3>5, <3>6
    <2>2. CASE Reply
      <3>1. /\ control.pc = "reply" /\ UNCHANGED <<live, ctl, signal, excuses, job>>
            /\ \/ control.reboot /\ control' = [control EXCEPT !.pc = "flush"]
               \/ control' = [pc |-> "idle", reboot |-> FALSE]
        BY <2>2 DEF Reply, names, jobs
      <3>2. \/ control'.pc = "flush" /\ control'.reboot = TRUE /\ control.pc = "reply" /\ control.reboot
            \/ control'.pc = "idle" /\ control'.reboot = FALSE
        BY <2>0, <3>1
      <3>3. control' \in [pc : {"idle", "save", "reply", "flush"}, reboot : BOOLEAN]
        <4>1. CASE control' = [control EXCEPT !.pc = "flush"]  BY <2>0, <4>1
        <4>2. CASE control' = [pc |-> "idle", reboot |-> FALSE]  BY <4>2
        <4>. QED  BY <3>1, <4>1, <4>2
      <3>4. Decided'  BY <2>0, <3>1, <3>2 DEF Decided, Deciding
      <3>5. Named' /\ ctl' \in Names /\ signal' \in Names \cup {None}  BY <2>0, <3>1 DEF Named
      <3>. QED  BY <2>0, <3>1, <3>3, <3>4, <3>5
    <2>3. CASE NameChanged
      <3>1. /\ signal # None /\ ctl' = signal /\ signal' = None
            /\ UNCHANGED <<live, excuses, job, control>>
        BY <2>3 DEF NameChanged, Follow, jobs
      <3>. QED  BY <2>0, <3>1 DEF Decided, Deciding, Named
    <2>. QED  BY <2>1, <2>2, <2>3
  <1>4. BoardType'  BY <1>1, <1>3 DEF IInv, BoardInv, BoardType
  <1>5. Reported' /\ Follows'  BY <1>1, <1>3, JobsKept DEF IInv, BoardInv, Follows
  <1>6. live' = active'.name \/ "shell" \in excuses'  BY <1>1 DEF IInv, BoardInv
  <1>7. Kept'  BY <1>1, FlashKept
  <1>. QED  BY <1>2, <1>3, <1>4, <1>5, <1>6, <1>7 DEF IInv, BoardInv

\* What the node's task puts into the port.
LEMMA NodeKeeps ==
    ASSUME IInv, JobStart \/ JobEnd \/ (\E n \in Names : ClientRenames(n))  PROVE IInv'
  <1>1. /\ UNCHANGED <<wire, active, flash, running, live, ctl, signal, save, control, printer, reprobe,
                       jobActive, excuses>>
        /\ events' = events \/ events' = events + 1
    BY DEF JobStart, JobEnd, ClientRenames, Event, names
  <1>2. WireInv' /\ ParkInv'
    <2>1. events' \in Nat /\ events <= events'  BY <1>1 DEF IInv, WireInv, WireType
    <2>. QED  BY <1>1, <2>1, Apart
  <1>3. /\ PortHolds(port', job', jobActive') /\ job' \in {None, "open", "late"}
        /\ Deciding => job' # "open"
    <2>1. CASE JobStart
      <3>1. PICK x \in ItemType, y \in ItemType :
               x = Item("start", None) /\ x.kind = "start" /\ y = Item("bytes", None) /\ y.kind = "bytes"
        <4>1. /\ Item("start", None) \in ItemType /\ Item("start", None).kind = "start"
              /\ Item("bytes", None) \in ItemType /\ Item("bytes", None).kind = "bytes"
          BY DEF Item, ItemType
        <4>. QED  BY <4>1
      <3>2. port' = port \o <<x, y>> /\ job' = IF Deciding THEN "late" ELSE "open"
        BY <2>1, <3>1 DEF JobStart
      <3>3. PICK j : j = job'  OBVIOUS
      <3>4. PortHolds(port \o <<x, y>>, j, jobActive)  BY <3>1, PutJob
      <3>. QED  BY <1>1, <3>2, <3>3, <3>4
    <2>2. CASE JobEnd
      <3>1. PICK x \in ItemType : x = Item("end", None) /\ x.kind = "end"
        <4>1. Item("end", None) \in ItemType /\ Item("end", None).kind = "end"  BY DEF Item, ItemType
        <4>. QED  BY <4>1
      <3>2. port' = Append(port, x) /\ job' = None  BY <2>2, <3>1 DEF JobEnd
      <3>3. PortHolds(Append(port, x), None, jobActive)  BY <3>1, Put
      <3>. QED  BY <1>1, <3>2, <3>3 DEF None
    <2>3. CASE \E n \in Names : ClientRenames(n)
      <3>1. PICK n \in Names : ClientRenames(n)  BY <2>3
      <3>2. PICK x \in ItemType : x = Item("rename", n) /\ x.kind = "rename" /\ x.name = n
        <4>1. Item("rename", n) \in ItemType /\ Item("rename", n).kind = "rename" /\ Item("rename", n).name = n
          BY DEF Item, ItemType
        <4>. QED  BY <4>1
      <3>3. port' = Append(port, x) /\ job' = job  BY <3>1, <3>2 DEF ClientRenames
      <3>4. PortHolds(Append(port, x), job, jobActive)  BY <3>2, Put
      <3>. QED  BY <1>1, <3>3, <3>4 DEF IInv, BoardInv, BoardType, Decided
    <2>. QED  BY <2>1, <2>2, <2>3
  <1>4. BoardType'
    <2>1. port' \in Seq(ItemType)
          /\ \A i \in 1 .. Len(port') : port'[i].kind = "rename" => port'[i].name \in Names
      BY <1>3 DEF PortHolds
    <2>. QED  BY <1>1, <1>3, <2>1 DEF IInv, BoardInv, BoardType
  <1>5. Reported' /\ Follows'
    <2>1. (printer' = "writing" => jobActive') /\ "cut" \notin excuses'  BY <1>1 DEF IInv, BoardInv, Follows
    <2>. QED  BY <1>3, <2>1, PortKept
  <1>6. Decided'  BY <1>1, <1>3 DEF IInv, BoardInv, Decided, Deciding
  <1>7. Named' /\ (live' = active'.name \/ "shell" \in excuses')  BY <1>1, NamesKept
  <1>8. Kept'  BY <1>1, FlashKept
  <1>. QED  BY <1>2, <1>4, <1>5, <1>6, <1>7, <1>8 DEF IInv, BoardInv

\* The printer task takes an event or bytes, writes, or identifies the printer again.
LEMMA PrinterKeeps ==
    ASSUME IInv, JobStarted \/ JobEnded \/ Write \/ WriteDone \/ Reprobe \/ Identified  PROVE IInv'
  <1>1. /\ UNCHANGED <<wire, events, active, flash, running, live, ctl, signal, save, control, job>>
        /\ excuses' = excuses \/ (Reprobe /\ excuses' = excuses \cup IF printer = "writing" THEN {"cut"} ELSE {})
    BY DEF JobStarted, JobEnded, Write, WriteDone, Reprobe, Identified, names, jobs
  <1>2. /\ jobActive \in BOOLEAN /\ Follows /\ excuses \subseteq Excuses /\ PortHolds(port, job, jobActive)
        /\ printer \in {"run", "writing", "save", "identify"} /\ reprobe \in BOOLEAN
    BY DEF IInv, BoardInv, BoardType, Reported, Follows, PortHolds
  <1>3. excuses' = excuses
    <2>1. CASE Reprobe  BY <1>1, <1>2, <2>1 DEF Reprobe, Follows
    <2>. QED  BY <1>1, <2>1
  <1>4. WireInv' /\ ParkInv'
    <2>1. events' \in Nat /\ events <= events'  BY <1>1 DEF IInv, WireInv, WireType
    <2>. QED  BY <1>1, <1>3, <2>1, Apart
  <1>5. /\ PortHolds(port', job', jobActive') /\ jobActive' \in BOOLEAN /\ reprobe' \in BOOLEAN
        /\ printer' \in {"run", "writing", "save", "identify"} /\ (printer' = "writing" => jobActive')
    <2>1. CASE JobStarted
      <3>1. /\ port # <<>> /\ Head(port).kind = "start" /\ printer = "run" /\ port' = Tail(port)
            /\ jobActive' = TRUE /\ UNCHANGED <<printer, reprobe>>
        BY <2>1 DEF JobStarted, NextItem
      <3>2. PortHolds(Tail(port), job, TRUE)  BY <3>1, Taken
      <3>. QED  BY <1>1, <1>2, <3>1, <3>2
    <2>2. CASE JobEnded
      <3>1. /\ port # <<>> /\ Head(port).kind = "end" /\ printer = "run" /\ port' = Tail(port)
            /\ jobActive' = FALSE /\ UNCHANGED <<printer, reprobe>>
        BY <2>2 DEF JobEnded, NextItem
      <3>2. PortHolds(Tail(port), job, FALSE)  BY <3>1, Taken
      <3>. QED  BY <1>1, <1>2, <3>1, <3>2
    <2>3. CASE Write
      <3>1. /\ port # <<>> /\ Head(port).kind = "bytes" /\ port' = Tail(port)
            /\ printer' = "writing" /\ UNCHANGED <<jobActive, reprobe>>
        BY <2>3 DEF Write, NextItem
      <3>2. PortHolds(Tail(port), job, jobActive)  BY <1>2, <3>1, Taken
      <3>3. jobActive  BY <1>2, <3>1, Port DEF Follows
      <3>. QED  BY <1>1, <1>2, <3>1, <3>2, <3>3
    <2>4. CASE WriteDone \/ Identified \/ Reprobe
      <3>1. UNCHANGED <<port, jobActive, job>> /\ printer' \in {"run", "identify"} /\ reprobe' \in BOOLEAN
        BY <1>2, <2>4 DEF WriteDone, Identified, Reprobe, jobs
      <3>. QED  BY <1>2, <3>1
    <2>. QED  BY <2>1, <2>2, <2>3, <2>4
  <1>6. BoardType'
    <2>1. port' \in Seq(ItemType)
          /\ \A i \in 1 .. Len(port') : port'[i].kind = "rename" => port'[i].name \in Names
      BY <1>5 DEF PortHolds
    <2>. QED  BY <1>1, <1>3, <1>5, <2>1 DEF IInv, BoardInv, BoardType
  <1>7. Reported' /\ Follows'  BY <1>2, <1>3, <1>5, PortKept DEF Follows
  <1>8. Decided'  BY <1>1 DEF IInv, BoardInv, Decided, Deciding
  <1>9. Named' /\ (live' = active'.name \/ "shell" \in excuses')  BY <1>1, <1>3, NamesKept
  <1>10. Kept'  BY <1>1, <1>3, FlashKept
  <1>. QED  BY <1>4, <1>6, <1>7, <1>8, <1>9, <1>10 DEF IInv, BoardInv

\* A client's new name: registered, told to the control task, and saved.
LEMMA RenamedKeeps ==
    ASSUME IInv, Renamed  PROVE IInv'
  <1>1. /\ port # <<>> /\ Head(port).kind = "rename" /\ printer = "run" /\ port' = Tail(port)
        /\ live' = Head(port).name /\ signal' = live'
        /\ UNCHANGED <<air, queue, stackRx, node, events, flash, running, ctl, control, reprobe, jobActive, job>>
    BY DEF Renamed, NextItem, Reregister
  <1>2. PICK n \in Names : n = Head(port).name /\ n # None  BY <1>1, Port, DefaultsKnown
  <1>3. jobActive \in BOOLEAN /\ Follows /\ excuses \subseteq Excuses /\ active \in ConfigType /\ events \in Nat
    BY DEF IInv, BoardInv, BoardType, WireInv, WireType
  <1>4. PortHolds(Tail(port), job, jobActive)  BY <1>1, <1>3, Taken
  <1>5. /\ WireInv' /\ ParkInv' /\ Kept' /\ save' \in SaveType /\ active' \in ConfigType /\ active'.name = n
        /\ printer' \in {"run", "save"}
        /\ excuses \subseteq excuses' /\ excuses' \subseteq excuses \cup {"overtaken", "stale"}
    <2>1. CASE active.name = live'
      <3>1. UNCHANGED <<active, save, printer, flags, excuses>>  BY <2>1 DEF Renamed
      <3>2. UNCHANGED <<wire, save>>  BY <1>1, <3>1 DEF wire, signals
      <3>3. events' \in Nat /\ events <= events'  BY <1>1, <1>3
      <3>4. WireInv' /\ ParkInv'  BY <3>1, <3>2, <3>3, Apart
      <3>5. Kept'  BY <1>1, <3>1, FlashKept
      <3>. QED  BY <1>1, <1>2, <1>3, <2>1, <3>1, <3>4, <3>5, SaveKept
    <2>2. CASE active.name # live'
      <3>1. /\ active' = [active EXCEPT !.name = n] /\ printer' = "save"
            /\ StartSave("printer", active', excuses)
        BY <1>1, <1>2, <2>2 DEF Renamed
      <3>2. PICK c \in ConfigType : c = active' /\ c.name = n  BY <1>3, <3>1 DEF ConfigType
      <3>3. PICK w : w = excuses /\ excuses \subseteq w /\ w \subseteq Excuses  BY <1>3
      <3>4. events' \in Nat /\ events <= events' /\ "printer" \in Tasks  BY <1>1, <1>3 DEF Tasks
      <3>5. StartSave("printer", c, w) /\ UNCHANGED <<air, queue, stackRx, node, flash>>
        BY <1>1, <3>1, <3>2, <3>3
      <3>6. /\ WireInv' /\ ParkInv' /\ Kept' /\ save' \in SaveType
            /\ w \subseteq excuses' /\ excuses' \subseteq w \cup {"overtaken", "stale"}
        BY <3>2, <3>3, <3>4, <3>5, StartsSave
      <3>. QED  BY <3>1, <3>2, <3>3, <3>6
    <2>. QED  BY <2>1, <2>2
  <1>6. BoardType'
    <2>1. port' \in Seq(ItemType)
          /\ \A i \in 1 .. Len(port') : port'[i].kind = "rename" => port'[i].name \in Names
      BY <1>1, <1>4 DEF PortHolds
    <2>2. excuses' \subseteq Excuses  BY <1>3, <1>5 DEF Excuses
    <2>. QED  BY <1>1, <1>2, <1>5, <2>1, <2>2 DEF IInv, BoardInv, BoardType
  <1>7. Reported' /\ Follows'
    <2>1. PortHolds(port', job', jobActive')  BY <1>1, <1>4
    <2>2. printer' # "writing" /\ "cut" \notin excuses'  BY <1>3, <1>5 DEF Follows
    <2>. QED  BY <2>1, <2>2, PortKept
  <1>8. Decided'  BY <1>1 DEF IInv, BoardInv, Decided, Deciding
  <1>9. Named' /\ live' = active'.name  BY <1>1, <1>2, <1>5 DEF Named
  <1>. QED  BY <1>5, <1>6, <1>7, <1>8, <1>9 DEF IInv, BoardInv

\* The debug shell edits what is active, saves it, or asks for a new identification.
LEMMA ShellKeeps ==
    ASSUME IInv, (\E cfg \in ConfigType : Edit(cfg)) \/ CmdSave \/ CmdReprobe  PROVE IInv'
  <1>1. /\ UNCHANGED <<air, queue, stackRx, node, flash, running, live, ctl, signal, control, printer,
                       port, jobActive, job>>
        /\ events' = events + 1
    BY DEF Edit, CmdSave, CmdReprobe, Event, wire, signals, names, jobs
  <1>2. /\ events \in Nat /\ events' \in Nat /\ events <= events' /\ excuses \subseteq Excuses
        /\ active \in ConfigType /\ save \in SaveType /\ reprobe \in BOOLEAN
    BY <1>1, SaveKept DEF IInv, WireInv, WireType, BoardInv, BoardType
  <1>3. /\ WireInv' /\ ParkInv' /\ Kept' /\ save' \in SaveType /\ active' \in ConfigType
        /\ reprobe' \in BOOLEAN /\ excuses \subseteq excuses'
        /\ excuses' \subseteq excuses \cup {"overtaken", "stale", "edited", "shell"}
        /\ active' = active \/ "shell" \in excuses'
    <2>1. CASE \E cfg \in ConfigType : Edit(cfg)
      <3>1. /\ active' \in ConfigType /\ excuses' = excuses \cup {"edited", "shell"}
            /\ UNCHANGED <<wire, save, reprobe>>
        BY <2>1 DEF Edit
      <3>2. WireInv' /\ ParkInv'  BY <1>2, <3>1, Apart
      <3>3. Kept'  BY <3>1 DEF Kept, Unsaved
      <3>. QED  BY <1>2, <3>1, <3>2, <3>3
    <2>2. CASE CmdSave
      <3>1. StartSave("debug", active, excuses) /\ UNCHANGED <<active, reprobe>>  BY <2>2 DEF CmdSave
      <3>2. PICK c \in ConfigType : c = active /\ c = active'  BY <1>2, <3>1
      <3>3. PICK w : w = excuses /\ excuses \subseteq w /\ w \subseteq Excuses  BY <1>2
      <3>4. StartSave("debug", c, w) /\ UNCHANGED <<air, queue, stackRx, node, flash>> /\ "debug" \in Tasks
        BY <1>1, <3>1, <3>2, <3>3 DEF Tasks
      <3>5. /\ WireInv' /\ ParkInv' /\ Kept' /\ save' \in SaveType
            /\ w \subseteq excuses' /\ excuses' \subseteq w \cup {"overtaken", "stale"}
        BY <1>2, <3>2, <3>3, <3>4, StartsSave
      <3>. QED  BY <1>2, <3>1, <3>2, <3>3, <3>5
    <2>3. CASE CmdReprobe
      <3>1. reprobe' = TRUE /\ UNCHANGED <<wire, active, save, excuses>>  BY <2>3 DEF CmdReprobe
      <3>2. WireInv' /\ ParkInv'  BY <1>2, <3>1, Apart
      <3>3. Kept'  BY <1>1, <3>1, FlashKept
      <3>. QED  BY <1>2, <3>1, <3>2, <3>3
    <2>. QED  BY <2>1, <2>2, <2>3
  <1>4. BoardType'
    <2>1. excuses' \subseteq Excuses  BY <1>2, <1>3 DEF Excuses
    <2>. QED  BY <1>1, <1>3, <2>1 DEF IInv, BoardInv, BoardType
  <1>5. Reported' /\ Follows'
    <2>1. "cut" \notin excuses'  BY <1>3 DEF IInv, BoardInv, Follows
    <2>. QED  BY <1>1, <2>1, JobsKept
  <1>6. Decided'  BY <1>1 DEF IInv, BoardInv, Decided, Deciding
  <1>7. Named' /\ (live' = active'.name \/ "shell" \in excuses')
    BY <1>1, <1>3 DEF IInv, BoardInv, Named
  <1>. QED  BY <1>3, <1>4, <1>5, <1>6, <1>7 DEF IInv, BoardInv

-----------------------------------------------------------------------------
(* The board *)

LEMMA RingsKeep ==
    ASSUME IInv,
           \/ Rings \/ (\E d \in {Peer, Broadcast} : Submit(d))
           \/ (\E k \in {"enq", "rts"} : PeerSends(k, Us)) /\ UNCHANGED core0
           \/ (PeerSends("data", Broadcast) \/ PeerAnswers) /\ UNCHANGED core0
    PROVE  IInv'
  <1>1. UNCHANGED core0  BY DEF Rings, Submit
  <1>2. BoardInv'  BY <1>1, BoardKept
  <1>3. WireInv' /\ ParkInv'
    <2>1. CASE Rings  BY <1>1, <2>1, SetsNode, Dispatches DEF Rings
    <2>2. CASE \E d \in {Peer, Broadcast} : Submit(d)
      <3>1. PICK d \in Stations : Submit(d)  BY <2>2 DEF Stations
      <3>2. node # None /\ SubmitTx(d) /\ events' = events + 1 /\ events \in Nat
        BY <3>1 DEF Submit, Event, IInv, WireInv, WireType
      <3>3. events' \in Nat /\ events <= events'  BY <3>2
      <3>. QED  BY <1>1, <3>2, <3>3, Submits
    <2>3. CASE \E k \in {"enq", "rts"} : PeerSends(k, Us)
      <3>1. PICK k \in {"enq", "rts", "data"} : PeerSends(k, Us)  BY <2>3
      <3>. QED  BY <1>1, <3>1, PeerSendsKeeps, Us \in Stations DEF Stations
    <2>4. CASE PeerSends("data", Broadcast)
      BY <1>1, <2>4, PeerSendsKeeps, Broadcast \in Stations DEF Stations
    <2>5. CASE PeerAnswers  BY <1>1, <2>5, PeerAnswersKeeps
    <2>. QED  BY <2>1, <2>2, <2>3, <2>4, <2>5
  <1>. QED  BY <1>2, <1>3 DEF IInv

LEMMA Steps ==
    ASSUME IInv, [Next]_vars  PROVE IInv'
  <1>1. CASE UNCHANGED vars
    <2>1. UNCHANGED <<wire, save, events, core0>>  BY <1>1 DEF vars, core0
    <2>2. events' \in Nat /\ events <= events'  BY <2>1 DEF IInv, WireInv, WireType
    <2>3. "stale" \in excuses => "stale" \in excuses'  BY <2>1 DEF core0
    <2>. QED  BY <2>1, <2>2, <2>3, Apart, BoardKept DEF IInv
  <1>2. CASE Engine  BY <1>2, EngineKeeps
  <1>3. CASE Saves  BY <1>3, Erases, Ends, Acquires DEF Saves
  <1>4. CASE \/ Rings \/ (\E d \in {Peer, Broadcast} : Submit(d))
             \/ (\E k \in {"enq", "rts"} : PeerSends(k, Us)) /\ UNCHANGED core0
             \/ (PeerSends("data", Broadcast) \/ PeerAnswers) /\ UNCHANGED core0
    BY <1>4, RingsKeep
  <1>5. CASE AskReboot \/ Reply \/ NameChanged  BY <1>5, ControlKeeps
  <1>6. CASE Reset \/ PowerLoss
    <2>1. Restart /\ events' \in Nat  BY <1>6 DEF Reset, PowerLoss, Event, IInv, WireInv, WireType
    <2>. QED  BY <2>1, Restarts
  <1>7. CASE JobStart \/ JobEnd \/ (\E n \in Names : ClientRenames(n))  BY <1>7, NodeKeeps
  <1>8. CASE JobStarted \/ JobEnded \/ Write \/ WriteDone \/ Reprobe \/ Identified
    BY <1>8, PrinterKeeps
  <1>9. CASE Renamed  BY <1>9, RenamedKeeps
  <1>10. CASE \E n \in Names, r \in Roles : SetConfig(n, r)  BY <1>10, SetsConfig
  <1>11. CASE CmdSave \/ CmdReprobe  BY <1>11, ShellKeeps
  <1>12. CASE \/ \E n \in Names : Edit([active EXCEPT !.name = n])
              \/ \E r \in Roles : Edit([active EXCEPT !.role = r])
    <2>1. active \in ConfigType  BY SaveKept
    <2>2. /\ \A n \in Names : [active EXCEPT !.name = n] \in ConfigType
          /\ \A r \in Roles : [active EXCEPT !.role = r] \in ConfigType
      BY <2>1 DEF ConfigType
    <2>3. \E cfg \in ConfigType : Edit(cfg)  BY <1>12, <2>2
    <2>. QED  BY <2>3, ShellKeeps
  <1>. QED  BY <1>1, <1>2, <1>3, <1>4, <1>5, <1>6, <1>7, <1>8, <1>9, <1>10, <1>11, <1>12
             DEF Next, Inside, Outside

LEMMA Invariant == Spec => []IInv
  <1>1. Init => IInv  BY Starts
  <1>2. IInv /\ [Next]_vars => IInv'  BY Steps
  <1>. QED  BY <1>1, <1>2, PTL DEF Spec

-----------------------------------------------------------------------------
(* Theorems *)

\* Core 1 is done with the frames in the order core 0 queued them, none is lost between, what it
\* heard reaches the stack in the order of the line, and data follows the CTS (submit_tx, push_rx,
\* with_rx, directed_tx): for every size of the rings, wherever their indices wrap.
THEOREM Frames == Spec => []FramesInOrder
  <1>1. IInv => FramesInOrder
    <2>. SUFFICES ASSUME IInv  PROVE FramesInOrder  OBVIOUS
    <2>1. WireType /\ Numbered /\ Asked /\ Ordered(Heard, line, events)  BY DEF IInv, WireInv, InTurn
    <2>2. PICK h \in Seq(FrameType) : h = Heard /\ Heard = Received
      <3>1. Used(rx) \in Nat /\ rx.tail \in Nat
        <4>1. RxSlots \in Nat \ {0} /\ rx \in RingType(RxSlots)  BY <2>1, SlotsDivide DEF WireType
        <4>2. rx.tail \in 0 .. Wrap - 1 /\ Wrap \in Nat  BY <4>1, Indices, SlotsDivide
        <4>3. \A x \in 0 .. Wrap - 1 : x \in Nat  BY <4>2
        <4>. QED  BY <2>1, <4>2, <4>3, HeardType
      <3>2. \A i \in 1 .. Used(rx) : rx.tail + (i - 1) = rx.tail + i - 1  BY <3>1
      <3>3. Content(rx, RxSlots) = [i \in 1 .. Used(rx) |-> rx.slots[(rx.tail + i - 1) % RxSlots]]
        BY <3>2 DEF Content
      <3>. QED  BY <2>1, <3>3, HeardType DEF Heard, Received
    <2>3. DOMAIN h = 1 .. Len(h) /\ DOMAIN gone = 1 .. Len(gone)  BY <2>1, <2>2 DEF WireType
    <2>4. \A i \in DOMAIN gone : gone[i] = i  BY <2>1, <2>3 DEF Numbered
    <2>5. Len(gone) + Used(tx) = submitted  BY <2>1 DEF Numbered
    <2>6. \A i, j \in DOMAIN h : i < j /\ h[j].id > 0 => h[i].id < h[j].id
      BY <2>1, <2>2, <2>3 DEF Ordered
    <2>7. core1.pc = "data" => ~core1.asked  BY <2>1 DEF Asked
    <2>. QED  BY <2>2, <2>4, <2>5, <2>6, <2>7 DEF FramesInOrder
  <1>. QED  BY <1>1, Invariant, PTL

\* Core 1 is in its loop in RAM while the flash is erased and written, unless PARKED was left over
\* (config::save, park_in_ram); no restart cuts a reported page off (set_config, REBOOT), and no
\* identification takes the port from a write (serve_printer).
THEOREM NoHarm == Spec => []SavesHarmless
  <1>1. IInv => SavesHarmless
    BY DEF IInv, ParkInv, BoardInv, SavesHarmless, JobsFinish, Decided, Deciding, Follows
  <1>. QED  BY <1>1, Invariant, PTL

\* With nothing under way, the control name is the printer's (control.rs) and flash holds what is
\* active (config.rs), but for what is excused.
THEOREM Agreement == Spec => []Settled
  <1>1. IInv => Settled
    <2>. SUFFICES ASSUME IInv, save = NoSave, signal = None
                  PROVE  /\ ctl = live \/ "late" \in excuses
                         /\ live = active.name \/ "shell" \in excuses
                         /\ flash = <<active>> \/ excuses \cap Unsaved # {}
      BY DEF Settled
    <2>. QED  BY Configs DEF IInv, BoardInv, Named, Kept
  <1>. QED  BY <1>1, Invariant, PTL

=============================================================================
