--------------------------- MODULE ServicesProofs ---------------------------
(***************************************************************************)
(* Proofs about services of the desktop.  First the open forks of an AFP   *)
(* session, for any number of files, nodes and reference numbers: what the *)
(* five tables say of a fork agrees, and agrees with the file handle.      *)
(* Then the GUI's two bridges, for any number of printers, names, jobs and *)
(* rounds: what NBP answers for the bridge is what it offers, and what is  *)
(* published over mDNS is neither the bridge's own nor forgotten while a   *)
(* job is on it.  Then routing, for any number of routers, clients and      *)
(* changes: the table answers for every network it has a live route to,     *)
(* and the copies the daemon's clients keep send lookups where it would.    *)
(***************************************************************************)
EXTENDS AfpForks, IppBridge, Routing, TLAPS, SequenceTheorems, FiniteSetTheorems, WellFoundedInduction

-----------------------------------------------------------------------------
(* AFP forks: functions given by their domain *)

IsFun(f) == f = [x \in DOMAIN f |-> f[x]]

-----------------------------------------------------------------------------
(* AFP forks: the invariant *)

Fork == Nat \X ForkType
File == [pos : Nat, unsynced : BOOLEAN]

Types ==
    /\ IsFun(handle) /\ DOMAIN handle \subseteq Fork /\ \A h \in DOMAIN handle : handle[h] \in File
    /\ IsFun(forks) /\ DOMAIN forks \subseteq 1 .. MaxRef /\ \A r \in DOMAIN forks : forks[r] \in Fork
    /\ locks \in [1 .. MaxRef -> SUBSET Ranges]
    /\ nextRef \in 1 .. MaxRef /\ next_id \in Nat
    /\ DOMAIN nodes \subseteq Nat

\* The id of a node is never given out again.
IdsUsed ==
    /\ \A i \in DOMAIN nodes : i < next_id
    /\ \A r \in DOMAIN forks : forks[r][1] < next_id

\* One number leads to a fork of a node that is still there.
OneNumber ==
    \A r, q \in DOMAIN forks : forks[r] = forks[q] /\ forks[r][1] \in DOMAIN nodes => r = q

IInv == Types /\ IdsUsed /\ OneNumber /\ ForkPosTrue /\ FlushMissesNothing /\ ForkTableTrue

LEMMA ForksInit == Init => IInv
  <1>. SUFFICES ASSUME Init  PROVE IInv  OBVIOUS
  <1>1. /\ DOMAIN handle = {} /\ DOMAIN forks = {} /\ DOMAIN fork_pos = {} /\ DOMAIN nodes = {3}
        /\ IsFun(handle) /\ IsFun(forks) /\ next_id = 4 /\ nextRef = 1
    BY DEF Init, Put, Empty, IsFun
  <1>2. locks = [r \in 1 .. MaxRef |-> {}]  BY DEF Init
  <1>3. MaxRef \in Nat \ {0}  BY AfpForksAssumption
  <1>4. Types  BY <1>1, <1>2, <1>3 DEF Types
  <1>5. ForkTableTrue  BY <1>1, <1>2 DEF ForkTableTrue
  <1>. QED  BY <1>1, <1>4, <1>5 DEF IInv, IdsUsed, OneNumber, ForkPosTrue, FlushMissesNothing

-----------------------------------------------------------------------------
(* Steps that change one thing *)

\* A file handle is set down elsewhere, its fork marked when it was written to.
LEMMA HandleMoves ==
    ASSUME IInv, NEW r \in DOMAIN forks, IsOpen(r), NEW x \in File,
           handle' = [handle EXCEPT ![forks[r]] = x],
           dirty \subseteq dirty', x.unsynced => forks[r] \in dirty',
           \/ fork_pos' = Put(fork_pos, r, x.pos)
           \/ fork_pos' = Without(fork_pos, {r}),
           UNCHANGED <<nodes, next_id, forks, locks, nextRef, lapped>>
    PROVE  IInv'
  <1>. DEFINE h == forks[r]
  <1>1. /\ DOMAIN handle' = DOMAIN handle /\ IsFun(handle') /\ h \in DOMAIN handle
        /\ handle'[h] = x
        /\ \A g \in DOMAIN handle : g # h => handle'[g] = handle[g]
    BY DEF IInv, Types, IsOpen, IsFun
  <1>2. Types'  BY <1>1 DEF IInv, Types
  <1>3. IdsUsed' /\ OneNumber' /\ ForkTableTrue'
    BY <1>1 DEF IInv, IdsUsed, OneNumber, ForkTableTrue
  <1>4. ForkPosTrue'
    <2>1. ASSUME NEW q \in DOMAIN fork_pos', IsOpen(q)'  PROVE fork_pos'[q] = handle'[forks[q]].pos
      <3>0. q \in DOMAIN forks /\ forks[q][1] \in DOMAIN nodes /\ forks[q] \in DOMAIN handle
        BY <1>1, <2>1 DEF IsOpen
      <3>1. CASE q = r
        BY <1>1, <2>1, <3>1 DEF Put, Without, Restrict
      <3>2. CASE q # r
        <4>1. q \in DOMAIN fork_pos /\ fork_pos'[q] = fork_pos[q]
          BY <2>1, <3>2 DEF Put, Without, Restrict
        <4>2. forks[q] # h  BY <3>0, <3>2 DEF IInv, OneNumber
        <4>. QED  BY <1>1, <3>0, <4>1, <4>2 DEF IInv, ForkPosTrue, IsOpen
      <3>. QED  BY <3>1, <3>2
    <2>. QED  BY <2>1 DEF ForkPosTrue
  <1>5. FlushMissesNothing'
    BY <1>1 DEF IInv, FlushMissesNothing
  <1>. QED  BY <1>2, <1>3, <1>4, <1>5 DEF IInv

\* A node is entered in the catalogue.
LEMMA NodeAdded ==
    ASSUME IInv, NEW n, AddNode(n), UNCHANGED <<handle, tables>>
    PROVE  IInv'
  <1>1. next_id' = next_id + 1 /\ next_id \in Nat /\ DOMAIN nodes' = DOMAIN nodes \cup {next_id}
    BY DEF AddNode, Put, IInv, Types
  <1>2. UNCHANGED <<handle, forks, fork_pos, dirty, locks, nextRef, lapped>>  BY DEF tables
  <1>3. ASSUME NEW r \in DOMAIN forks  PROVE forks[r][1] \in Nat /\ forks[r][1] # next_id
    <2>1. forks[r] \in Fork /\ forks[r][1] < next_id  BY DEF IInv, Types, IdsUsed
    <2>. QED  BY <1>1, <2>1 DEF Fork
  <1>4. Types'  BY <1>1, <1>2 DEF IInv, Types
  <1>5. IdsUsed'
    <2>1. \A i \in DOMAIN nodes : i \in Nat /\ i < next_id  BY DEF IInv, Types, IdsUsed
    <2>2. \A r \in DOMAIN forks : forks[r][1] < next_id  BY DEF IInv, IdsUsed
    <2>. QED  BY <1>1, <1>2, <1>3, <2>1, <2>2 DEF IdsUsed
  <1>6. OneNumber' /\ ForkTableTrue' /\ FlushMissesNothing'
    BY <1>1, <1>2, <1>3 DEF IInv, OneNumber, ForkTableTrue, FlushMissesNothing
  <1>7. ForkPosTrue'
    BY <1>1, <1>2, <1>3 DEF IInv, ForkPosTrue, IsOpen
  <1>. QED  BY <1>4, <1>5, <1>6, <1>7 DEF IInv

\* Forks are synced.
LEMMA HandlesSynced ==
    ASSUME IInv, NEW S, handle' = Synced(S), dirty \ S \subseteq dirty',
           UNCHANGED <<nodes, next_id, forks, fork_pos, locks, nextRef, lapped>>
    PROVE  IInv'
  <1>1. /\ DOMAIN handle' = DOMAIN handle /\ IsFun(handle')
        /\ \A h \in DOMAIN handle : /\ handle'[h] \in File /\ handle'[h].pos = handle[h].pos
                                    /\ handle'[h].unsynced => handle[h].unsynced /\ h \notin S
    <2>1. ASSUME NEW h \in DOMAIN handle
          PROVE  LET x == [handle[h] EXCEPT !.unsynced = FALSE] IN
                 x \in File /\ x.pos = handle[h].pos /\ ~x.unsynced
      BY DEF IInv, Types, File
    <2>. QED  BY <2>1 DEF Synced, IsFun, IInv, Types
  <1>2. Types'  BY <1>1 DEF IInv, Types
  <1>3. IdsUsed' /\ OneNumber' /\ ForkTableTrue' /\ FlushMissesNothing'
    BY <1>1 DEF IInv, IdsUsed, OneNumber, ForkTableTrue, FlushMissesNothing
  <1>4. ForkPosTrue'
    BY <1>1 DEF IInv, ForkPosTrue, IsOpen
  <1>. QED  BY <1>2, <1>3, <1>4 DEF IInv

-----------------------------------------------------------------------------
(* The commands *)

LEMMA OpenInv ==
    ASSUME IInv, NEW i \in DOMAIN nodes, NEW f \in ForkType, NEW mode, open_fork(i, f, mode)
    PROVE  IInv'
  <1>. DEFINE h == <<i, f>>
              r == nextRef
  <1>1. /\ forks' = Put(forks, r, h) /\ fork_pos' = Put(fork_pos, r, 0)
        /\ handle' = Put(handle, h, Handle(0, FALSE))
        /\ nextRef' = NextRef(r) /\ lapped' = (lapped \/ r \in DOMAIN forks)
        /\ UNCHANGED <<nodes, next_id, dirty, locks>> /\ h \notin DOMAIN handle
    BY DEF open_fork, Register
  <1>2. /\ DOMAIN forks' = DOMAIN forks \cup {r} /\ forks'[r] = h /\ IsFun(forks')
        /\ \A q \in DOMAIN forks : q # r => forks'[q] = forks[q]
    BY <1>1 DEF Put, IsFun
  <1>3. /\ DOMAIN fork_pos' = DOMAIN fork_pos \cup {r} /\ fork_pos'[r] = 0
        /\ \A q \in DOMAIN fork_pos : q # r => fork_pos'[q] = fork_pos[q]
    BY <1>1 DEF Put, IsFun
  <1>4. /\ DOMAIN handle' = DOMAIN handle \cup {h} /\ IsFun(handle') /\ handle'[h] = Handle(0, FALSE)
        /\ \A g \in DOMAIN handle : g # h => handle'[g] = handle[g]
    BY <1>1 DEF Put, IsFun
  <1>5. h \in Fork /\ h[1] = i /\ h[2] = f /\ i \in Nat  BY DEF IInv, Types, Fork
  <1>6. Handle(0, FALSE) \in File /\ Handle(0, FALSE).pos = 0 /\ ~Handle(0, FALSE).unsynced
    BY DEF Handle, File
  <1>7. r \in 1 .. MaxRef /\ nextRef' \in 1 .. MaxRef
    BY <1>1, AfpForksAssumption DEF IInv, Types, NextRef
  <1>. HIDE DEF h, r
  <1>8. \A q \in DOMAIN forks : forks[q] # h
    BY <1>1, <1>5 DEF IInv, ForkTableTrue
  <1>9. Types'
    BY <1>1, <1>2, <1>4, <1>5, <1>6, <1>7 DEF IInv, Types
  <1>10. IdsUsed'
    BY <1>1, <1>2, <1>5 DEF IInv, IdsUsed
  <1>11. OneNumber'
    BY <1>1, <1>2, <1>8 DEF IInv, OneNumber
  <1>12. ForkPosTrue'
    <2>1. ASSUME NEW q \in DOMAIN fork_pos', IsOpen(q)'  PROVE fork_pos'[q] = handle'[forks'[q]].pos
      <3>1. CASE q = r  BY <1>2, <1>3, <1>4, <1>6, <3>1
      <3>2. CASE q # r
        <4>1. q \in DOMAIN forks /\ forks'[q] = forks[q] /\ forks[q] # h /\ q \in DOMAIN fork_pos
          BY <1>2, <1>3, <1>8, <2>1, <3>2 DEF IsOpen
        <4>2. IsOpen(q)  BY <1>1, <1>4, <2>1, <4>1 DEF IsOpen
        <4>. QED  BY <1>3, <1>4, <3>2, <4>1, <4>2 DEF IInv, ForkPosTrue, IsOpen
      <3>. QED  BY <3>1, <3>2
    <2>. QED  BY <2>1 DEF ForkPosTrue
  <1>13. FlushMissesNothing'
    BY <1>1, <1>4, <1>6 DEF IInv, FlushMissesNothing
  <1>14. ForkTableTrue'
    <2>1. lapped' \/ \A g \in DOMAIN handle' : \E q \in DOMAIN forks' : forks'[q] = g
      <3>1. SUFFICES ASSUME ~lapped', NEW g \in DOMAIN handle'
                     PROVE  \E q \in DOMAIN forks' : forks'[q] = g
        OBVIOUS
      <3>2. CASE g = h  BY <1>2, <3>2
      <3>3. CASE g # h
        <4>1. PICK q \in DOMAIN forks : forks[q] = g
          BY <1>1, <1>4, <3>1, <3>3 DEF IInv, ForkTableTrue
        <4>2. q # r  BY <1>1, <3>1
        <4>. QED  BY <1>2, <4>1, <4>2
      <3>. QED  BY <3>2, <3>3
    <2>2. \A q \in DOMAIN forks' : \/ forks'[q] \in DOMAIN handle'
                                   \/ forks'[q][2] = "Resource" /\ forks'[q][1] \notin DOMAIN nodes
      BY <1>2, <1>4 DEF IInv, ForkTableTrue
    <2>3. \A q \in 1 .. MaxRef : locks[q] # {} => q \in DOMAIN forks'
      BY <1>2 DEF IInv, ForkTableTrue
    <2>. QED  BY <1>1, <2>1, <2>2, <2>3 DEF ForkTableTrue
  <1>. QED  BY <1>9, <1>10, <1>11, <1>12, <1>13, <1>14 DEF IInv

LEMMA CloseInv ==
    ASSUME IInv, NEW r \in DOMAIN forks, close_fork(r)
    PROVE  IInv'
  <1>. DEFINE h == forks[r]
  <1>1. /\ handle' = Without(handle, {h}) /\ forks' = Without(forks, {r}) /\ fork_pos' = Without(fork_pos, {r})
        /\ dirty' = dirty \ {h} /\ locks' = [locks EXCEPT ![r] = {}]
        /\ UNCHANGED <<nodes, next_id, nextRef, lapped>> /\ h[1] \in DOMAIN nodes
    BY DEF close_fork, ForgetLocks
  <1>2. /\ DOMAIN handle' = DOMAIN handle \ {h} /\ IsFun(handle')
        /\ \A g \in DOMAIN handle' : handle'[g] = handle[g]
    BY <1>1 DEF Without, Restrict, IsFun
  <1>3. /\ DOMAIN forks' = DOMAIN forks \ {r} /\ IsFun(forks')
        /\ \A q \in DOMAIN forks' : forks'[q] = forks[q]
    BY <1>1 DEF Without, Restrict, IsFun
  <1>4. /\ DOMAIN fork_pos' = DOMAIN fork_pos \ {r}
        /\ \A q \in DOMAIN fork_pos' : fork_pos'[q] = fork_pos[q]
    BY <1>1 DEF Without, Restrict
  <1>5. \A q \in DOMAIN forks' : forks[q] # h
    BY <1>1, <1>3 DEF IInv, OneNumber
  <1>6. r \in 1 .. MaxRef /\ locks' \in [1 .. MaxRef -> SUBSET Ranges] /\ locks'[r] = {}
        /\ \A q \in 1 .. MaxRef : q # r => locks'[q] = locks[q]
    BY <1>1 DEF IInv, Types
  <1>. HIDE DEF h
  <1>7. Types' /\ IdsUsed' /\ OneNumber' /\ FlushMissesNothing'
    BY <1>1, <1>2, <1>3, <1>6 DEF IInv, Types, IdsUsed, OneNumber, FlushMissesNothing
  <1>8. ForkPosTrue'
    <2>1. ASSUME NEW q \in DOMAIN fork_pos', IsOpen(q)'  PROVE fork_pos'[q] = handle'[forks'[q]].pos
      <3>1. q \in DOMAIN forks /\ q # r /\ forks'[q] = forks[q] /\ q \in DOMAIN fork_pos
        BY <1>3, <1>4, <2>1 DEF IsOpen
      <3>2. IsOpen(q)  BY <1>1, <1>2, <2>1, <3>1 DEF IsOpen
      <3>3. forks[q] \in DOMAIN handle'  BY <2>1, <3>1 DEF IsOpen
      <3>. QED  BY <1>2, <1>4, <2>1, <3>1, <3>2, <3>3 DEF IInv, ForkPosTrue
    <2>. QED  BY <2>1 DEF ForkPosTrue
  <1>9. ForkTableTrue'
    <2>1. lapped \/ \A g \in DOMAIN handle' : \E q \in DOMAIN forks' : forks'[q] = g
      <3>1. SUFFICES ASSUME ~lapped, NEW g \in DOMAIN handle'
                     PROVE  \E q \in DOMAIN forks' : forks'[q] = g
        OBVIOUS
      <3>2. PICK q \in DOMAIN forks : forks[q] = g  BY <1>2, <3>1 DEF IInv, ForkTableTrue
      <3>. QED  BY <1>2, <1>3, <3>2 DEF h
    <2>2. \A q \in DOMAIN forks' : \/ forks'[q] \in DOMAIN handle'
                                   \/ forks'[q][2] = "Resource" /\ forks'[q][1] \notin DOMAIN nodes
      BY <1>2, <1>3, <1>5 DEF IInv, ForkTableTrue
    <2>. QED  BY <1>1, <1>3, <1>6, <2>1, <2>2 DEF IInv, ForkTableTrue
  <1>. QED  BY <1>7, <1>8, <1>9 DEF IInv

\* A seek may be skipped only when it would change nothing.
LEMMA SoughtIsOffset ==
    ASSUME IInv, NEW r, IsOpen(r), NEW offset
    PROVE  Sought(r, offset) = offset
  BY DEF IInv, ForkPosTrue, Sought

\* The handle is set down at pos.
LEMMA StandsInv ==
    ASSUME IInv, NEW r \in DOMAIN forks, IsOpen(r), NEW pos \in Nat, Stands(r, pos),
           \/ fork_pos' = Put(fork_pos, r, pos)
           \/ fork_pos' = Without(fork_pos, {r}),
           UNCHANGED <<nodes, next_id, forks, dirty, locks, nextRef, lapped>>
    PROVE  IInv'
  <1>. DEFINE h == forks[r]
              x == [handle[h] EXCEPT !.pos = pos]
  <1>1. h \in DOMAIN handle  BY DEF IsOpen
  <1>2. x \in File /\ x.pos = pos /\ (x.unsynced => handle[h].unsynced)
    BY <1>1 DEF IInv, Types, File
  <1>3. handle' = [handle EXCEPT ![h] = x]  BY DEF Stands
  <1>4. x.unsynced => h \in dirty  BY <1>1, <1>2 DEF IInv, FlushMissesNothing
  <1>. HIDE DEF x
  <1>. QED  BY <1>2, <1>3, <1>4, HandleMoves

LEMMA LostInv ==
    ASSUME IInv, NEW r \in DOMAIN forks, IsOpen(r), Lost(r),
           UNCHANGED <<nodes, next_id, forks, dirty, locks, nextRef, lapped>>
    PROVE  IInv'
  <1>1. PICK pos \in 0 .. MaxPos : Stands(r, pos)  BY DEF Lost
  <1>2. pos \in Nat  BY AfpForksAssumption
  <1>. QED  BY <1>1, <1>2, StandsInv DEF Lost

LEMMA ReadInv ==
    ASSUME IInv, NEW r \in DOMAIN forks, NEW offset \in Nat, NEW count \in Nat, read(r, offset, count)
    PROVE  IInv'
  <1>1. IsOpen(r) /\ UNCHANGED <<nodes, next_id, forks, dirty, locks, nextRef, lapped>>
    BY DEF read
  <1>2. CASE Lost(r)  BY <1>1, <1>2, LostInv
  <1>3. CASE ~Lost(r)
    <2>1. PICK got \in 0 .. count : \E upto \in 0 .. got :
                 /\ ReadTo(r, Sought(r, offset), got, upto)
                 /\ fork_pos' = Put(fork_pos, r, offset + upto)
      BY <1>3 DEF read
    <2>2. PICK upto \in 0 .. got : /\ ReadTo(r, Sought(r, offset), got, upto)
                                  /\ fork_pos' = Put(fork_pos, r, offset + upto)
      BY <2>1
    <2>3. Stands(r, offset + upto) /\ offset + upto \in Nat
      BY <1>1, <2>2, SoughtIsOffset DEF ReadTo
    <2>. QED  BY <1>1, <2>2, <2>3, StandsInv
  <1>. QED  BY <1>2, <1>3

LEMMA WriteInv ==
    ASSUME IInv, NEW r \in DOMAIN forks, NEW offset \in Nat, NEW count \in Nat, write_fork(r, offset, count)
    PROVE  IInv'
  <1>. DEFINE h == forks[r]
              start == Sought(r, offset)
  <1>1. IsOpen(r) /\ h \in DOMAIN handle /\ UNCHANGED <<nodes, next_id, forks, locks, nextRef, lapped>>
    BY DEF write_fork, IsOpen
  <1>2. PICK done \in BOOLEAN, n \in 0 .. count :
           /\ dirty' = Marked(r, done)
           /\ \E pos \in IF done THEN {start + n} ELSE 0 .. MaxPos :
                 handle' = [handle EXCEPT ![h] = Handle(pos, @.unsynced \/ n > 0)]
           /\ fork_pos' = IF done THEN Put(fork_pos, r, offset + n) ELSE Without(fork_pos, {r})
    BY DEF write_fork
  <1>3. PICK pos \in IF done THEN {start + n} ELSE 0 .. MaxPos :
           handle' = [handle EXCEPT ![h] = Handle(pos, handle[h].unsynced \/ n > 0)]
    BY <1>2
  <1>4. start = offset  BY <1>1, SoughtIsOffset
  <1>5. pos \in Nat /\ (done => pos = offset + n)  BY <1>3, <1>4, AfpForksAssumption
  <1>6. handle[h].unsynced \in BOOLEAN  BY <1>1 DEF IInv, Types, File
  <1>. DEFINE x == Handle(pos, handle[h].unsynced \/ n > 0)
  <1>7. x \in File /\ x.pos = pos  BY <1>5, <1>6 DEF Handle, File
  <1>8. fork_pos' = Put(fork_pos, r, x.pos) \/ fork_pos' = Without(fork_pos, {r})
    BY <1>2, <1>5, <1>7
  <1>9. dirty \subseteq dirty' /\ h \in dirty'  BY <1>2 DEF Marked
  <1>10. handle' = [handle EXCEPT ![h] = x]  BY <1>3
  <1>. HIDE DEF x
  <1>. QED  BY <1>1, <1>7, <1>8, <1>9, <1>10, HandleMoves

LEMMA SetForkParmsInv ==
    ASSUME IInv, NEW r \in DOMAIN forks, set_fork_parms(r)
    PROVE  IInv'
  <1>. DEFINE h == forks[r]
              x == [handle[h] EXCEPT !.unsynced = TRUE]
  <1>1. /\ IsOpen(r) /\ h \in DOMAIN handle /\ handle' = [handle EXCEPT ![h] = x]
        /\ fork_pos' = Without(fork_pos, {r}) /\ dirty' = dirty \cup {h}
        /\ UNCHANGED <<nodes, next_id, forks, locks, nextRef, lapped>>
    BY DEF set_fork_parms, IsOpen
  <1>2. x \in File  BY <1>1 DEF IInv, Types, File
  <1>. HIDE DEF x
  <1>. QED  BY <1>1, <1>2, HandleMoves

LEMMA LockInv ==
    ASSUME IInv, NEW r \in DOMAIN forks, NEW range \in Ranges, NEW unlock, byte_range_lock(r, range, unlock)
    PROVE  IInv'
  <1>1. /\ locks' = [locks EXCEPT ![r] = @ \ {range}] \/ locks' = [locks EXCEPT ![r] = @ \cup {range}]
        /\ UNCHANGED <<nodes, next_id, handle, forks, fork_pos, dirty, nextRef, lapped>>
    BY DEF byte_range_lock, volume
  <1>2. r \in 1 .. MaxRef /\ locks \in [1 .. MaxRef -> SUBSET Ranges]  BY DEF IInv, Types
  <1>3. /\ locks' \in [1 .. MaxRef -> SUBSET Ranges]
        /\ \A q \in 1 .. MaxRef : q # r => locks'[q] = locks[q]
    BY <1>1, <1>2
  <1>. QED
    BY <1>1, <1>3 DEF IInv, Types, IdsUsed, OneNumber, ForkPosTrue, IsOpen, FlushMissesNothing, ForkTableTrue

LEMMA DeleteInv ==
    ASSUME IInv, NEW i \in DOMAIN nodes, delete(i)
    PROVE  IInv'
  <1>1. /\ <<i, "Data">> \notin DOMAIN handle
        /\ nodes' = Without(nodes, {i}) /\ handle' = Without(handle, {<<i, f>> : f \in ForkType})
        /\ UNCHANGED <<next_id, forks, fork_pos, dirty, locks, nextRef, lapped>>
    BY DEF delete, Busy, tables
  <1>2. DOMAIN nodes' = DOMAIN nodes \ {i}  BY <1>1 DEF Without, Restrict
  <1>3. /\ DOMAIN handle' = DOMAIN handle \ {<<i, f>> : f \in ForkType} /\ IsFun(handle')
        /\ \A h \in DOMAIN handle' : handle'[h] = handle[h]
    BY <1>1 DEF Without, Restrict, IsFun
  <1>4. \A r \in DOMAIN forks : \E k \in Nat, f \in ForkType : forks[r] = <<k, f>>
    BY DEF IInv, Types, Fork
  <1>5. Types' /\ IdsUsed' /\ OneNumber' /\ FlushMissesNothing'
    BY <1>1, <1>2, <1>3 DEF IInv, Types, IdsUsed, OneNumber, FlushMissesNothing
  <1>6. ForkPosTrue'
    BY <1>1, <1>2, <1>3 DEF IInv, ForkPosTrue, IsOpen
  <1>7. ForkTableTrue'
    <2>1. ASSUME NEW r \in DOMAIN forks, forks[r] \notin DOMAIN handle'
          PROVE  forks[r][2] = "Resource" /\ forks[r][1] \notin DOMAIN nodes'
      <3>1. PICK k \in Nat, f \in ForkType : forks[r] = <<k, f>>  BY <1>4
      <3>2. CASE forks[r] \in DOMAIN handle
        <4>1. k = i  BY <1>3, <2>1, <3>1, <3>2
        <4>2. f # "Data"  BY <1>1, <3>1, <3>2, <4>1
        <4>. QED  BY <1>2, <3>1, <4>1, <4>2 DEF ForkType
      <3>3. CASE forks[r] \notin DOMAIN handle
        BY <1>2, <3>3 DEF IInv, ForkTableTrue
      <3>. QED  BY <3>2, <3>3
    <2>. QED  BY <1>1, <1>3, <2>1 DEF IInv, ForkTableTrue
  <1>. QED  BY <1>5, <1>6, <1>7 DEF IInv

LEMMA SessionInv == handle_session => IInv'
  <1>. SUFFICES ASSUME handle_session  PROVE IInv'  OBVIOUS
  <1>1. /\ DOMAIN handle' = {} /\ DOMAIN forks' = {} /\ DOMAIN fork_pos' = {} /\ DOMAIN nodes' = {}
        /\ IsFun(handle') /\ IsFun(forks') /\ next_id' = 3 /\ nextRef' = 1
        /\ locks' = [r \in 1 .. MaxRef |-> {}]
    BY DEF handle_session, Empty, IsFun
  <1>2. MaxRef \in Nat \ {0}  BY AfpForksAssumption
  <1>3. Types'  BY <1>1, <1>2 DEF Types
  <1>4. ForkTableTrue'  BY <1>1 DEF ForkTableTrue
  <1>. QED  BY <1>1, <1>3, <1>4 DEF IInv, IdsUsed, OneNumber, ForkPosTrue, FlushMissesNothing

LEMMA NextInv == IInv /\ [Next]_vars => IInv'
  <1>. SUFFICES ASSUME IInv, [Next]_vars  PROVE IInv'  OBVIOUS
  <1>0. MaxPos \in Nat /\ \A k \in 0 .. MaxPos : k \in Nat  BY AfpForksAssumption
  <1>1. CASE handle_open_fork
    BY <1>1, OpenInv DEF handle_open_fork, FPOpenFork
  <1>2. CASE handle_close_fork
    BY <1>2, CloseInv DEF handle_close_fork
  <1>3. CASE handle_read
    <2>1. PICK q \in FPRead : read(q.r, q.offset, MaxPos + 1)  BY <1>3 DEF handle_read
    <2>. QED  BY <1>0, <2>1, ReadInv DEF FPRead
  <1>4. CASE handle_write
    <2>1. PICK q \in FPWrite : write_fork(q.r, q.offset, q.count) \/ WriteSeekFails(q.r)
      BY <1>4 DEF handle_write
    <2>2. q.r \in DOMAIN forks /\ q.offset \in Nat /\ q.count \in Nat  BY <1>0 DEF FPWrite
    <2>. QED  BY <2>1, <2>2, WriteInv, LostInv DEF WriteSeekFails
  <1>5. CASE handle_set_fork_parms
    BY <1>5, SetForkParmsInv DEF handle_set_fork_parms
  <1>6. CASE handle_byte_range_lock
    <2>1. PICK q \in FPByteRangeLock : byte_range_lock(q.r, q.range, q.unlock)
      BY <1>6 DEF handle_byte_range_lock
    <2>. QED  BY <2>1, LockInv DEF FPByteRangeLock
  <1>7. CASE handle_flush
    <2>1. PICK failed \in SUBSET (dirty \cap DOMAIN handle) :
             /\ dirty' = failed /\ handle' = Synced(dirty \ failed)
             /\ UNCHANGED <<nodes, next_id, forks, fork_pos, locks, nextRef, lapped>>
      BY <1>7 DEF handle_flush, sync
    <2>. QED  BY <2>1, HandlesSynced
  <1>8. CASE handle_flush_fork
    BY <1>8, HandlesSynced DEF handle_flush_fork, sync_fork
  <1>9. CASE handle_create_file
    BY <1>9, NodeAdded DEF handle_create_file, create_file
  <1>10. CASE handle_delete
    BY <1>10, DeleteInv DEF handle_delete
  <1>11. CASE Others \/ UNCHANGED vars
    <2>1. UNCHANGED <<nodes, next_id, handle, forks, fork_pos, dirty, locks, nextRef, lapped>>
      BY <1>11 DEF Others, vars, volume, tables
    <2>2. (Types /\ IdsUsed /\ OneNumber)'  BY <2>1 DEF IInv, Types, IdsUsed, OneNumber
    <2>3. ForkPosTrue'  BY <2>1 DEF IInv, ForkPosTrue, IsOpen
    <2>4. (FlushMissesNothing /\ ForkTableTrue)'  BY <2>1 DEF IInv, FlushMissesNothing, ForkTableTrue
    <2>. QED  BY <2>2, <2>3, <2>4 DEF IInv
  <1>12. CASE ensure_dir_populated
    BY <1>12, NodeAdded DEF ensure_dir_populated
  <1>13. CASE handle_session
    BY <1>13, SessionInv
  <1>. QED
    BY <1>1, <1>2, <1>3, <1>4, <1>5, <1>6, <1>7, <1>8, <1>9, <1>10, <1>11, <1>12, <1>13 DEF Next

LEMMA Invariant == Spec => []IInv
  BY ForksInit, NextInv, PTL DEF Spec

\* A position remembered for an open fork is where its handle stands, so that a seek skipped is
\* one that would have changed nothing.
THEOREM PositionsTrue == Spec => []ForkPosTrue
  <1>1. IInv => ForkPosTrue  BY DEF IInv
  <1>. QED  BY <1>1, Invariant, PTL

\* Whatever was written to an open fork and not synced will be synced by the next FPFlush.
THEOREM FlushIsEnough == Spec => []FlushMissesNothing
  <1>1. IInv => FlushMissesNothing  BY DEF IInv
  <1>. QED  BY <1>1, Invariant, PTL

\* The numbers a client holds and the forks a session has open agree.
THEOREM NumbersTrue == Spec => []ForkTableTrue
  <1>1. IInv => ForkTableTrue  BY DEF IInv
  <1>. QED  BY <1>1, Invariant, PTL

-----------------------------------------------------------------------------
(* Bridges: types *)

Places == Uris \cup {Down}
Event  == [is : {"resolved", "removed"}, svc : Services, uri : Places]
Task   == [svc : Services, uri : Places, stage : {"lookup", "claim", "register"},
           seen : SUBSET Nat, id : Nat, sock : Nat, suffix : Nat, name : Nat]
Result == [svc : Services, uri : Places, name : Nat, sock : Nat]
Entry  == [name : Nat, sock : Nat, svc : Services, uri : Places, seen : SUBSET Nat]

LwType ==
    /\ lan \in [Services -> Places] /\ mdns \in Seq(Event)
    /\ tasks \subseteq Task /\ IsFiniteSet(tasks)
    /\ results \in Seq(Result)
    /\ printers \in [Services -> {None} \cup Printer]
    /\ bridged \subseteq Nat \X Nat /\ registered \subseteq Entry
    /\ sockets \in Nat

-----------------------------------------------------------------------------
(* The invariant of LwBridge *)

\* A task that has its socket and not yet its name.
Claiming == {t \in tasks : t.stage = "register"}

\* Sockets are given out in order, and what was seen was given out.
Numbered ==
    /\ \A t \in Claiming : t.sock <= sockets
    /\ \A i \in 1..Len(results) : results[i].sock <= sockets
    /\ \A s \in Services : printers[s] # None => printers[s].sock <= sockets
    /\ \A r \in registered : r.sock <= sockets
    /\ \A t \in tasks \cup registered : \A n \in t.seen : n <= sockets
    /\ \A x \in bridged : x[2] <= sockets

\* The socket of a task is its own.
OwnSocket ==
    \A t \in Claiming :
        /\ \A u \in Claiming : u.sock = t.sock => u = t
        /\ \A i \in 1..Len(results) : results[i].sock # t.sock
        /\ \A s \in Services : printers[s] # None => printers[s].sock # t.sock
        /\ \A r \in registered : r.sock # t.sock
        /\ \A u \in tasks \cup registered : t.sock \notin u.seen

\* One socket, one printer, wherever it is written down.
Agree ==
    \A r \in registered :
        /\ \A i \in 1..Len(results) : results[i].sock = r.sock =>
              results[i].svc = r.svc /\ results[i].uri = r.uri
        /\ \A s \in Services : printers[s] # None /\ printers[s].sock = r.sock =>
              s = r.svc /\ printers[s].uri = r.uri

\* The loop will hear of where a service has gone.
LastNews ==
    \A i \in 1..Len(mdns) :
        \/ mdns[i].uri = lan[mdns[i].svc]
        \/ \E k \in 1..Len(mdns) : i < k /\ mdns[k].svc = mdns[i].svc

At(s, u) == lan[s] = u \/ \E i \in 1..Len(mdns) : mdns[i].svc = s

\* What is on its way, or in the table, is where its service is.
Current ==
    /\ \A t \in tasks : t.svc \in raced \/ At(t.svc, t.uri)
    /\ \A i \in 1..Len(results) : results[i].svc \in raced \/ At(results[i].svc, results[i].uri)
    /\ \A s \in Services : printers[s] # None => s \in raced \/ At(s, printers[s].uri)

\* A service that was let be is resolved once at a time.
Single ==
    /\ \A t, u \in tasks : t.svc = u.svc /\ t.svc \notin raced => t = u
    /\ \A i, j \in 1..Len(results) : results[i].svc = results[j].svc /\ results[i].svc \notin raced => i = j
    /\ \A t \in tasks, i \in 1..Len(results) : t.svc = results[i].svc => t.svc \in raced
    /\ \A s \in Services \ raced : OnTheWay(s) => printers[s] = None

\* A name was nobody's when its task looked it up.
LookedUp ==
    \A t \in tasks :
        /\ t.stage = "lookup" => t.seen = {}
        /\ \A q \in registered : q.name = t.name => q.sock \notin t.seen

LwInv == Numbered /\ OwnSocket /\ Agree /\ LastNews /\ Current /\ Single /\ LookedUp /\ Offered

-----------------------------------------------------------------------------
(* The invariant of IppBridge *)

Entity == Devices \cup (Nat \X Nat)
InFlightOn(d) == {j \in Jobs : job[j].on = d /\ job[j].stage \in {"rasterizing", "waiting", "printing"}}

IppType ==
    /\ exported \subseteq Entity
    /\ round \in [stage : {"idle", "looked", "register"}, found : SUBSET Entity, todo : SUBSET Entity]
    /\ job \in [Jobs -> [stage : {"none", "posted", "rasterizing", "waiting", "printing", "completed", "aborted"},
                         on : Devices \cup {None}]]
    /\ \A j \in Jobs : job[j].stage # "none" => job[j].on \in Devices
    /\ active \in [Devices -> Nat]
    /\ grace \subseteq Devices

\* What LwBridge registered is in bridged_names, from before until after.
Bridged ==
    /\ Names \subseteq bridged
    /\ \A t \in Claiming : <<t.name, t.sock>> \in bridged

\* A name that no longer stands for a printer, and never will.
Dead(x) ==
    /\ x \in Nat \X Nat /\ x[2] <= sockets /\ x \notin Names
    /\ \A t \in Claiming : t.sock # x[2]

NeverOurs ==
    /\ \A x \in round.found \ Devices : x \in bridged \/ Dead(x)
    /\ \A x \in round.todo \ Devices : Dead(x)
    /\ \A x \in exported \ Devices : Dead(x)

\* ActivePrinters counts the jobs in flight.
Counted == \A d \in Devices : active[d] = Cardinality(InFlightOn(d))

\* A printer asked to print is published still, or was pruned meanwhile.
Posted == \A j \in Jobs : job[j].stage = "posted" => job[j].on \in exported \cup unguarded

IppInv == Bridged /\ NeverOurs /\ Counted /\ Posted /\ PublishedRight

-----------------------------------------------------------------------------
(* Operators *)

\* The smallest of a set of numbers is one of them.
LEMMA MinIn ==
    ASSUME NEW S \in SUBSET Nat, S # {}
    PROVE  Min(S) \in S
  <1>. DEFINE R == OpToRel(<, Nat)
  <1>1. IsWellFoundedOn(R, Nat)  BY NatLessThanWellFounded
  <1>2. PICK x \in S : \A y \in S : <<y, x>> \notin R
    <2>. HIDE DEF R
    <2>. QED  BY <1>1, WFMin
  <1>3. \A y \in S : y < x => <<y, x>> \in R  BY DEF OpToRel
  <1>4. ASSUME NEW y \in S  PROVE x <= y
    <2>1. ~(y < x)
      <3>. HIDE DEF R
      <3>. QED  BY <1>2, <1>3
    <2>. QED  BY <2>1
  <1>. QED  BY <1>4 DEF Min


\* The name a task begins with is a number, and there may be none.
LEMMA UniqueNameType ==
    ASSUME NEW taken
    PROVE  UniqueName(taken) = {} \/ \E n \in Nat : UniqueName(taken) = {n}
  <1>1. CASE 1 .. MaxSuffix \subseteq taken
    BY <1>1 DEF UniqueName
  <1>2. CASE ~(1 .. MaxSuffix \subseteq taken)
    <2>. DEFINE S == (1 .. MaxSuffix) \ taken
    <2>1. S \in SUBSET Nat /\ S # {}  BY <1>2, LwBridgeAssumption
    <2>2. Min(S) \in Nat  BY <2>1, MinIn
    <2>. QED  BY <1>2, <2>2 DEF UniqueName
  <1>. QED  BY <1>1, <1>2

\* The task spawned for a service that was resolved.
Spawned(ev, n) ==
    [svc |-> ev.svc, uri |-> ev.uri, stage |-> "lookup", seen |-> {},
     id |-> sockets + Cardinality(tasks), sock |-> 0, suffix |-> 2, name |-> n]

\* ServiceResolved forgets the printer's old place and spawns one task or none.
LEMMA Resolves ==
    ASSUME ServiceResolved
    PROVE  LET ev == Head(mdns)
               known == printers[ev.svc] # None /\ printers[ev.svc].uri = ev.uri IN
           \/ known /\ UNCHANGED <<printers, bridged, registered, tasks, raced>>
           \/ /\ ~known /\ RemovePrinter(ev.svc)
              /\ tasks' = tasks \/ \E n \in Nat : tasks' = tasks \cup {Spawned(ev, n)}
              /\ raced' = IF OnTheWay(ev.svc) THEN raced \cup {ev.svc} ELSE raced
  <1>. DEFINE ev == Head(mdns)
              others == {s \in Services \ {ev.svc} : printers[s] # None}
              names == UniqueName({printers[s].name : s \in others})
  <1>1. names = {} \/ \E n \in Nat : names = {n}
    <2>. HIDE DEF others
    <2>. QED  BY UniqueNameType
  <1>2. CASE printers[ev.svc] # None /\ printers[ev.svc].uri = ev.uri
    BY <1>2 DEF ServiceResolved
  <1>3. CASE ~(printers[ev.svc] # None /\ printers[ev.svc].uri = ev.uri)
    <2>1. /\ RemovePrinter(ev.svc)
          /\ tasks' = tasks \cup {Spawned(ev, n) : n \in names}
          /\ raced' = IF OnTheWay(ev.svc) THEN raced \cup {ev.svc} ELSE raced
      BY <1>3 DEF ServiceResolved, Spawned
    <2>2. tasks' = tasks \/ \E n \in Nat : tasks' = tasks \cup {Spawned(ev, n)}
      <3>. HIDE DEF names
      <3>. QED  BY <1>1, <2>1
    <2>. QED  BY <1>3, <2>1, <2>2
  <1>. QED  BY <1>2, <1>3

\* RemovePrinter gives up one socket with whatever is registered for it, and nothing else.
LEMMA Removes ==
    ASSUME LwType, NEW s \in Services, RemovePrinter(s)
    PROVE  /\ printers' \in [Services -> {None} \cup Printer]
           /\ printers'[s] = None
           /\ \A q \in Services : q # s => printers'[q] = printers[q]
           /\ registered' \subseteq registered /\ bridged' \subseteq bridged
           /\ \A r \in registered : r \notin registered' =>
                 printers[s] # None /\ r.sock = printers[s].sock
           /\ printers[s] # None => \A r \in registered' : r.sock # printers[s].sock
           /\ \A x \in bridged \ bridged' :
                 printers[s] # None /\ x = <<printers[s].name, printers[s].sock>>
  BY DEF LwType, RemovePrinter

\* A task's steps change what they should of it.
LEMMA Renamed ==
    ASSUME NEW t \in Task
    PROVE  LET u == [t EXCEPT !.name = t.suffix, !.suffix = @ + 1] IN
           /\ u \in Task /\ u.name = t.suffix
           /\ u.stage = t.stage /\ u.seen = t.seen /\ u.sock = t.sock /\ u.svc = t.svc /\ u.uri = t.uri
  <1>. DEFINE v == [t EXCEPT !.name = t.suffix]
              u == [v EXCEPT !.suffix = @ + 1]
  <1>1. /\ v \in Task /\ v.name = t.suffix
        /\ v.stage = t.stage /\ v.seen = t.seen /\ v.sock = t.sock /\ v.svc = t.svc /\ v.uri = t.uri
    BY DEF Task
  <1>2. /\ u \in Task /\ u.name = v.name
        /\ u.stage = v.stage /\ u.seen = v.seen /\ u.sock = v.sock /\ u.svc = v.svc /\ u.uri = v.uri
    <2>. HIDE DEF v
    <2>. QED  BY <1>1 DEF Task
  <1>3. v.suffix = t.suffix  BY DEF Task
  <1>. QED  BY <1>1, <1>2, <1>3

LEMMA Found ==
    ASSUME NEW t \in Task, NEW N \in SUBSET Nat
    PROVE  LET u == [t EXCEPT !.stage = "claim", !.seen = N] IN
           /\ u \in Task /\ u.stage = "claim" /\ u.seen = N
           /\ u.name = t.name /\ u.sock = t.sock /\ u.svc = t.svc /\ u.uri = t.uri
  <1>. DEFINE v == [t EXCEPT !.stage = "claim"]
              u == [v EXCEPT !.seen = N]
  <1>1. /\ v \in Task /\ v.stage = "claim"
        /\ v.name = t.name /\ v.sock = t.sock /\ v.svc = t.svc /\ v.uri = t.uri
    BY DEF Task
  <1>2. /\ u \in Task /\ u.stage = v.stage /\ u.seen = N
        /\ u.name = v.name /\ u.sock = v.sock /\ u.svc = v.svc /\ u.uri = v.uri
    <2>. HIDE DEF v
    <2>. QED  BY <1>1 DEF Task
  <1>. QED  BY <1>1, <1>2

LEMMA Claimed ==
    ASSUME NEW t \in Task, NEW n \in Nat
    PROVE  LET u == [t EXCEPT !.stage = "register", !.sock = n] IN
           /\ u \in Task /\ u.stage = "register" /\ u.sock = n
           /\ u.name = t.name /\ u.seen = t.seen /\ u.svc = t.svc /\ u.uri = t.uri
  <1>. DEFINE v == [t EXCEPT !.stage = "register"]
              u == [v EXCEPT !.sock = n]
  <1>1. /\ v \in Task /\ v.stage = "register"
        /\ v.name = t.name /\ v.seen = t.seen /\ v.svc = t.svc /\ v.uri = t.uri
    BY DEF Task
  <1>2. /\ u \in Task /\ u.stage = v.stage /\ u.sock = n
        /\ u.name = v.name /\ u.seen = v.seen /\ u.svc = v.svc /\ u.uri = v.uri
    <2>. HIDE DEF v
    <2>. QED  BY <1>1 DEF Task
  <1>. QED  BY <1>1, <1>2

-----------------------------------------------------------------------------
(* Types are kept *)

LEMMA InitType == LwInit => LwType
  BY FS_EmptySet DEF LwInit, LwType, Places

LEMMA StepType ==
    ASSUME LwType, NEW t \in tasks, NEW u \in Task, Step(t, u)
    PROVE  tasks' \subseteq Task /\ IsFiniteSet(tasks')
  <1>1. IsFiniteSet(tasks \ {t})  BY FS_RemoveElement DEF LwType
  <1>2. IsFiniteSet((tasks \ {t}) \cup {u})  BY <1>1, FS_AddElement
  <1>. QED  BY <1>2 DEF Step, LwType

LEMMA NextType ==
    ASSUME LwType, LwNext
    PROVE  LwType'
  <1>. USE LwBridgeAssumption DEF LwType
  <1>1. ASSUME NEW s \in Services, NEW u \in Uris, Appear(s, u)  PROVE LwType'
    <2>1. [is |-> "resolved", svc |-> s, uri |-> u] \in Event  BY DEF Event, Places
    <2>. QED  BY <1>1, <2>1 DEF Appear, Places
  <1>2. ASSUME NEW s \in Services, Disappear(s)  PROVE LwType'
    <2>1. [is |-> "removed", svc |-> s, uri |-> Down] \in Event  BY DEF Event, Places
    <2>. QED  BY <1>2, <2>1 DEF Disappear, Places
  <1>3. ASSUME ServiceResolved  PROVE LwType'
    <2>1. Head(mdns) \in Event /\ Tail(mdns) \in Seq(Event)  BY <1>3 DEF ServiceResolved
    <2>. DEFINE ev == Head(mdns)
    <2>2. ev.svc \in Services /\ ev.uri \in Places  BY <2>1 DEF Event
    <2>3. \/ UNCHANGED <<printers, bridged, registered, tasks>>
          \/ /\ RemovePrinter(ev.svc)
             /\ tasks' = tasks \/ \E n \in Nat : tasks' = tasks \cup {Spawned(ev, n)}
      BY <1>3, Resolves
    <2>4. /\ printers' \in [Services -> {None} \cup Printer]
          /\ bridged' \subseteq bridged /\ registered' \subseteq registered
      BY <2>2, <2>3, Removes
    <2>5. ASSUME NEW n \in Nat, tasks' = tasks \cup {Spawned(ev, n)}
          PROVE  tasks' \subseteq Task /\ IsFiniteSet(tasks')
      <3>1. Cardinality(tasks) \in Nat  BY FS_CardinalityType
      <3>2. Spawned(ev, n) \in Task  BY <2>2, <3>1 DEF Spawned, Task
      <3>. QED  BY <2>5, <3>2, FS_AddElement
    <2>6. tasks' \subseteq Task /\ IsFiniteSet(tasks')  BY <2>3, <2>5
    <2>7. mdns' = Tail(mdns) /\ UNCHANGED <<lan, results, sockets>>  BY <1>3 DEF ServiceResolved
    <2>. QED  BY <2>1, <2>4, <2>6, <2>7
  <1>4. ASSUME ServiceRemoved  PROVE LwType'
    <2>1. Head(mdns) \in Event /\ Tail(mdns) \in Seq(Event)  BY <1>4 DEF ServiceRemoved
    <2>2. Head(mdns).svc \in Services  BY <2>1 DEF Event
    <2>3. RemovePrinter(Head(mdns).svc)  BY <1>4 DEF ServiceRemoved
    <2>4. /\ printers' \in [Services -> {None} \cup Printer]
          /\ bridged' \subseteq bridged /\ registered' \subseteq registered
      BY <2>2, <2>3, Removes
    <2>. QED  BY <1>4, <2>1, <2>4 DEF ServiceRemoved
  <1>5. ASSUME TakeResult  PROVE LwType'
    <2>. DEFINE r == Head(results)
    <2>1. r \in Result /\ Tail(results) \in Seq(Result)  BY <1>5 DEF TakeResult
    <2>2. [uri |-> r.uri, name |-> r.name, sock |-> r.sock] \in Printer
      BY <2>1 DEF Result, Printer, Places
    <2>3. printers' \in [Services -> {None} \cup Printer]
      BY <1>5, <2>2 DEF TakeResult
    <2>. QED  BY <1>5, <2>1, <2>3 DEF TakeResult
  <1>6. ASSUME NEW t \in tasks, LookupName(t)  PROVE LwType'
    <2>. t \in Task  OBVIOUS
    <2>1. {r.sock : r \in registered} \in SUBSET Nat  BY DEF Entry
    <2>2. [t EXCEPT !.stage = "claim", !.seen = {r.sock : r \in registered}] \in Task
      BY <2>1, Found
    <2>3. [t EXCEPT !.name = t.suffix, !.suffix = @ + 1] \in Task
      BY Renamed
    <2>4. [t EXCEPT !.stage = "claim"] \in Task
      BY DEF Task
    <2>5. IsFiniteSet(tasks \ {t})  BY FS_RemoveElement
    <2>6. tasks' \subseteq Task /\ IsFiniteSet(tasks')
      BY <1>6, <2>2, <2>3, <2>4, <2>5, StepType DEF LookupName
    <2>. QED  BY <1>6, <2>6 DEF LookupName
  <1>7. ASSUME NEW t \in tasks, ClaimName(t)  PROVE LwType'
    <2>. t \in Task  OBVIOUS
    <2>. sockets + 1 \in Nat  OBVIOUS
    <2>1. [t EXCEPT !.stage = "register", !.sock = sockets + 1] \in Task  BY Claimed
    <2>2. tasks' \subseteq Task /\ IsFiniteSet(tasks')  BY <1>7, <2>1, StepType DEF ClaimName
    <2>3. <<t.name, sockets + 1>> \in Nat \X Nat  BY DEF Task
    <2>. QED  BY <1>7, <2>2, <2>3 DEF ClaimName
  <1>8. ASSUME NEW t \in tasks, RegisterName(t)  PROVE LwType'
    <2>. t \in Task  OBVIOUS
    <2>1. [name |-> t.name, sock |-> t.sock, svc |-> t.svc, uri |-> t.uri, seen |-> t.seen] \in Entry
      BY DEF Task, Entry
    <2>2. [svc |-> t.svc, uri |-> t.uri, name |-> t.name, sock |-> t.sock] \in Result
      BY DEF Task, Result
    <2>3. IsFiniteSet(tasks \ {t})  BY FS_RemoveElement
    <2>. QED  BY <1>8, <2>1, <2>2, <2>3 DEF RegisterName
  <1>. QED  BY <1>1, <1>2, <1>3, <1>4, <1>5, <1>6, <1>7, <1>8 DEF LwNext


-----------------------------------------------------------------------------
(* News of the LAN *)

\* A service that moves is followed by the news of it.
LEMMA NewsComes ==
    ASSUME LwType, LastNews, NEW e \in Event,
           lan' = [lan EXCEPT ![e.svc] = e.uri], mdns' = Append(mdns, e)
    PROVE  /\ LastNews'
           /\ \A s \in Services : \A u \in Places : At(s, u) => At(s, u)'
  <1>. USE DEF LwType
  <1>1. /\ Len(mdns') = Len(mdns) + 1
        /\ \A i \in 1..Len(mdns) : mdns'[i] = mdns[i]
        /\ mdns'[Len(mdns) + 1] = e
    OBVIOUS
  <1>2. ASSUME NEW i \in 1..Len(mdns)  PROVE mdns[i].svc \in Services
    <2>1. mdns[i] \in Event  OBVIOUS
    <2>. QED  BY <2>1 DEF Event
  <1>3. e.svc \in Services  BY DEF Event
  <1>4. ASSUME NEW i \in 1..Len(mdns')
        PROVE  \/ mdns'[i].uri = lan'[mdns'[i].svc]
               \/ \E k \in 1..Len(mdns') : i < k /\ mdns'[k].svc = mdns'[i].svc
    <2>1. CASE i = Len(mdns) + 1
      BY <1>1, <1>3, <2>1
    <2>2. CASE i # Len(mdns) + 1
      <3>1. i \in 1..Len(mdns) /\ mdns'[i] = mdns[i]  BY <1>1, <2>2
      <3>2. CASE mdns[i].svc = e.svc
        <4>1. Len(mdns) + 1 \in 1..Len(mdns') /\ i < Len(mdns) + 1  BY <1>1, <3>1
        <4>. QED  BY <1>1, <3>1, <3>2, <4>1
      <3>3. CASE mdns[i].svc # e.svc
        BY <1>1, <1>2, <3>1, <3>3 DEF LastNews
      <3>. QED  BY <3>2, <3>3
    <2>. QED  BY <2>1, <2>2
  <1>5. ASSUME NEW s \in Services, NEW u \in Places, At(s, u)  PROVE At(s, u)'
    BY <1>1, <1>3, <1>5 DEF At
  <1>. QED  BY <1>4, <1>5 DEF LastNews

\* News handled is news no more, but what it says holds or there is more of it.
LEMMA NewsHandled ==
    ASSUME LwType, LastNews, mdns # <<>>, mdns' = Tail(mdns), lan' = lan, NEW e, e = Head(mdns)
    PROVE  /\ e \in Event /\ e.svc \in Services /\ e.uri \in Places
           /\ LastNews'
           /\ \A s \in Services : \A u \in Places : s # e.svc /\ At(s, u) => At(s, u)'
           /\ At(e.svc, e.uri)'
  <1>. USE DEF LwType
  <1>1. /\ Len(mdns') = Len(mdns) - 1
        /\ \A i \in 1..Len(mdns') : mdns'[i] = mdns[i + 1]
        /\ e = mdns[1] /\ e \in Event /\ Len(mdns) \in Nat /\ Len(mdns) > 0
    OBVIOUS
  <1>2. e.svc \in Services /\ e.uri \in Places  BY <1>1 DEF Event
  <1>3. \A k \in 1..Len(mdns) : k # 1 => k - 1 \in 1..Len(mdns') /\ mdns'[k - 1] = mdns[k]
    BY <1>1
  <1>4. ASSUME NEW i \in 1..Len(mdns')
        PROVE  \/ mdns'[i].uri = lan'[mdns'[i].svc]
               \/ \E k \in 1..Len(mdns') : i < k /\ mdns'[k].svc = mdns'[i].svc
    <2>1. i + 1 \in 1..Len(mdns) /\ mdns'[i] = mdns[i + 1]  BY <1>1
    <2>2. CASE mdns[i + 1].uri = lan[mdns[i + 1].svc]
      BY <2>1, <2>2
    <2>3. CASE \E k \in 1..Len(mdns) : i + 1 < k /\ mdns[k].svc = mdns[i + 1].svc
      <3>1. PICK k \in 1..Len(mdns) : i + 1 < k /\ mdns[k].svc = mdns[i + 1].svc  BY <2>3
      <3>2. k - 1 \in 1..Len(mdns') /\ i < k - 1 /\ mdns'[k - 1] = mdns[k]  BY <1>3, <3>1
      <3>. QED  BY <2>1, <3>1, <3>2
    <2>. QED  BY <2>1, <2>2, <2>3 DEF LastNews
  <1>5. ASSUME NEW s \in Services, NEW u \in Places, s # e.svc, At(s, u)  PROVE At(s, u)'
    <2>1. CASE lan[s] = u  BY <2>1 DEF At
    <2>2. CASE \E k \in 1..Len(mdns) : mdns[k].svc = s
      <3>1. PICK k \in 1..Len(mdns) : mdns[k].svc = s  BY <2>2
      <3>2. k - 1 \in 1..Len(mdns') /\ mdns'[k - 1] = mdns[k]  BY <1>1, <1>3, <1>5, <3>1
      <3>. QED  BY <3>1, <3>2 DEF At
    <2>. QED  BY <1>5, <2>1, <2>2 DEF At
  <1>6. At(e.svc, e.uri)'
    <2>1. CASE lan[e.svc] = e.uri  BY <2>1 DEF At
    <2>2. CASE \E k \in 1..Len(mdns) : 1 < k /\ mdns[k].svc = e.svc
      <3>1. PICK k \in 1..Len(mdns) : 1 < k /\ mdns[k].svc = e.svc  BY <2>2
      <3>2. k - 1 \in 1..Len(mdns') /\ mdns'[k - 1] = mdns[k]  BY <1>3, <3>1
      <3>. QED  BY <3>1, <3>2 DEF At
    <2>. QED  BY <1>1, <2>1, <2>2 DEF LastNews
  <1>. QED  BY <1>1, <1>2, <1>4, <1>5, <1>6 DEF LastNews


-----------------------------------------------------------------------------
(* The invariant of LwBridge is kept *)

LEMMA InitInv == LwInit => LwInv
  BY DEF LwInit, LwInv, Numbered, OwnSocket, Claiming, Agree, LastNews, Current, Single, LookedUp,
         Offered, Known, NamesDistinct, OnTheWay

\* The parts that do not speak of the LAN.
Ledger == Numbered /\ OwnSocket /\ Agree /\ LookedUp /\ NamesDistinct

\* A service that came or went.
LEMMA LanInv ==
    ASSUME LwType, LwInv, NEW e \in Event,
           lan' = [lan EXCEPT ![e.svc] = e.uri], mdns' = Append(mdns, e),
           UNCHANGED <<tasks, results, printers, bridged, registered, sockets, raced>>
    PROVE  LwInv'
  <1>1. LastNews' /\ \A s \in Services : \A u \in Places : At(s, u) => At(s, u)'
    BY NewsComes DEF LwInv
  <1>2. (Ledger /\ Single)'
    BY DEF LwInv, Ledger, Numbered, OwnSocket, Claiming, Agree, Single, LookedUp, Offered, NamesDistinct,
           OnTheWay
  <1>3. Current'
    <2>1. \A t \in tasks : t.svc \in Services /\ t.uri \in Places  BY DEF LwType, Task
    <2>2. \A i \in 1..Len(results) : results[i].svc \in Services /\ results[i].uri \in Places
      <3>1. \A i \in 1..Len(results) : results[i] \in Result  BY DEF LwType
      <3>. QED  BY <3>1 DEF Result
    <2>3. \A s \in Services : printers[s] # None => printers[s].uri \in Places
      BY DEF LwType, Printer, Places
    <2>. QED  BY <1>1, <2>1, <2>2, <2>3 DEF LwInv, Current
  <1>4. Known'
    <2>1. \A r \in registered : r.svc \in Services /\ r.uri \in Places  BY DEF LwType, Entry
    <2>2. \A r \in registered : At(r.svc, r.uri) => At(r.svc, r.uri)'  BY <1>1, <2>1
    <2>. QED  BY <2>2 DEF LwInv, Offered, Known, At
  <1>. QED  BY <1>1, <1>2, <1>3, <1>4 DEF LwInv, Ledger, Offered

\* A printer was given up and at most one task spawned.
LEMMA ForgetLedger ==
    ASSUME LwType, LwInv, NEW s \in Services, RemovePrinter(s),
           \/ tasks' = tasks
           \/ \E t \in Task : t.stage = "lookup" /\ t.seen = {} /\ tasks' = tasks \cup {t},
           UNCHANGED <<results, sockets>>
    PROVE  Ledger'
  <1>1. /\ \A q \in Services : printers'[q] # None => printers'[q] = printers[q]
        /\ registered' \subseteq registered /\ bridged' \subseteq bridged
    BY Removes
  <1>2. /\ Claiming' = Claiming
        /\ tasks \subseteq tasks' /\ \A t \in tasks' : t \in tasks \/ (t.seen = {} /\ t.stage = "lookup")
    <2>1. CASE tasks' = tasks  BY <2>1 DEF Claiming
    <2>2. ASSUME NEW t \in Task, t.stage = "lookup", t.seen = {}, tasks' = tasks \cup {t}
          PROVE  Claiming' = Claiming /\ \A u \in tasks' : u \in tasks \/ (u.seen = {} /\ u.stage = "lookup")
      BY <2>2 DEF Claiming
    <2>. QED  BY <2>1, <2>2
  <1>. USE <1>1, <1>2 DEF LwInv
  <1>3. Numbered'  BY DEF Numbered
  <1>4. OwnSocket'  BY DEF OwnSocket
  <1>5. Agree'  BY DEF Agree
  <1>6. LookedUp'  BY DEF LookedUp
  <1>7. NamesDistinct'  BY DEF Offered, NamesDistinct
  <1>. QED  BY <1>3, <1>4, <1>5, <1>6, <1>7 DEF Ledger

\* News handled of a service nothing is on the way for, or that is set aside: whatever was
\* known of it is given up, and at most one task spawned.
LEMMA ForgetInv ==
    ASSUME LwType, LwInv, NEW e \in Event, mdns # <<>>, e = Head(mdns), mdns' = Tail(mdns),
           RemovePrinter(e.svc),
           \/ tasks' = tasks
           \/ \E t \in Task : /\ t.svc = e.svc /\ t.uri = e.uri /\ t.stage = "lookup" /\ t.seen = {}
                              /\ tasks' = tasks \cup {t},
           raced' = IF OnTheWay(e.svc) THEN raced \cup {e.svc} ELSE raced,
           UNCHANGED <<lan, results, sockets>>
    PROVE  LwInv'
  <1>. DEFINE s == e.svc
  <1>1. /\ s \in Services /\ e.uri \in Places /\ LastNews' /\ At(s, e.uri)'
        /\ \A q \in Services : \A u \in Places : q # s /\ At(q, u) => At(q, u)'
    BY NewsHandled DEF LwInv
  <1>2. Ledger'  BY <1>1, ForgetLedger
  <1>3. /\ printers'[s] = None
        /\ \A q \in Services : q # s => printers'[q] = printers[q]
        /\ registered' \subseteq registered
        /\ printers[s] # None => \A r \in registered' : r.sock # printers[s].sock
    BY <1>1, Removes
  <1>4. \A t \in tasks' : \/ t \in tasks
                          \/ t.svc = s /\ t.uri = e.uri /\ \A u \in tasks' : u \in tasks \/ u = t
    <2>1. CASE tasks' = tasks  BY <2>1
    <2>2. ASSUME NEW v \in Task, v.svc = e.svc, v.uri = e.uri, tasks' = tasks \cup {v}
          PROVE  \A t \in tasks' : \/ t \in tasks
                                   \/ t.svc = s /\ t.uri = e.uri /\ \A u \in tasks' : u \in tasks \/ u = t
      BY <2>2
    <2>. QED  BY <2>1, <2>2
  <1>5. \A t \in tasks : t.svc \in Services /\ t.uri \in Places  BY DEF LwType, Task
  <1>6. \A i \in 1..Len(results) : results[i].svc \in Services /\ results[i].uri \in Places
    <2>1. \A i \in 1..Len(results) : results[i] \in Result  BY DEF LwType
    <2>. QED  BY <2>1 DEF Result
  <1>7. \A q \in Services : printers[q] # None => printers[q].uri \in Places
    BY DEF LwType, Printer, Places
  <1>8. s \notin raced' => ~OnTheWay(s)  OBVIOUS
  <1>9. raced \subseteq raced' /\ \A q \in raced' : q \in raced \/ q = s  OBVIOUS
  <1>10. Current'
    <2>1. ASSUME NEW t \in tasks'  PROVE t.svc \in raced' \/ At(t.svc, t.uri)'
      <3>1. CASE t.svc = s /\ t.uri = e.uri  BY <1>1, <3>1
      <3>2. CASE t \in tasks /\ t.svc = s  BY <1>8, <3>2 DEF OnTheWay
      <3>3. CASE t \in tasks /\ t.svc # s  BY <1>1, <1>5, <1>9, <3>3 DEF LwInv, Current
      <3>. QED  BY <1>4, <3>1, <3>2, <3>3
    <2>2. ASSUME NEW i \in 1..Len(results')
          PROVE  (results[i].svc \in raced \/ At(results[i].svc, results[i].uri))'
      <3>. DEFINE q == results[i].svc
                  u == results[i].uri
      <3>1. q' = q /\ u' = u /\ i \in 1..Len(results)  OBVIOUS
      <3>2. CASE q = s  BY <1>8, <3>1, <3>2 DEF OnTheWay
      <3>3. ASSUME q # s, q \notin raced'  PROVE At(q, u)'
        <4>1. At(q, u)  BY <1>9, <3>1, <3>3 DEF LwInv, Current
        <4>2. \A p \in Services : \A v \in Places : p = q /\ v = u => At(p, v)'
          BY <1>1, <3>3, <4>1
        <4>. QED  BY <1>6, <3>1, <4>2 DEF At
      <3>. QED  BY <3>1, <3>2, <3>3
    <2>3. ASSUME NEW q \in Services, printers'[q] # None
          PROVE  (q \in raced \/ At(q, printers[q].uri))'
      <3>1. q # s /\ printers'[q] = printers[q]  BY <1>3, <2>3
      <3>2. ASSUME q \notin raced'  PROVE At(q, printers[q].uri)'
        <4>1. At(q, printers[q].uri)  BY <1>9, <2>3, <3>1, <3>2 DEF LwInv, Current
        <4>2. \A v \in Places : v = printers[q].uri => At(q, v)'  BY <1>1, <3>1, <4>1
        <4>. QED  BY <1>7, <2>3, <3>1, <4>2 DEF At
      <3>. QED  BY <3>2
    <2>. QED  BY <2>1, <2>2, <2>3 DEF Current
  <1>11. Single'
    <2>1. \A t, u \in tasks' : t.svc = u.svc /\ t.svc \notin raced' => t = u
      BY <1>4, <1>8, <1>9 DEF LwInv, Single, OnTheWay
    <2>2. \A i, j \in 1..Len(results) : results[i].svc = results[j].svc /\ results[i].svc \notin raced' => i = j
      BY <1>9 DEF LwInv, Single
    <2>3. \A t \in tasks', i \in 1..Len(results) : t.svc = results[i].svc => t.svc \in raced'
      BY <1>4, <1>8, <1>9 DEF LwInv, Single, OnTheWay
    <2>4. \A q \in Services \ raced' : OnTheWay(q)' => printers'[q] = None
      BY <1>3, <1>4, <1>9 DEF LwInv, Single, OnTheWay
    <2>. QED  BY <2>1, <2>2, <2>3, <2>4 DEF Single
  <1>12. Known'
    <2>1. \A r \in registered' : r.svc \in Services /\ r.uri \in Places  BY <1>3 DEF LwType, Entry
    <2>2. ASSUME NEW r \in registered', r.svc \notin raced'
          PROVE  /\ \/ printers'[r.svc] # None /\ printers'[r.svc].sock = r.sock
                    \/ \E i \in 1..Len(results) : results[i].sock = r.sock
                 /\ At(r.svc, r.uri)'
      <3>1. /\ \/ printers[r.svc] # None /\ printers[r.svc].sock = r.sock
               \/ \E i \in 1..Len(results) : results[i].sock = r.sock
            /\ At(r.svc, r.uri)
        BY <1>3, <1>9, <2>2 DEF LwInv, Offered, Known, At
      <3>2. r.svc # s
        <4>1. SUFFICES ASSUME r.svc = s  PROVE FALSE  OBVIOUS
        <4>2. \A i \in 1..Len(results) : results[i].sock # r.sock
          BY <1>3, <1>8, <2>2, <4>1 DEF LwInv, Agree, OnTheWay
        <4>. QED  BY <1>3, <3>1, <4>1, <4>2
      <3>. QED  BY <1>1, <1>3, <2>1, <3>1, <3>2
    <2>. QED  BY <2>2 DEF Known, At
  <1>. QED  BY <1>1, <1>2, <1>10, <1>11, <1>12 DEF LwInv, Ledger, Offered

\* What every step asks of the records it looks at.
LEMMA Typed ==
    ASSUME LwType
    PROVE  /\ \A t \in tasks : t \in Task /\ t.svc \in Services /\ t.uri \in Places /\ t.sock \in Nat /\ t.seen \subseteq Nat
           /\ \A i \in 1..Len(results) : /\ results[i] \in Result /\ results[i].svc \in Services
                                         /\ results[i].uri \in Places /\ results[i].sock \in Nat
           /\ \A s \in Services : printers[s] # None => printers[s].uri \in Places /\ printers[s].sock \in Nat
           /\ \A r \in registered : r.svc \in Services /\ r.uri \in Places /\ r.sock \in Nat /\ r.seen \subseteq Nat
  <1>1. \A i \in 1..Len(results) : results[i] \in Result  BY DEF LwType
  <1>2. \A i \in 1..Len(results) : /\ results[i].svc \in Services
                                   /\ results[i].uri \in Places /\ results[i].sock \in Nat
    BY <1>1 DEF Result
  <1>3. \A t \in tasks : t \in Task /\ t.svc \in Services /\ t.uri \in Places /\ t.sock \in Nat /\ t.seen \subseteq Nat
    BY DEF LwType, Task
  <1>4. \A s \in Services : printers[s] # None => printers[s].uri \in Places /\ printers[s].sock \in Nat
    BY DEF LwType, Printer, Places
  <1>5. \A r \in registered : r.svc \in Services /\ r.uri \in Places /\ r.sock \in Nat /\ r.seen \subseteq Nat
    BY DEF LwType, Entry
  <1>. QED  BY <1>1, <1>2, <1>3, <1>4, <1>5

\* News that a printer is where it was known to be.
LEMMA KnownInv ==
    ASSUME LwType, LwInv, NEW e \in Event, mdns # <<>>, e = Head(mdns), mdns' = Tail(mdns),
           printers[e.svc] # None, printers[e.svc].uri = e.uri,
           UNCHANGED <<lan, tasks, results, printers, bridged, registered, sockets, raced>>
    PROVE  LwInv'
  <1>. DEFINE s == e.svc
  <1>1. /\ s \in Services /\ e.uri \in Places /\ LastNews' /\ At(s, e.uri)'
        /\ \A q \in Services : \A u \in Places : q # s /\ At(q, u) => At(q, u)'
    BY NewsHandled DEF LwInv
  <1>2. (Ledger /\ Single)'
    BY DEF LwInv, Ledger, Numbered, OwnSocket, Claiming, Agree, Single, LookedUp, Offered, NamesDistinct,
           OnTheWay
  <1>3. s \in raced \/ ~OnTheWay(s)  BY <1>1 DEF LwInv, Single
  <1>4. ASSUME NEW q \in Services, NEW u \in Places, At(q, u), q = s => u = e.uri
        PROVE  At(q, u)'
    <2>1. CASE q # s  BY <1>1, <1>4, <2>1
    <2>2. CASE q = s  BY <1>1, <1>4, <2>2 DEF At
    <2>. QED  BY <2>1, <2>2
  <1>5. Current'
    <2>1. \A t \in tasks : t.svc \in raced \/ At(t.svc, t.uri)'
      <3>1. \A t \in tasks : t.svc \notin raced => t.svc # s /\ At(t.svc, t.uri)
        BY <1>3 DEF LwInv, Current, OnTheWay
      <3>. QED  BY <1>4, <3>1, Typed
    <2>2. ASSUME NEW i \in 1..Len(results)
          PROVE  (results[i].svc \in raced \/ At(results[i].svc, results[i].uri))'
      <3>1. results[i].svc \notin raced => results[i].svc # s /\ At(results[i].svc, results[i].uri)
        BY <1>3 DEF LwInv, Current, OnTheWay
      <3>2. \A q \in Services, u \in Places :
              q = results[i].svc /\ u = results[i].uri => q \in raced \/ At(q, u)'
        BY <1>4, <3>1
      <3>. QED  BY <3>2, Typed DEF At
    <2>3. ASSUME NEW q \in Services, printers[q] # None
          PROVE  (q \in raced \/ At(q, printers[q].uri))'
      <3>1. q \notin raced => At(q, printers[q].uri)  BY <2>3 DEF LwInv, Current
      <3>2. \A u \in Places : u = printers[q].uri => q \in raced \/ At(q, u)'
        BY <1>4, <3>1
      <3>. QED  BY <2>3, <3>2, Typed DEF At
    <2>. QED  BY <2>1, <2>2, <2>3 DEF Current
  <1>6. Known'
    <2>1. ASSUME NEW r \in registered, r.svc \notin raced
          PROVE  /\ \/ printers[r.svc] # None /\ printers[r.svc].sock = r.sock
                    \/ \E i \in 1..Len(results) : results[i].sock = r.sock
                 /\ At(r.svc, r.uri)'
      <3>1. /\ \/ printers[r.svc] # None /\ printers[r.svc].sock = r.sock
               \/ \E i \in 1..Len(results) : results[i].sock = r.sock
            /\ At(r.svc, r.uri)
        BY <2>1 DEF LwInv, Offered, Known, At
      <3>2. r.svc = s => r.uri = e.uri
        BY <1>3, <2>1, <3>1, Typed DEF LwInv, Agree, OnTheWay
      <3>. QED  BY <1>4, <3>1, <3>2, Typed
    <2>. QED  BY <2>1 DEF Known, At
  <1>. QED  BY <1>1, <1>2, <1>5, <1>6 DEF LwInv, Ledger, Offered

LEMMA ResolvedInv == LwType /\ LwInv /\ ServiceResolved => LwInv'
  <1>. SUFFICES ASSUME LwType, LwInv, ServiceResolved  PROVE LwInv'  OBVIOUS
  <1>. DEFINE e == Head(mdns)
  <1>1. mdns # <<>> /\ mdns' = Tail(mdns) /\ UNCHANGED <<lan, results, sockets>>
    BY DEF ServiceResolved
  <1>2. e \in Event  BY <1>1 DEF LwType
  <1>3. e.svc \in Services /\ e.uri \in Places  BY <1>2 DEF Event
  <1>4. CASE /\ printers[e.svc] # None /\ printers[e.svc].uri = e.uri
             /\ UNCHANGED <<printers, bridged, registered, tasks, raced>>
    <2>. HIDE DEF e
    <2>. QED  BY <1>1, <1>2, <1>4, KnownInv DEF e
  <1>5. CASE /\ RemovePrinter(e.svc)
             /\ tasks' = tasks \/ \E n \in Nat : tasks' = tasks \cup {Spawned(e, n)}
             /\ raced' = IF OnTheWay(e.svc) THEN raced \cup {e.svc} ELSE raced
    <2>1. Cardinality(tasks) \in Nat  BY FS_CardinalityType DEF LwType
    <2>2. ASSUME NEW n \in Nat
          PROVE  LET t == Spawned(e, n) IN
                 t \in Task /\ t.svc = e.svc /\ t.uri = e.uri /\ t.stage = "lookup" /\ t.seen = {}
      BY <1>3, <2>1 DEF Spawned, Task, LwType
    <2>3. \/ tasks' = tasks
          \/ \E t \in Task : /\ t.svc = e.svc /\ t.uri = e.uri /\ t.stage = "lookup" /\ t.seen = {}
                             /\ tasks' = tasks \cup {t}
      <3>. HIDE DEF e
      <3>. QED  BY <1>5, <2>2
    <2>. HIDE DEF e
    <2>. QED  BY <1>1, <1>2, <1>5, <2>3, ForgetInv DEF e
  <1>. QED  BY <1>4, <1>5, Resolves

LEMMA RemovedInv == LwType /\ LwInv /\ ServiceRemoved => LwInv'
  <1>. SUFFICES ASSUME LwType, LwInv, ServiceRemoved  PROVE LwInv'  OBVIOUS
  <1>. DEFINE e == Head(mdns)
  <1>1. /\ mdns # <<>> /\ mdns' = Tail(mdns) /\ UNCHANGED <<lan, tasks, results, sockets>>
        /\ RemovePrinter(e.svc)
        /\ raced' = IF OnTheWay(e.svc) THEN raced \cup {e.svc} ELSE raced
    BY DEF ServiceRemoved
  <1>2. e \in Event  BY <1>1 DEF LwType
  <1>. HIDE DEF e
  <1>. QED  BY <1>1, <1>2, ForgetInv DEF e

\* The table takes over what the channel held.
LEMMA TakeResultInv == LwType /\ LwInv /\ TakeResult => LwInv'
  <1>. SUFFICES ASSUME LwType, LwInv, TakeResult  PROVE LwInv'  OBVIOUS
  <1>. DEFINE r == results[1]
              p == [uri |-> r.uri, name |-> r.name, sock |-> r.sock]
  <1>0. Head(results) = r  BY DEF TakeResult, LwType
  <1>1. /\ results # <<>> /\ results' = Tail(results)
        /\ printers' = [printers EXCEPT ![r.svc] = p]
        /\ UNCHANGED <<lan, mdns, tasks, bridged, registered, sockets, raced>>
    BY <1>0 DEF TakeResult
  <1>2. /\ Len(results) \in Nat /\ Len(results) > 0 /\ Len(results') = Len(results) - 1
        /\ \A i \in 1..Len(results') : i + 1 \in 1..Len(results) /\ results'[i] = results[i + 1]
        /\ \A k \in 1..Len(results) : k # 1 => k - 1 \in 1..Len(results') /\ results'[k - 1] = results[k]
    BY <1>1 DEF LwType
  <1>3. 1 \in 1..Len(results) /\ r.svc \in Services /\ r.uri \in Places /\ r.sock \in Nat
    BY <1>2, Typed
  <1>4. p \in Printer /\ p.uri = r.uri /\ p.name = r.name /\ p.sock = r.sock
    <2>1. r \in Result  BY <1>3, Typed
    <2>. QED  BY <2>1 DEF Result, Printer, Places
  <1>5. /\ printers'[r.svc] = p
        /\ \A s \in Services : s # r.svc => printers'[s] = printers[s]
    BY <1>1, <1>3 DEF LwType
  <1>6. p # None  BY <1>4, LwBridgeAssumption
  <1>7. \A s \in Services : \A u \in Places : At(s, u) => At(s, u)'
    BY <1>1 DEF At
  <1>. HIDE DEF p, r
  <1>8. Numbered'
    BY <1>1, <1>2, <1>3, <1>4, <1>5 DEF LwInv, Numbered, Claiming, r
  <1>9. OwnSocket'
    BY <1>1, <1>2, <1>3, <1>4, <1>5 DEF LwInv, OwnSocket, Claiming, r
  <1>10. Agree'
    BY <1>1, <1>2, <1>3, <1>4, <1>5 DEF LwInv, Agree, r
  <1>11. (LastNews /\ LookedUp /\ NamesDistinct)'
    BY <1>1 DEF LwInv, LastNews, LookedUp, Offered, NamesDistinct
  <1>12. Current'
    <2>1. \A t \in tasks' : (t.svc \in raced)' \/ At(t.svc, t.uri)'
      BY <1>1, <1>7, Typed DEF LwInv, Current
    <2>2. ASSUME NEW i \in 1..Len(results')
          PROVE  (results[i].svc \in raced \/ At(results[i].svc, results[i].uri))'
      <3>1. \A s \in Services, u \in Places :
              s = results[i + 1].svc /\ u = results[i + 1].uri => s \in raced \/ At(s, u)'
        BY <1>2, <1>7 DEF LwInv, Current
      <3>. QED  BY <1>1, <1>2, <3>1, Typed DEF At
    <2>3. ASSUME NEW q \in Services, printers'[q] # None
          PROVE  (q \in raced \/ At(q, printers[q].uri))'
      <3>1. CASE q = r.svc
        <4>1. q \in raced \/ At(q, r.uri)  BY <1>3, <3>1 DEF LwInv, Current, r
        <4>. QED  BY <1>1, <1>4, <1>5, <3>1, <4>1 DEF At
      <3>2. CASE q # r.svc
        <4>1. q \in raced \/ At(q, printers[q].uri)  BY <1>5, <2>3, <3>2 DEF LwInv, Current
        <4>. QED  BY <1>1, <1>5, <3>2, <4>1 DEF At
      <3>. QED  BY <3>1, <3>2
    <2>. QED  BY <2>1, <2>2, <2>3 DEF Current
  <1>13. OnTheWay(r.svc)  BY <1>3 DEF OnTheWay, r
  <1>14. Single'
    <2>1. \A t, u \in tasks' : t.svc = u.svc /\ t.svc \notin raced' => t = u
      BY <1>1 DEF LwInv, Single
    <2>2. ASSUME NEW i \in 1..Len(results'), NEW j \in 1..Len(results'),
                 results'[i].svc = results'[j].svc, results'[i].svc \notin raced
          PROVE  i = j
      <3>. DEFINE k == i + 1
                  l == j + 1
      <3>1. /\ k \in 1..Len(results) /\ l \in 1..Len(results)
            /\ results[k].svc = results[l].svc /\ results[k].svc \notin raced
        BY <1>2, <2>2
      <3>2. k = l
        <4>. HIDE DEF k, l
        <4>. QED  BY <3>1 DEF LwInv, Single
      <3>. QED  BY <3>2
    <2>3. \A t \in tasks', i \in 1..Len(results') : t.svc = results'[i].svc => t.svc \in raced'
      BY <1>1, <1>2 DEF LwInv, Single
    <2>4. ASSUME NEW q \in Services \ raced, OnTheWay(q)'  PROVE printers'[q] = None
      <3>1. OnTheWay(q)
        BY <1>1, <1>2, <2>4 DEF OnTheWay
      <3>2. q # r.svc
        <4>1. SUFFICES ASSUME q = r.svc  PROVE FALSE  OBVIOUS
        <4>2. CASE \E t \in tasks : t.svc = q
          BY <1>3, <2>4, <4>1, <4>2 DEF LwInv, Single, r
        <4>3. CASE \E i \in 1..Len(results') : results'[i].svc = q
          <5>1. PICK i \in 1..Len(results') : results'[i].svc = q  BY <4>3
          <5>2. i + 1 \in 1..Len(results) /\ results[i + 1].svc = q /\ i + 1 # 1  BY <1>2, <5>1
          <5>. QED  BY <1>3, <2>4, <4>1, <5>2 DEF LwInv, Single, r
        <4>. QED  BY <1>1, <2>4, <4>2, <4>3 DEF OnTheWay
      <3>. QED  BY <1>5, <3>1, <3>2 DEF LwInv, Single
    <2>. QED  BY <1>1, <2>1, <2>2, <2>3, <2>4 DEF Single
  <1>15. Known'
    <2>1. ASSUME NEW q \in registered, q.svc \notin raced
          PROVE  \/ printers'[q.svc] # None /\ printers'[q.svc].sock = q.sock
                 \/ \E i \in 1..Len(results') : results'[i].sock = q.sock
      <3>1. CASE \E i \in 1..Len(results) : results[i].sock = q.sock
        <4>1. PICK i \in 1..Len(results) : results[i].sock = q.sock  BY <3>1
        <4>2. CASE i = 1
          <5>1. r.svc = q.svc  BY <1>3, <4>1, <4>2 DEF LwInv, Agree, r
          <5>. QED  BY <1>4, <1>5, <1>6, <4>1, <4>2, <5>1 DEF r
        <4>3. CASE i # 1  BY <1>2, <4>1, <4>3
        <4>. QED  BY <4>2, <4>3
      <3>2. CASE printers[q.svc] # None /\ printers[q.svc].sock = q.sock
        <4>1. q.svc # r.svc
          BY <1>3, <1>13, <2>1, <3>2 DEF LwInv, Single
        <4>. QED  BY <1>5, <3>2, <4>1, Typed
      <3>. QED  BY <2>1, <3>1, <3>2 DEF LwInv, Offered, Known
    <2>2. \A q \in registered : q.svc \notin raced => At(q.svc, q.uri)
      BY DEF LwInv, Offered, Known, At
    <2>. QED  BY <1>1, <2>1, <2>2 DEF Known, At
  <1>. QED  BY <1>8, <1>9, <1>10, <1>11, <1>12, <1>14, <1>15 DEF LwInv, Offered

\* A task that goes on with the same printer, or gives up, touches nothing but itself.
LEMMA TaskMoves ==
    ASSUME LwType, LwInv, NEW t \in tasks,
           \/ tasks' = tasks \ {t}
           \/ \E u \in Task : u.svc = t.svc /\ u.uri = t.uri /\ Step(t, u),
           UNCHANGED <<lan, mdns, results, printers, registered, raced>>
    PROVE  (Agree /\ LastNews /\ Current /\ Single /\ Offered)'
  <1>1. (Agree /\ LastNews /\ Offered)'
    BY DEF LwInv, Agree, LastNews, Offered, Known, NamesDistinct
  <1>2. \A s \in Services : \A u \in Places : At(s, u) => At(s, u)'  BY DEF At
  <1>3. \A v \in tasks' : \/ v \in tasks \ {t}
                          \/ /\ v.svc = t.svc /\ v.uri = t.uri
                             /\ \A w \in tasks' : w = v \/ w \in tasks \ {t}
    <2>1. CASE tasks' = tasks \ {t}  BY <2>1
    <2>2. CASE \E u \in Task : u.svc = t.svc /\ u.uri = t.uri /\ Step(t, u)
      <3>1. PICK u \in Task : u.svc = t.svc /\ u.uri = t.uri /\ Step(t, u)  BY <2>2
      <3>2. tasks' = (tasks \ {t}) \cup {u}  BY <3>1 DEF Step
      <3>. QED  BY <3>1, <3>2
    <2>. QED  BY <2>1, <2>2
  <1>4. Current'
    <2>1. \A v \in tasks' : \E w \in tasks : v.svc = w.svc /\ v.uri = w.uri  BY <1>3
    <2>2. \A v \in tasks' : v.svc \in raced \/ At(v.svc, v.uri)'
      BY <1>2, <2>1, Typed DEF LwInv, Current
    <2>. QED  BY <2>2 DEF LwInv, Current, At
  <1>5. Single'
    <2>1. \A v, w \in tasks' : v.svc = w.svc /\ v.svc \notin raced => v = w
      BY <1>3 DEF LwInv, Single
    <2>2. \A v \in tasks' : \E w \in tasks : v.svc = w.svc  BY <1>3
    <2>. QED  BY <2>1, <2>2 DEF LwInv, Single, OnTheWay
  <1>. QED  BY <1>1, <1>4, <1>5

\* A name is looked up, and another one tried when somebody has it.
LEMMA LookupNameInv ==
    ASSUME LwType, LwInv, NEW t \in tasks, LookupName(t)
    PROVE  LwInv'
  <1>. DEFINE found == {r.sock : r \in registered}
              holders == {r \in registered : r.name = t.name}
              u1 == [t EXCEPT !.stage = "claim", !.seen = found]
              u2 == [t EXCEPT !.name = t.suffix, !.suffix = @ + 1]
              u3 == [t EXCEPT !.stage = "claim"]
  <1>1. /\ t \in Task /\ t.stage = "lookup" /\ t.seen = {} /\ t \notin Claiming
        /\ UNCHANGED <<lan, mdns, results, printers, bridged, registered, sockets, raced>>
    BY DEF LookupName, LwType, LwInv, LookedUp, Claiming
  <1>2. found \in SUBSET Nat  BY DEF LwType, Entry
  <1>3. u1 \in Task /\ u1.stage = "claim" /\ u1.seen = found /\ u1.name = t.name
        /\ u1.svc = t.svc /\ u1.uri = t.uri
    BY <1>1, <1>2, Found
  <1>4. u2 \in Task /\ u2.stage = "lookup" /\ u2.seen = {} /\ u2.svc = t.svc /\ u2.uri = t.uri
    BY <1>1, Renamed
  <1>5. u3 \in Task /\ u3.stage = "claim" /\ u3.seen = {} /\ u3.svc = t.svc /\ u3.uri = t.uri
    BY <1>1 DEF Task
  <1>6. \/ holders = {} /\ Step(t, u1)
        \/ tasks' = tasks \ {t} \/ Step(t, u2) \/ Step(t, u3)
    BY DEF LookupName
  <1>7. (Agree /\ LastNews /\ Current /\ Single /\ Offered)'
    <2>. HIDE DEF u1, u2, u3
    <2>1. \/ tasks' = tasks \ {t}
          \/ \E u \in Task : u.svc = t.svc /\ u.uri = t.uri /\ Step(t, u)
      BY <1>3, <1>4, <1>5, <1>6
    <2>. QED  BY <1>1, <2>1, TaskMoves
  <1>8. \A v \in tasks' :
           \/ v \in tasks
           \/ v.stage # "register" /\ v.seen = {}
           \/ /\ v.stage = "claim" /\ v.seen = found /\ v.name = t.name /\ holders = {}
    <2>. HIDE DEF u1, u2, u3, found, holders
    <2>. QED  BY <1>3, <1>4, <1>5, <1>6 DEF Step
  <1>9. Claiming' \subseteq Claiming  BY <1>8 DEF Claiming
  <1>. HIDE DEF u1, u2, u3
  <1>10. Numbered'
    <2>1. \A n \in found : n <= sockets  BY DEF LwInv, Numbered
    <2>2. ASSUME NEW v \in tasks'  PROVE \A n \in v.seen : n <= sockets
      BY <1>8, <2>1 DEF LwInv, Numbered
    <2>. QED  BY <1>1, <1>9, <2>2 DEF LwInv, Numbered
  <1>11. OwnSocket'
    <2>1. \A w \in Claiming : w.sock \notin found  BY DEF LwInv, OwnSocket
    <2>2. ASSUME NEW w \in Claiming, NEW v \in tasks'  PROVE w.sock \notin v.seen
      BY <1>8, <2>1 DEF LwInv, OwnSocket
    <2>. QED  BY <1>1, <1>9, <2>2 DEF LwInv, OwnSocket
  <1>12. LookedUp'
    BY <1>1, <1>8, <1>4, <1>6 DEF LwInv, LookedUp
  <1>. QED  BY <1>7, <1>10, <1>11, <1>12 DEF LwInv

\* A socket is opened: no one has found it before.
LEMMA ClaimNameInv ==
    ASSUME LwType, LwInv, NEW t \in tasks, ClaimName(t)
    PROVE  LwInv'
  <1>. DEFINE n == sockets + 1
              u == [t EXCEPT !.stage = "register", !.sock = n]
  <1>1. /\ t \in Task /\ t.stage = "claim" /\ t.name \in Nat
        /\ UNCHANGED <<lan, mdns, results, printers, registered, raced>>
    BY DEF ClaimName, LwType, Task
  <1>2. sockets' = n /\ n \in Nat /\ sockets \in Nat /\ bridged' = bridged \cup {<<t.name, n>>} /\ Step(t, u)
    BY DEF ClaimName, LwType
  <1>3. /\ u \in Task /\ u.stage = "register" /\ u.sock = n
        /\ u.name = t.name /\ u.seen = t.seen /\ u.svc = t.svc /\ u.uri = t.uri
    BY <1>1, <1>2, Claimed
  <1>. HIDE DEF u
  <1>4. (Agree /\ LastNews /\ Current /\ Single /\ Offered)'
    BY <1>1, <1>2, <1>3, TaskMoves
  <1>5. tasks' = (tasks \ {t}) \cup {u} /\ t \notin Claiming /\ Claiming' = Claiming \cup {u}
    BY <1>1, <1>2, <1>3 DEF Step, Claiming
  <1>6. \A w \in Claiming : w \in tasks  BY DEF Claiming
  <1>7. Numbered'
    <2>1. \A k \in Nat : k <= sockets => k <= n  BY <1>2
    <2>2. \A x \in bridged : x[2] \in Nat  BY DEF LwType
    <2>3. \A w \in Claiming' : w.sock <= n
      BY <1>2, <1>3, <1>5, <1>6, <2>1, Typed DEF LwInv, Numbered
    <2>4. \A v \in tasks' \cup registered : \A k \in v.seen : k <= n
      <3>1. \A v \in tasks \cup registered : \A k \in v.seen : k <= n
        BY <2>1, Typed DEF LwInv, Numbered
      <3>. QED  BY <1>3, <1>5, <3>1
    <2>5. \A x \in bridged' : x[2] <= n
      BY <1>2, <2>1, <2>2 DEF LwInv, Numbered
    <2>. HIDE DEF n
    <2>. QED  BY <1>1, <1>2, <2>1, <2>3, <2>4, <2>5, Typed DEF LwInv, Numbered
  <1>8. OwnSocket'
    <2>1. \A k \in Nat : k <= sockets => k # n  BY <1>2
    <2>. HIDE DEF n
    <2>2. /\ \A w \in Claiming : w.sock # n
          /\ \A i \in 1..Len(results) : results[i].sock # n
          /\ \A s \in Services : printers[s] # None => printers[s].sock # n
          /\ \A r \in registered : r.sock # n
          /\ \A v \in tasks \cup registered : n \notin v.seen
      BY <2>1, <1>6, Typed DEF LwInv, Numbered
    <2>3. \A v \in tasks' \cup registered : \E w \in tasks \cup registered : v.seen = w.seen
      BY <1>3, <1>5
    <2>4. \A w \in Claiming' : \A v \in tasks' \cup registered : w.sock \notin v.seen
      BY <1>3, <1>5, <2>2, <2>3 DEF LwInv, OwnSocket
    <2>. QED  BY <1>1, <1>3, <1>5, <2>2, <2>4 DEF LwInv, OwnSocket
  <1>9. LookedUp'
    BY <1>1, <1>3, <1>5 DEF LwInv, LookedUp
  <1>. QED  BY <1>4, <1>7, <1>8, <1>9 DEF LwInv

\* A name is registered and its printer reported to the loop.
LEMMA RegisterNameInv ==
    ASSUME LwType, LwInv, NEW t \in tasks, RegisterName(t)
    PROVE  LwInv'
  <1>. DEFINE x == [name |-> t.name, sock |-> t.sock, svc |-> t.svc, uri |-> t.uri, seen |-> t.seen]
              y == [svc |-> t.svc, uri |-> t.uri, name |-> t.name, sock |-> t.sock]
              n == Len(results) + 1
  <1>1. /\ t.stage = "register" /\ registered' = registered \cup {x}
        /\ results' = Append(results, y) /\ tasks' = tasks \ {t}
        /\ UNCHANGED <<lan, mdns, printers, bridged, sockets, raced>>
    BY DEF RegisterName
  <1>2. t \in Claiming  BY <1>1 DEF Claiming
  <1>3. /\ n \in 1..Len(results') /\ results'[n] = y /\ n \notin 1..Len(results)
        /\ \A i \in 1..Len(results) : i \in 1..Len(results') /\ results'[i] = results[i]
        /\ \A i \in 1..Len(results') : i # n => i \in 1..Len(results)
    BY <1>1 DEF LwType
  <1>4. /\ x.name = t.name /\ x.sock = t.sock /\ x.svc = t.svc /\ x.uri = t.uri /\ x.seen = t.seen
        /\ y.svc = t.svc /\ y.uri = t.uri /\ y.sock = t.sock
    OBVIOUS
  <1>5. Claiming' \subseteq Claiming \ {t}  BY <1>1 DEF Claiming
  <1>6. t \in Task /\ t.svc \in Services /\ t.uri \in Places  BY Typed
  <1>. HIDE DEF x, y, n
  <1>7. Numbered'
    <2>1. t.sock <= sockets /\ \A k \in t.seen : k <= sockets  BY <1>2 DEF LwInv, Numbered
    <2>2. \A i \in 1..Len(results') : results'[i].sock <= sockets
      BY <1>3, <1>4, <2>1 DEF LwInv, Numbered
    <2>. QED  BY <1>1, <1>4, <1>5, <2>1, <2>2 DEF LwInv, Numbered
  <1>8. OwnSocket'
    <2>1. ASSUME NEW w \in Claiming'
          PROVE  /\ \A u \in Claiming' : u.sock = w.sock => u = w
                 /\ \A i \in 1..Len(results') : results'[i].sock # w.sock
                 /\ \A s \in Services : printers[s] # None => printers[s].sock # w.sock
                 /\ \A r \in registered' : r.sock # w.sock
                 /\ \A u \in tasks' \cup registered' : w.sock \notin u.seen
      <3>1. w \in Claiming /\ t.sock # w.sock  BY <1>2, <1>5 DEF LwInv, OwnSocket
      <3>2. \A i \in 1..Len(results') : results'[i].sock # w.sock
        BY <1>3, <1>4, <3>1 DEF LwInv, OwnSocket
      <3>. QED  BY <1>1, <1>4, <1>5, <3>1, <3>2 DEF LwInv, OwnSocket
    <2>. QED  BY <1>1, <2>1 DEF OwnSocket
  <1>9. Agree'
    <2>1. ASSUME NEW r \in registered', NEW i \in 1..Len(results'), results'[i].sock = r.sock
          PROVE  results'[i].svc = r.svc /\ results'[i].uri = r.uri
      <3>1. CASE r = x /\ i = n  BY <1>3, <1>4, <3>1
      <3>2. CASE r = x /\ i # n  BY <1>2, <1>3, <1>4, <2>1, <3>2 DEF LwInv, OwnSocket
      <3>3. CASE r # x /\ i = n  BY <1>1, <1>2, <1>3, <1>4, <2>1, <3>3 DEF LwInv, OwnSocket
      <3>4. CASE r # x /\ i # n  BY <1>1, <1>3, <2>1, <3>4 DEF LwInv, Agree
      <3>. QED  BY <3>1, <3>2, <3>3, <3>4
    <2>2. ASSUME NEW r \in registered', NEW s \in Services, printers[s] # None, printers[s].sock = r.sock
          PROVE  s = r.svc /\ printers[s].uri = r.uri
      <3>1. r # x  BY <1>2, <1>4, <2>2 DEF LwInv, OwnSocket
      <3>. QED  BY <1>1, <2>2, <3>1 DEF LwInv, Agree
    <2>. QED  BY <1>1, <2>1, <2>2 DEF Agree
  <1>10. LastNews' /\ \A s \in Services : \A u \in Places : At(s, u) => At(s, u)'
    BY <1>1 DEF LwInv, LastNews, At
  <1>11. Current'
    <2>1. \A v \in tasks' : v.svc \in raced \/ At(v.svc, v.uri)'
      BY <1>1, <1>10, Typed DEF LwInv, Current
    <2>2. ASSUME NEW i \in 1..Len(results')
          PROVE  (results[i].svc \in raced \/ At(results[i].svc, results[i].uri))'
      <3>1. CASE i = n
        <4>1. t.svc \in raced \/ At(t.svc, t.uri)  BY DEF LwInv, Current
        <4>. QED  BY <1>1, <1>3, <1>4, <3>1, <4>1 DEF At
      <3>2. CASE i # n
        <4>1. i \in 1..Len(results) /\ results'[i] = results[i]  BY <1>3, <3>2
        <4>2. results[i].svc \in raced \/ At(results[i].svc, results[i].uri)  BY <4>1 DEF LwInv, Current
        <4>. QED  BY <1>1, <4>1, <4>2 DEF At
      <3>. QED  BY <3>1, <3>2
    <2>3. \A s \in Services : printers[s] # None => s \in raced \/ At(s, printers[s].uri)
      BY DEF LwInv, Current
    <2>. QED  BY <1>1, <2>1, <2>2, <2>3 DEF Current, At
  <1>12. Single'
    <2>1. \A v, w \in tasks' : v.svc = w.svc /\ v.svc \notin raced => v = w
      BY <1>1 DEF LwInv, Single
    <2>2. ASSUME NEW i \in 1..Len(results'), NEW j \in 1..Len(results'),
                 results'[i].svc = results'[j].svc, results'[i].svc \notin raced
          PROVE  i = j
      <3>1. \A k \in 1..Len(results) : results[k].svc # t.svc \/ t.svc \in raced
        BY DEF LwInv, Single
      <3>2. CASE i = n \/ j = n  BY <1>3, <1>4, <2>2, <3>1, <3>2
      <3>3. CASE i # n /\ j # n  BY <1>3, <2>2, <3>3 DEF LwInv, Single
      <3>. QED  BY <3>2, <3>3
    <2>3. \A v \in tasks', i \in 1..Len(results') : v.svc = results'[i].svc => v.svc \in raced
      BY <1>1, <1>3, <1>4 DEF LwInv, Single
    <2>4. \A s \in Services : OnTheWay(s)' => OnTheWay(s)
      BY <1>1, <1>3, <1>4 DEF OnTheWay
    <2>. QED  BY <1>1, <2>1, <2>2, <2>3, <2>4 DEF LwInv, Single
  <1>13. LookedUp'
    <2>1. \A v \in tasks' : v # t /\ t.sock \notin v.seen  BY <1>1, <1>2 DEF LwInv, OwnSocket
    <2>. QED  BY <1>1, <1>4, <2>1 DEF LwInv, LookedUp
  <1>14. NamesDistinct'
    BY <1>1, <1>2, <1>4 DEF LwInv, Offered, NamesDistinct, LookedUp, OwnSocket
  <1>15. Known'
    <2>1. ASSUME NEW r \in registered', r.svc \notin raced
          PROVE  /\ \/ printers[r.svc] # None /\ printers[r.svc].sock = r.sock
                    \/ \E i \in 1..Len(results') : results'[i].sock = r.sock
                 /\ At(r.svc, r.uri)
      <3>1. CASE r = x  BY <1>3, <1>4, <2>1, <3>1 DEF LwInv, Current
      <3>2. CASE r \in registered  BY <1>3, <2>1, <3>2 DEF LwInv, Offered, Known, At
      <3>. QED  BY <1>1, <3>1, <3>2
    <2>. QED  BY <1>1, <2>1 DEF Known, At
  <1>. QED  BY <1>7, <1>8, <1>9, <1>10, <1>11, <1>12, <1>13, <1>14, <1>15 DEF LwInv, Offered

\* Nothing of LwBridge's changed.
LEMMA LwStutters == LwType /\ LwInv /\ UNCHANGED lwVars => (LwType /\ LwInv)'
  BY DEF lwVars, LwType, LwInv, Numbered, OwnSocket, Claiming, Agree, LastNews, Current, At, Single, OnTheWay,
         LookedUp, Offered, Known, NamesDistinct

LEMMA LwKept ==
    ASSUME LwType, LwInv, LwNext
    PROVE  (LwType /\ LwInv)'
  <1>1. LwType'  BY NextType
  <1>2. ASSUME NEW s \in Services, NEW u \in Uris, Appear(s, u)  PROVE LwInv'
    <2>. DEFINE e == [is |-> "resolved", svc |-> s, uri |-> u]
    <2>1. e \in Event /\ e.svc = s /\ e.uri = u  BY DEF Event, Places
    <2>2. /\ lan' = [lan EXCEPT ![s] = u] /\ mdns' = Append(mdns, e)
          /\ UNCHANGED <<tasks, results, printers, bridged, registered, sockets, raced>>
      BY <1>2 DEF Appear
    <2>. HIDE DEF e
    <2>. QED  BY <2>1, <2>2, LanInv
  <1>3. ASSUME NEW s \in Services, Disappear(s)  PROVE LwInv'
    <2>. DEFINE e == [is |-> "removed", svc |-> s, uri |-> Down]
    <2>1. e \in Event /\ e.svc = s /\ e.uri = Down  BY DEF Event, Places
    <2>2. /\ lan' = [lan EXCEPT ![s] = Down] /\ mdns' = Append(mdns, e)
          /\ UNCHANGED <<tasks, results, printers, bridged, registered, sockets, raced>>
      BY <1>3 DEF Disappear
    <2>. HIDE DEF e
    <2>. QED  BY <2>1, <2>2, LanInv
  <1>. QED
    BY <1>1, <1>2, <1>3, ResolvedInv, RemovedInv, TakeResultInv, LookupNameInv, ClaimNameInv, RegisterNameInv
    DEF LwNext

\* What the bridge offers over AppleTalk is what NBP answers for it: every registration stands for a
\* printer the bridge has, at the place where the service is, under a name it found free.
THEOREM OffersWhatItHas == LwSpec => []Offered
  <1>1. LwInit => LwType /\ LwInv  BY InitType, InitInv
  <1>2. LwType /\ LwInv /\ [LwNext]_lwVars => (LwType /\ LwInv)'  BY LwKept, LwStutters
  <1>3. LwInv => Offered  BY DEF LwInv
  <1>. QED  BY <1>1, <1>2, <1>3, PTL DEF LwSpec

-----------------------------------------------------------------------------
(* LwBridge's steps seen from IppBridge *)

\* What is no device's and dead is not registered.
LEMMA NotReexported == LwType /\ NeverOurs => NoReexport
  <1>. SUFFICES ASSUME LwType, NeverOurs, NEW x \in exported, x \in Names  PROVE FALSE
    BY DEF NoReexport
  <1>1. x \in Nat \X Nat  BY DEF LwType, Names, Entry
  <1>2. x \notin Devices  BY <1>1, IppBridgeAssumption
  <1>. QED  BY <1>2 DEF NeverOurs, Dead

\* A printer is forgotten: its name is dead, and so are those that were.
LEMMA ForgetOurs ==
    ASSUME LwType, LwInv, IppInv, IppType, NEW s \in Services, RemovePrinter(s),
           Claiming' = Claiming, UNCHANGED <<sockets, ippVars>>
    PROVE  (Bridged /\ NeverOurs)'
  <1>1. /\ registered' \subseteq registered /\ bridged' \subseteq bridged
        /\ \A r \in registered : r \notin registered' => printers[s] # None /\ r.sock = printers[s].sock
        /\ printers[s] # None => \A r \in registered' : r.sock # printers[s].sock
        /\ \A x \in bridged \ bridged' : printers[s] # None /\ x = <<printers[s].name, printers[s].sock>>
    BY Removes
  <1>2. Names' \subseteq Names  BY <1>1 DEF Names
  <1>3. \A x : Dead(x) => Dead(x)'
    BY <1>2 DEF Dead
  <1>4. ASSUME NEW x \in bridged, x \notin bridged'  PROVE Dead(x)'
    <2>1. printers[s] # None /\ x = <<printers[s].name, printers[s].sock>>  BY <1>1, <1>4
    <2>2. x \in Nat \X Nat /\ x[2] = printers[s].sock  BY <2>1 DEF LwType
    <2>3. x[2] <= sockets  BY <2>1, <2>2 DEF LwInv, Numbered
    <2>4. \A t \in Claiming : t.sock # x[2]  BY <2>1, <2>2 DEF LwInv, OwnSocket
    <2>5. x \notin Names'  BY <1>1, <2>1 DEF Names
    <2>. QED  BY <2>2, <2>3, <2>4, <2>5 DEF Dead
  <1>5. Bridged'
    <2>1. ASSUME NEW r \in registered'  PROVE <<r.name, r.sock>> \in bridged'
      <3>1. <<r.name, r.sock>> \in bridged  BY <1>1 DEF IppInv, Bridged, Names
      <3>. QED  BY <1>1, <3>1
    <2>2. ASSUME NEW t \in Claiming  PROVE <<t.name, t.sock>> \in bridged'
      <3>1. <<t.name, t.sock>> \in bridged  BY DEF IppInv, Bridged
      <3>2. printers[s] # None => printers[s].sock # t.sock  BY DEF LwInv, OwnSocket
      <3>. QED  BY <1>1, <3>1, <3>2
    <2>. QED  BY <2>1, <2>2 DEF Bridged, Names
  <1>6. NeverOurs'
    <2>1. UNCHANGED <<round, exported>>  BY DEF ippVars
    <2>. QED  BY <1>3, <1>4, <2>1 DEF IppInv, NeverOurs
  <1>. QED  BY <1>5, <1>6

LEMMA OursKept ==
    ASSUME IppInv, Claiming' \subseteq Claiming, UNCHANGED <<registered, bridged, sockets, ippVars>>
    PROVE  (Bridged /\ NeverOurs)'
  <1>1. UNCHANGED <<round, exported>>  BY DEF ippVars
  <1>2. Names' = Names  BY DEF Names
  <1>3. \A x : Dead(x) => Dead(x)'  BY <1>2 DEF Dead
  <1>. QED  BY <1>1, <1>2, <1>3 DEF IppInv, Bridged, NeverOurs

LEMMA OursClaimed ==
    ASSUME LwType, LwInv, IppInv, NEW t \in tasks, ClaimName(t), UNCHANGED ippVars
    PROVE  (Bridged /\ NeverOurs)'
  <1>. DEFINE n == sockets + 1
              u == [t EXCEPT !.stage = "register", !.sock = n]
  <1>1. /\ sockets' = n /\ n \in Nat /\ sockets \in Nat /\ bridged' = bridged \cup {<<t.name, n>>}
        /\ tasks' = (tasks \ {t}) \cup {u} /\ UNCHANGED registered /\ t \in Task
    BY DEF ClaimName, LwType, Step
  <1>2. u.stage = "register" /\ u.sock = n /\ u.name = t.name  BY <1>1, Claimed
  <1>3. Claiming' \subseteq Claiming \cup {u}
    <2>. HIDE DEF u
    <2>. QED  BY <1>1 DEF Claiming
  <1>4. Names' = Names /\ UNCHANGED <<round, exported>>
    <2>. HIDE DEF u
    <2>. QED  BY <1>1 DEF Names, ippVars
  <1>5. ASSUME NEW x, Dead(x)  PROVE Dead(x)'
    <2>1. x \in Nat \X Nat /\ x[2] <= n /\ x[2] # n  BY <1>1, <1>5 DEF Dead
    <2>. HIDE DEF u, n
    <2>. QED  BY <1>1, <1>2, <1>3, <1>4, <1>5, <2>1 DEF Dead
  <1>. HIDE DEF u, n
  <1>6. Bridged'  BY <1>1, <1>2, <1>3, <1>4 DEF IppInv, Bridged
  <1>7. NeverOurs'  BY <1>1, <1>4, <1>5 DEF IppInv, NeverOurs
  <1>. QED  BY <1>6, <1>7

LEMMA OursRegistered ==
    ASSUME LwType, LwInv, IppInv, NEW t \in tasks, RegisterName(t), UNCHANGED ippVars
    PROVE  (Bridged /\ NeverOurs)'
  <1>. DEFINE x == [name |-> t.name, sock |-> t.sock, svc |-> t.svc, uri |-> t.uri, seen |-> t.seen]
  <1>1. /\ t.stage = "register" /\ registered' = registered \cup {x} /\ tasks' = tasks \ {t}
        /\ UNCHANGED <<bridged, sockets, round, exported>>
    BY DEF RegisterName, ippVars
  <1>2. t \in Claiming /\ Claiming' \subseteq Claiming  BY <1>1 DEF Claiming
  <1>3. Names' = Names \cup {<<t.name, t.sock>>}
    <2>1. x.name = t.name /\ x.sock = t.sock  OBVIOUS
    <2>. HIDE DEF x
    <2>2. \A r \in registered' : r \in registered \/ r = x  BY <1>1
    <2>3. Names' \subseteq Names \cup {<<t.name, t.sock>>}  BY <2>1, <2>2 DEF Names
    <2>4. x \in registered' /\ registered \subseteq registered'  BY <1>1
    <2>5. Names \cup {<<t.name, t.sock>>} \subseteq Names'  BY <2>1, <2>4 DEF Names
    <2>. QED  BY <2>3, <2>5
  <1>4. ASSUME NEW y, Dead(y)  PROVE Dead(y)'
    BY <1>1, <1>2, <1>3, <1>4 DEF Dead
  <1>5. Bridged'  BY <1>1, <1>2, <1>3 DEF IppInv, Bridged
  <1>6. NeverOurs'  BY <1>1, <1>4 DEF IppInv, NeverOurs
  <1>. QED  BY <1>5, <1>6

\* Whatever LwBridge does, its names stay known to the discovery or dead.
LEMMA OursNext ==
    ASSUME LwType, LwInv, IppType, IppInv, LwNext, UNCHANGED ippVars
    PROVE  (Bridged /\ NeverOurs)'
  <1>1. ASSUME NEW s \in Services, Disappear(s) \/ \E u \in Uris : Appear(s, u)
        PROVE  (Bridged /\ NeverOurs)'
    <2>1. UNCHANGED <<tasks, registered, bridged, sockets>>  BY <1>1 DEF Disappear, Appear
    <2>. QED  BY <2>1, OursKept DEF Claiming
  <1>2. ASSUME ServiceResolved  PROVE (Bridged /\ NeverOurs)'
    <2>. DEFINE e == Head(mdns)
    <2>1. e.svc \in Services /\ UNCHANGED sockets
      <3>1. e \in Event  BY <1>2 DEF ServiceResolved, LwType
      <3>. QED  BY <1>2, <3>1 DEF ServiceResolved, Event
    <2>2. \/ UNCHANGED <<bridged, registered, tasks>>
          \/ /\ RemovePrinter(e.svc)
             /\ tasks' = tasks \/ \E n \in Nat : tasks' = tasks \cup {Spawned(e, n)}
      BY <1>2, Resolves
    <2>3. Claiming' = Claiming  BY <2>2 DEF Claiming, Spawned
    <2>. HIDE DEF e
    <2>4. CASE UNCHANGED <<bridged, registered>>  BY <2>1, <2>3, <2>4, OursKept
    <2>5. CASE RemovePrinter(e.svc)  BY <2>1, <2>3, <2>5, ForgetOurs
    <2>. QED  BY <2>2, <2>4, <2>5
  <1>3. ASSUME ServiceRemoved  PROVE (Bridged /\ NeverOurs)'
    <2>. DEFINE e == Head(mdns)
    <2>1. e.svc \in Services /\ UNCHANGED <<tasks, sockets>> /\ RemovePrinter(e.svc)
      <3>1. e \in Event  BY <1>3 DEF ServiceRemoved, LwType
      <3>. QED  BY <1>3, <3>1 DEF ServiceRemoved, Event
    <2>. HIDE DEF e
    <2>. QED  BY <2>1, ForgetOurs DEF Claiming
  <1>4. ASSUME TakeResult  PROVE (Bridged /\ NeverOurs)'
    <2>1. UNCHANGED <<tasks, registered, bridged, sockets>>  BY <1>4 DEF TakeResult
    <2>. QED  BY <2>1, OursKept DEF Claiming
  <1>5. ASSUME NEW t \in tasks, LookupName(t)  PROVE (Bridged /\ NeverOurs)'
    <2>. DEFINE u1 == [t EXCEPT !.stage = "claim", !.seen = {r.sock : r \in registered}]
                u2 == [t EXCEPT !.name = t.suffix, !.suffix = @ + 1]
                u3 == [t EXCEPT !.stage = "claim"]
    <2>1. UNCHANGED <<registered, bridged, sockets>> /\ t \in Task /\ t.stage = "lookup"
      BY <1>5 DEF LookupName, LwType
    <2>2. tasks' = tasks \ {t} \/ Step(t, u1) \/ Step(t, u2) \/ Step(t, u3)
      BY <1>5 DEF LookupName
    <2>3. u1.stage # "register" /\ u2.stage # "register" /\ u3.stage # "register"
      <3>1. {r.sock : r \in registered} \in SUBSET Nat  BY DEF LwType, Entry
      <3>2. u1.stage = "claim"  BY <2>1, <3>1, Found
      <3>3. u2.stage = "lookup"  BY <2>1, Renamed
      <3>4. u3.stage = "claim"  BY <2>1 DEF Task
      <3>. QED  BY <3>2, <3>3, <3>4
    <2>4. Claiming' \subseteq Claiming
      <3>. HIDE DEF u1, u2, u3
      <3>. QED  BY <2>2, <2>3 DEF Step, Claiming
    <2>. QED  BY <2>1, <2>4, OursKept
  <1>. QED  BY <1>1, <1>2, <1>3, <1>4, <1>5, OursClaimed, OursRegistered DEF LwNext

-----------------------------------------------------------------------------
(* IppBridge *)

States == {"none", "posted", "rasterizing", "waiting", "printing", "completed", "aborted"}
InFlight == {"rasterizing", "waiting", "printing"}

LEMMA InitIpp == LwInit /\ IppInit => IppType /\ IppInv
  <1>. SUFFICES ASSUME LwInit, IppInit  PROVE IppType /\ IppInv  OBVIOUS
  <1>1. IppType  BY DEF IppInit, IppType, NoRound
  <1>2. \A d \in Devices : InFlightOn(d) = {}  BY DEF IppInit, InFlightOn
  <1>3. Counted  BY <1>2, FS_EmptySet DEF IppInit, Counted
  <1>4. Bridged /\ NeverOurs /\ Posted
    BY DEF LwInit, IppInit, NoRound, Bridged, Names, Claiming, NeverOurs, Posted
  <1>5. PublishedRight
    BY DEF IppInit, PublishedRight, HeldWhilePrinting, Protected, NoReexport
  <1>. QED  BY <1>1, <1>3, <1>4, <1>5 DEF IppInv

\* Steps that move no job and lose no printer that should be held.
LEMMA Unmoved ==
    ASSUME IppType, Counted, UNCHANGED <<job, active>>
    PROVE  Counted'
  <1>1. \A d \in Devices : InFlightOn(d)' = InFlightOn(d)  BY DEF InFlightOn
  <1>. QED  BY <1>1 DEF Counted

\* NeverOurs by itself: the names and tasks of LwBridge stand still.
LEMMA StillDead == UNCHANGED lwVars => Names' = Names /\ bridged' = bridged /\ \A x : Dead(x)' <=> Dead(x)
  BY DEF lwVars, Names, Dead, Claiming

LEMMA DiscoveryInv ==
    ASSUME LwType, IppType, IppInv, Discovery, UNCHANGED lwVars
    PROVE  IppType' /\ (NeverOurs /\ Counted /\ Posted /\ HeldWhilePrinting)'
  <1>. USE DEF IppInv
  <1>1. CASE LookUp
    <2>1. UNCHANGED <<exported, job, active, grace, unguarded>>  BY <1>1 DEF LookUp
    <2>2. \/ UNCHANGED round
          \/ \E heard \in SUBSET Devices :
                round' = [stage |-> "looked", found |-> heard \cup Names, todo |-> {}]
      BY <1>1 DEF LookUp
    <2>3. Names \subseteq Nat \X Nat  BY DEF LwType, Names, Entry
    <2>4. IppType'  BY <2>1, <2>2, <2>3 DEF IppType, Entity
    <2>5. NeverOurs'  BY <2>1, <2>2, StillDead DEF NeverOurs, Bridged
    <2>. QED  BY <2>1, <2>4, <2>5, Unmoved DEF Posted, PublishedRight, HeldWhilePrinting, Protected
  <1>2. CASE Prune
    <2>. DEFINE found == round.found \ bridged
                kept == {p \in exported : p \in found \/ Protected(p)}
                posted == {job[j].on : j \in {i \in Jobs : job[i].stage = "posted"}}
    <2>1. /\ exported' = kept /\ unguarded' = unguarded \cup (posted \ kept)
          /\ round' = [round EXCEPT !.stage = "register", !.todo = found \ kept]
          /\ UNCHANGED <<job, active, grace>>
      BY <1>2 DEF Prune
    <2>2. round'.stage = "register" /\ round'.todo = found \ kept /\ round'.found = round.found
      <3>. HIDE DEF found, kept
      <3>. DEFINE v == [round EXCEPT !.stage = "register"]
      <3>1. v \in [stage : {"idle", "looked", "register"}, found : SUBSET Entity, todo : SUBSET Entity]
            /\ v.stage = "register" /\ v.found = round.found
        BY DEF IppType
      <3>2. round' = [v EXCEPT !.todo = found \ kept]  BY <2>1
      <3>. HIDE DEF v
      <3>. QED  BY <3>1, <3>2
    <2>3. round' \in [stage : {"idle", "looked", "register"}, found : SUBSET Entity, todo : SUBSET Entity]
      <3>1. found \ kept \in SUBSET Entity  BY DEF IppType
      <3>. HIDE DEF found, kept
      <3>. DEFINE v == [round EXCEPT !.stage = "register"]
      <3>2. v \in [stage : {"idle", "looked", "register"}, found : SUBSET Entity, todo : SUBSET Entity]
        BY DEF IppType
      <3>3. round' = [v EXCEPT !.todo = found \ kept]  BY <2>1
      <3>. HIDE DEF v
      <3>. QED  BY <3>1, <3>2, <3>3
    <2>4. IppType'  BY <2>1, <2>3 DEF IppType
    <2>5. NeverOurs'  BY <2>1, <2>2, StillDead DEF NeverOurs
    <2>6. Posted'  BY <2>1 DEF Posted
    <2>7. HeldWhilePrinting'
      <3>1. \A d \in Devices : Protected(d)' = Protected(d)  BY <2>1 DEF Protected
      <3>. QED  BY <2>1, <3>1 DEF PublishedRight, HeldWhilePrinting
    <2>. QED  BY <2>1, <2>4, <2>5, <2>6, <2>7, Unmoved
  <1>3. CASE Publish
    <2>1. PICK p \in round.todo :
            /\ round' = [round EXCEPT !.todo = @ \ {p}]
            /\ \/ exported' = exported \cup {p} /\ unguarded' = unguarded \ {p}
               \/ UNCHANGED <<exported, unguarded>>
      BY <1>3 DEF Publish
    <2>2. UNCHANGED <<job, active, grace>>  BY <1>3 DEF Publish
    <2>3. /\ round' \in [stage : {"idle", "looked", "register"}, found : SUBSET Entity, todo : SUBSET Entity]
          /\ round'.found = round.found /\ round'.todo \subseteq round.todo /\ p \in Entity
      BY <2>1 DEF IppType
    <2>4. IppType'  BY <2>1, <2>2, <2>3 DEF IppType
    <2>5. NeverOurs'  BY <2>1, <2>3, StillDead DEF NeverOurs
    <2>6. Posted'  BY <2>1, <2>2 DEF Posted
    <2>7. HeldWhilePrinting'  BY <2>1, <2>2 DEF PublishedRight, HeldWhilePrinting, Protected
    <2>. QED  BY <2>2, <2>4, <2>5, <2>6, <2>7, Unmoved
  <1>4. CASE RoundEnds
    <2>1. round' = NoRound /\ UNCHANGED <<exported, job, active, grace, unguarded>>  BY <1>4 DEF RoundEnds
    <2>2. IppType'  BY <2>1 DEF IppType, NoRound
    <2>3. NeverOurs'  BY <2>1, StillDead DEF NeverOurs, NoRound
    <2>. QED  BY <2>1, <2>2, <2>3, Unmoved DEF Posted, PublishedRight, HeldWhilePrinting, Protected
  <1>. QED  BY <1>1, <1>2, <1>3, <1>4 DEF Discovery

\* A job's state changes, and nothing else of any job.
LEMMA Moves ==
    ASSUME IppType, NEW j \in Jobs, NEW state \in States \ {"none"}, job[j].stage # "none",
           job' = [job EXCEPT ![j].stage = state]
    PROVE  /\ job[j].on \in Devices
           /\ job' \in [Jobs -> [stage : States, on : Devices \cup {None}]]
           /\ job'[j].stage = state /\ job'[j].on = job[j].on
           /\ \A i \in Jobs : i # j => job'[i] = job[i]
           /\ \A i \in Jobs : job'[i].stage # "none" => job'[i].on \in Devices
  <1>1. job[j].on \in Devices /\ job \in [Jobs -> [stage : States, on : Devices \cup {None}]]
    BY DEF IppType, States
  <1>2. /\ job' \in [Jobs -> [stage : States, on : Devices \cup {None}]]
        /\ job'[j].stage = state /\ job'[j].on = job[j].on
        /\ \A i \in Jobs : i # j => job'[i] = job[i]
    BY <1>1
  <1>3. \A i \in Jobs : job'[i].stage # "none" => job'[i].on \in Devices
    BY <1>1, <1>2 DEF IppType
  <1>. QED  BY <1>1, <1>2, <1>3

\* Of the jobs in flight at most this one comes or goes.
LEMMA OneMoves ==
    ASSUME IppType, NEW j \in Jobs,
           \A i \in Jobs : i # j => job'[i] = job[i], job'[j].on = job[j].on
    PROVE  /\ \A d \in Devices : IsFiniteSet(InFlightOn(d))
           /\ \A d \in Devices : d # job[j].on => InFlightOn(d)' = InFlightOn(d)
           /\ \A d \in Devices : d = job[j].on =>
                 InFlightOn(d)' = IF job'[j].stage \in InFlight THEN InFlightOn(d) \cup {j}
                                                            ELSE InFlightOn(d) \ {j}
           /\ \A d \in Devices : d = job[j].on => (j \in InFlightOn(d) <=> job[j].stage \in InFlight)
  <1>1. \A d \in Devices : InFlightOn(d) \subseteq Jobs  BY DEF InFlightOn
  <1>2. \A d \in Devices : IsFiniteSet(InFlightOn(d))
    BY <1>1, FS_Subset, IppBridgeAssumption
  <1>3. \A d \in Devices : d # job[j].on => InFlightOn(d)' = InFlightOn(d)
    BY DEF InFlightOn
  <1>4. \A d \in Devices : d = job[j].on => (j \in InFlightOn(d) <=> job[j].stage \in InFlight)
    BY DEF InFlightOn, InFlight
  <1>5. ASSUME NEW d \in Devices, d = job[j].on
        PROVE  InFlightOn(d)' = IF job'[j].stage \in InFlight THEN InFlightOn(d) \cup {j}
                                                            ELSE InFlightOn(d) \ {j}
    <2>1. \A i \in Jobs : i # j => (i \in InFlightOn(d)' <=> i \in InFlightOn(d))
      BY DEF InFlightOn
    <2>2. j \in InFlightOn(d)' <=> job'[j].stage \in InFlight
      BY <1>5 DEF InFlightOn, InFlight
    <2>3. InFlightOn(d)' \subseteq Jobs /\ InFlightOn(d) \subseteq Jobs  BY DEF InFlightOn
    <2>. QED  BY <2>1, <2>2, <2>3
  <1>. QED  BY <1>2, <1>3, <1>4, <1>5

\* The task printing a job ends: one fewer in flight, and the printer in grace after the last.
LEMMA OverInv ==
    ASSUME IppType, Counted, Posted, HeldWhilePrinting, NEW j \in Jobs, job[j].stage \in InFlight,
           NEW state \in {"completed", "aborted"}, Over(j, state), UNCHANGED <<exported, round, unguarded>>
    PROVE  IppType' /\ (Counted /\ Posted /\ HeldWhilePrinting)'
  <1>. DEFINE d == job[j].on
  <1>1. /\ job' = [job EXCEPT ![j].stage = state]
        /\ active' = [active EXCEPT ![d] = @ - 1]
        /\ grace' = IF active[d] = 1 THEN grace \cup {d} ELSE grace
    BY DEF Over
  <1>2. /\ d \in Devices
        /\ job' \in [Jobs -> [stage : States, on : Devices \cup {None}]]
        /\ job'[j].stage = state /\ job'[j].on = job[j].on
        /\ \A i \in Jobs : i # j => job'[i] = job[i]
        /\ \A i \in Jobs : job'[i].stage # "none" => job'[i].on \in Devices
    BY <1>1, Moves DEF InFlight, States
  <1>3. /\ j \in InFlightOn(d) /\ InFlightOn(d)' = InFlightOn(d) \ {j}
        /\ \A q \in Devices : q # d => InFlightOn(q)' = InFlightOn(q)
        /\ IsFiniteSet(InFlightOn(d))
    BY <1>2, OneMoves DEF InFlight
  <1>4. /\ Cardinality(InFlightOn(d)') = Cardinality(InFlightOn(d)) - 1
        /\ Cardinality(InFlightOn(d)) \in Nat /\ Cardinality(InFlightOn(d)') \in Nat
    BY <1>3, FS_RemoveElement, FS_CardinalityType
  <1>5. active[d] \in Nat /\ active[d] - 1 \in Nat /\ active[d] > 0
    BY <1>2, <1>4 DEF Counted
  <1>6. /\ active' \in [Devices -> Nat] /\ active'[d] = active[d] - 1
        /\ \A q \in Devices : q # d => active'[q] = active[q]
    BY <1>1, <1>2, <1>5 DEF IppType
  <1>7. IppType'
    BY <1>1, <1>2, <1>6 DEF IppType, States
  <1>8. Counted'
    <2>1. ASSUME NEW q \in Devices  PROVE active'[q] = Cardinality(InFlightOn(q)')
      BY <1>2, <1>3, <1>4, <1>6 DEF Counted
    <2>. QED  BY <2>1 DEF Counted
  <1>9. Posted'
    BY <1>2 DEF Posted
  <1>10. HeldWhilePrinting'
    <2>1. Protected(d)  BY <1>2, <1>5 DEF Protected
    <2>2. \A q \in Devices : Protected(q)' => Protected(q)
      BY <1>1, <1>6, <2>1 DEF Protected
    <2>. QED  BY <2>2 DEF HeldWhilePrinting
  <1>. QED  BY <1>7, <1>8, <1>9, <1>10

LEMMA JobsInv ==
    ASSUME IppType, Counted, Posted, HeldWhilePrinting,
           \/ \E j \in Jobs, d \in Devices : PrintJob(j, d)
           \/ Tasks
           \/ \E d \in Devices : GraceEnds(d)
    PROVE  /\ IppType' /\ (Counted /\ Posted /\ HeldWhilePrinting)'
           /\ UNCHANGED <<exported, round>>
  <1>1. ASSUME NEW j \in Jobs, NEW d \in Devices, PrintJob(j, d)
        PROVE  IppType' /\ (Counted /\ Posted /\ HeldWhilePrinting)' /\ UNCHANGED <<exported, round>>
    <2>. DEFINE x == [stage |-> "posted", on |-> d]
    <2>1. /\ d \in exported /\ job[j].stage = "none" /\ job' = [job EXCEPT ![j] = x]
          /\ UNCHANGED <<exported, round, active, grace, unguarded>>
      BY <1>1 DEF PrintJob
    <2>2. job'[j] = x /\ \A i \in Jobs : i # j => job'[i] = job[i]
      BY <2>1 DEF IppType
    <2>3. IppType'  BY <2>1, <2>2 DEF IppType
    <2>4. \A q \in Devices : InFlightOn(q)' = InFlightOn(q)
      <3>1. \A i \in Jobs : i = j => job[i].stage = "none" /\ job'[i].stage = "posted"  BY <2>1, <2>2
      <3>. QED  BY <2>2, <3>1 DEF InFlightOn
    <2>5. Counted'  BY <2>1, <2>4 DEF Counted
    <2>6. Posted'  BY <2>1, <2>2 DEF Posted
    <2>7. HeldWhilePrinting'  BY <2>1 DEF HeldWhilePrinting, Protected
    <2>. QED  BY <2>1, <2>3, <2>5, <2>6, <2>7
  <1>2. ASSUME NEW j \in Jobs, BeginPrinting(j)
        PROVE  IppType' /\ (Counted /\ Posted /\ HeldWhilePrinting)' /\ UNCHANGED <<exported, round>>
    <2>. DEFINE d == job[j].on
    <2>1. /\ job[j].stage = "posted" /\ job' = [job EXCEPT ![j].stage = "rasterizing"]
          /\ active' = [active EXCEPT ![d] = @ + 1] /\ grace' = grace \ {d}
          /\ UNCHANGED <<exported, round, unguarded>>
      BY <1>2 DEF BeginPrinting
    <2>2. /\ d \in Devices
          /\ job' \in [Jobs -> [stage : States, on : Devices \cup {None}]]
          /\ job'[j].stage = "rasterizing" /\ job'[j].on = job[j].on
          /\ \A i \in Jobs : i # j => job'[i] = job[i]
          /\ \A i \in Jobs : job'[i].stage # "none" => job'[i].on \in Devices
      BY <2>1, Moves DEF States
    <2>3. /\ j \notin InFlightOn(d) /\ InFlightOn(d)' = InFlightOn(d) \cup {j}
          /\ \A q \in Devices : q # d => InFlightOn(q)' = InFlightOn(q)
          /\ IsFiniteSet(InFlightOn(d))
      BY <2>1, <2>2, OneMoves DEF InFlight
    <2>4. Cardinality(InFlightOn(d)') = Cardinality(InFlightOn(d)) + 1
      BY <2>3, FS_AddElement
    <2>5. /\ active' \in [Devices -> Nat] /\ active'[d] = active[d] + 1
          /\ \A q \in Devices : q # d => active'[q] = active[q]
      BY <2>1, <2>2 DEF IppType
    <2>6. IppType'  BY <2>1, <2>2, <2>5 DEF IppType, States
    <2>7. Counted'
      <3>1. ASSUME NEW q \in Devices  PROVE active'[q] = Cardinality(InFlightOn(q)')
        BY <2>2, <2>3, <2>4, <2>5 DEF Counted
      <3>. QED  BY <3>1 DEF Counted
    <2>8. Posted'  BY <2>1, <2>2 DEF Posted
    <2>9. HeldWhilePrinting'
      <3>1. d \in exported \cup unguarded  BY <2>1 DEF Posted
      <3>2. \A q \in Devices : q # d /\ Protected(q)' => Protected(q)  BY <2>1, <2>5 DEF Protected
      <3>. QED  BY <2>1, <3>1, <3>2 DEF HeldWhilePrinting
    <2>. QED  BY <2>1, <2>6, <2>7, <2>8, <2>9
  <1>3. ASSUME NEW j \in Jobs, NEW state \in InFlight, job[j].stage \in InFlight,
               job' = [job EXCEPT ![j].stage = state], UNCHANGED <<exported, round, active, grace, unguarded>>
        PROVE  IppType' /\ (Counted /\ Posted /\ HeldWhilePrinting)' /\ UNCHANGED <<exported, round>>
    <2>1. state \in States \ {"none"} /\ job[j].stage # "none"  BY <1>3 DEF InFlight, States
    <2>2. /\ job[j].on \in Devices
          /\ job' \in [Jobs -> [stage : States, on : Devices \cup {None}]]
          /\ job'[j].stage = state /\ job'[j].on = job[j].on
          /\ \A i \in Jobs : i # j => job'[i] = job[i]
          /\ \A i \in Jobs : job'[i].stage # "none" => job'[i].on \in Devices
      BY <1>3, <2>1, Moves
    <2>3. \A q \in Devices : InFlightOn(q)' = InFlightOn(q)
      BY <1>3, <2>2, OneMoves
    <2>4. IppType'  BY <1>3, <2>2 DEF IppType, States
    <2>5. Counted'  BY <1>3, <2>3 DEF Counted
    <2>6. Posted'  BY <1>3, <2>2 DEF Posted, InFlight
    <2>7. HeldWhilePrinting'  BY <1>3 DEF HeldWhilePrinting, Protected
    <2>. QED  BY <1>3, <2>4, <2>5, <2>6, <2>7
  <1>4. ASSUME NEW j \in Jobs, Rasterize(j) \/ StartPrinting(j) \/ PrintEnds(j)
        PROVE  IppType' /\ (Counted /\ Posted /\ HeldWhilePrinting)' /\ UNCHANGED <<exported, round>>
    <2>1. job[j].stage \in InFlight /\ UNCHANGED <<exported, round, unguarded>>
      BY <1>4 DEF Rasterize, StartPrinting, PrintEnds, InFlight
    <2>2. \/ \E state \in {"completed", "aborted"} : Over(j, state)
          \/ \E state \in InFlight : job' = [job EXCEPT ![j].stage = state] /\ UNCHANGED <<active, grace>>
      BY <1>4 DEF Rasterize, StartPrinting, PrintEnds, InFlight
    <2>. QED  BY <1>3, <2>1, <2>2, OverInv
  <1>5. ASSUME NEW d \in Devices, GraceEnds(d)
        PROVE  IppType' /\ (Counted /\ Posted /\ HeldWhilePrinting)' /\ UNCHANGED <<exported, round>>
    <2>1. grace' = grace \ {d} /\ UNCHANGED <<exported, round, job, active, unguarded>>
      BY <1>5 DEF GraceEnds
    <2>. QED  BY <2>1, Unmoved DEF IppType, Posted, HeldWhilePrinting, Protected
  <1>. QED  BY <1>1, <1>2, <1>4, <1>5 DEF Tasks

BridgesInv == LwType /\ LwInv /\ IppType /\ IppInv

LEMMA BridgesStep ==
    ASSUME BridgesInv, [BridgesNext]_<<lwVars, ippVars>>
    PROVE  BridgesInv'
  <1>. USE DEF BridgesInv
  <1>0. (LwType /\ NeverOurs => NoReexport)'  BY NotReexported, PTL
  <1>1. CASE LwNext /\ UNCHANGED ippVars
    <2>1. (LwType /\ LwInv)' /\ (Bridged /\ NeverOurs)'  BY <1>1, LwKept, OursNext
    <2>2. NoReexport'  BY <2>1, <1>0
    <2>3. (Counted /\ Posted /\ HeldWhilePrinting)'
      BY <1>1, Unmoved DEF ippVars, IppInv, Posted, PublishedRight, HeldWhilePrinting, Protected
    <2>4. IppType'  BY <1>1 DEF ippVars, IppType
    <2>. QED  BY <2>1, <2>2, <2>3, <2>4 DEF IppInv, PublishedRight
  <1>2. CASE IppNext /\ UNCHANGED lwVars
    <2>1. (LwType /\ LwInv)'  BY <1>2, LwStutters
    <2>2. Bridged'
      <3>1. Names' = Names /\ UNCHANGED <<bridged, tasks>>  BY <1>2, StillDead DEF lwVars
      <3>. QED  BY <3>1 DEF IppInv, Bridged, Claiming
    <2>3. CASE Discovery
      <3>1. IppType' /\ (NeverOurs /\ Counted /\ Posted /\ HeldWhilePrinting)'
        BY <1>2, <2>3, DiscoveryInv
      <3>2. NoReexport'  BY <2>1, <3>1, <1>0
      <3>. QED  BY <2>1, <2>2, <3>1, <3>2 DEF IppInv, PublishedRight
    <2>4. CASE \/ \E j \in Jobs, d \in Devices : PrintJob(j, d)
               \/ Tasks
               \/ \E d \in Devices : GraceEnds(d)
      <3>1. IppType' /\ (Counted /\ Posted /\ HeldWhilePrinting)' /\ UNCHANGED <<exported, round>>
        BY <2>4, JobsInv DEF IppInv, PublishedRight
      <3>2. NeverOurs'  BY <1>2, <3>1, StillDead DEF IppInv, NeverOurs
      <3>3. NoReexport'  BY <2>1, <3>2, <1>0
      <3>. QED  BY <2>1, <2>2, <3>1, <3>2, <3>3 DEF IppInv, PublishedRight
    <2>. QED  BY <1>2, <2>3, <2>4 DEF IppNext
  <1>3. CASE UNCHANGED <<lwVars, ippVars>>
    <2>1. (LwType /\ LwInv)'  BY <1>3, LwStutters
    <2>2. Names' = Names /\ bridged' = bridged /\ \A x : Dead(x)' <=> Dead(x)  BY <1>3, StillDead
    <2>3. UNCHANGED <<exported, round, job, active, grace, unguarded, tasks>>  BY <1>3 DEF ippVars, lwVars
    <2>4. (Bridged /\ NeverOurs)'  BY <2>2, <2>3 DEF IppInv, Bridged, NeverOurs, Claiming
    <2>5. (Counted /\ Posted /\ HeldWhilePrinting)' /\ IppType'
      BY <2>3, Unmoved DEF IppInv, Posted, PublishedRight, HeldWhilePrinting, Protected, IppType
    <2>6. NoReexport'  BY <2>1, <2>4, <1>0
    <2>. QED  BY <2>1, <2>4, <2>5, <2>6 DEF IppInv, PublishedRight
  <1>. QED  BY <1>1, <1>2, <1>3 DEF BridgesNext

\* What the GUI publishes over mDNS is no printer that it registered itself, nor does it forget
\* one with a job on it, or within the grace after its last, though it answers no lookup.
THEOREM PublishesWhatItShould == BridgesSpec => []PublishedRight
  <1>1. LwInit /\ IppInit => BridgesInv  BY InitType, InitInv, InitIpp DEF BridgesInv
  <1>2. BridgesInv /\ [BridgesNext]_<<lwVars, ippVars>> => BridgesInv'  BY BridgesStep
  <1>3. BridgesInv => PublishedRight  BY DEF BridgesInv, IppInv
  <1>. QED  BY <1>1, <1>2, <1>3, PTL DEF BridgesSpec

-----------------------------------------------------------------------------
(* Routing: the invariant *)

RouteOK(e) ==
    /\ e = [lo |-> e.lo, hi |-> e.hi, hop |-> e.hop, iface |-> e.iface, ttl |-> e.ttl]
    /\ e.lo \in Nat /\ e.hi \in Nat /\ e.lo <= e.hi

Apart(e, f) == e.hi < f.lo \/ f.hi < e.lo

\* No two routes of a table have a network in common.
RoutesOK(routes) ==
    /\ \A e \in routes : RouteOK(e)
    /\ \A e, f \in routes : e = f \/ Apart(e, f)

ZonesOK(zones) == \A z \in zones : z[2][1] \in Nat

TableOK(t) ==
    /\ t = [routes |-> t.routes, router |-> t.router, local |-> t.local, zones |-> t.zones]
    /\ RoutesOK(t.routes) /\ ZonesOK(t.zones)

\* What a client's lookups depend on: the networks of the live routes with the routers that lead
\* there, and the zones.
Hops(routes) == {<<e.lo, e.hi, e.hop>> : e \in Live(routes)}
Alike(s, t) == Hops(s.routes) = Hops(t.routes) /\ s.zones = t.zones

\* A table has ch already, as far as lookups go.
HasAlready(t, ch) ==
    \/ ch.op = "local"
    \/ ch.op = "insert" /\ <<ch.range[1], ch.range[2], ch.hop>> \in Hops(t.routes)

RoutersSet == \A r \in Routers : setup[r] \in [range : RangeType, zone : STRING]
UpType == \A c \in Clients : up[c] \in Seq(Changes)

\* A client's copy is never a router's, and nothing in it expires.
CopyOK(t) == TableOK(t) /\ t.router = NoRouter /\ \A e \in t.routes : e.ttl = "never"
SnapshotOK(s) ==
    /\ RoutesOK(s.routes) /\ ZonesOK(s.zones)
    /\ \A e \in s.routes : e.ttl = "never"

Tables ==
    /\ TableOK(host) /\ RoutersSet /\ UpType
    /\ \A c \in Clients : CopyOK(cache[c])
    /\ \A c \in Clients : stage[c] = "seeded" => SnapshotOK(seed[c])
    /\ seed = [c \in Clients |-> seed[c]] /\ cache = [c \in Clients |-> cache[c]]
    /\ up = [c \in Clients |-> up[c]] /\ stage = [c \in Clients |-> stage[c]]
    /\ setup = [r \in Routers |-> setup[r]]

\* While nothing is to be announced and the host's table did not change silently, a copy that no
\* reply overtook is like the host's table, or has sent a change that is going to be announced;
\* and so is the reply a client has yet to apply.
Copies ==
    ~due /\ ~missed => \A c \in Clients \ stale :
        /\ stage[c] = "running" => Alike(cache[c], host) \/ \E i \in DOMAIN up[c] : ~HasAlready(host, up[c][i])
        /\ stage[c] = "seeded" => Alike(seed[c], host)

RoutingInv == Tables /\ Copies

-----------------------------------------------------------------------------
(* Routing: the table's operators *)

LEMMA SearchFinds ==
    ASSUME NEW t, RoutesOK(t.routes), NEW net \in Nat
    PROVE  Lookup(t, net) = {e \in Live(t.routes) : e.lo <= net /\ net <= e.hi}
  <1> DEFINE Below == {e \in t.routes : e.lo <= net}
             Nearest == {e \in Below : \A f \in Below : f.lo <= e.lo}
  <1>1. ASSUME NEW e \in t.routes, e.lo <= net, net <= e.hi
        PROVE  e \in Nearest
    <2>1. SUFFICES ASSUME NEW f \in t.routes, f.lo <= net
                   PROVE  f.lo <= e.lo
      BY <1>1
    <2>2. e.lo \in Nat /\ e.hi \in Nat /\ f.lo \in Nat /\ f.hi \in Nat  BY DEF RoutesOK, RouteOK
    <2>3. e = f \/ e.hi < f.lo \/ f.hi < e.lo  BY DEF RoutesOK, Apart
    <2>4. f.lo <= f.hi  BY DEF RoutesOK, RouteOK
    <2>. QED  BY <1>1, <2>1, <2>2, <2>3, <2>4
  <1>. QED  BY <1>1 DEF Lookup, Live

\* Lookups see the hops only.
LEMMA HopsFound ==
    ASSUME NEW t, RoutesOK(t.routes), NEW net \in Nat
    PROVE  {e.hop : e \in Lookup(t, net)} = {h[3] : h \in {x \in Hops(t.routes) : x[1] <= net /\ net <= x[2]}}
  <1> DEFINE H == {x \in Hops(t.routes) : x[1] <= net /\ net <= x[2]}
  <1>1. Lookup(t, net) = {e \in Live(t.routes) : e.lo <= net /\ net <= e.hi}  BY SearchFinds
  <1>2. ASSUME NEW e \in Lookup(t, net)
        PROVE  \E x \in H : e.hop = x[3]
    <2>1. <<e.lo, e.hi, e.hop>> \in H  BY <1>1, <1>2 DEF Hops
    <2>. QED  BY <2>1
  <1>3. ASSUME NEW x \in H
        PROVE  \E e \in Lookup(t, net) : x[3] = e.hop
    <2>1. PICK e \in Live(t.routes) : x = <<e.lo, e.hi, e.hop>>  BY DEF Hops
    <2>. QED  BY <1>1, <1>3, <2>1
  <1>. QED  BY <1>2, <1>3

LEMMA InsertKeeps ==
    ASSUME NEW t, TableOK(t), NEW range \in RangeType, NEW hop, NEW iface, NEW ttl
    PROVE  TableOK(Insert(t, range, hop, iface, ttl))
  <1> DEFINE n == Route(range, hop, iface, ttl)
             kept == {e \in t.routes : Clear(e, range)}
  <1>1. RouteOK(n) /\ n.lo = range[1] /\ n.hi = range[2]  BY DEF Route, RouteOK, RangeType
  <1>2. \A e \in kept : RouteOK(e) /\ Apart(e, n) /\ Apart(n, e)
    BY <1>1 DEF TableOK, RoutesOK, Clear, Apart
  <1>3. RoutesOK(kept \cup {n})  BY <1>1, <1>2 DEF TableOK, RoutesOK
  <1>4. Insert(t, range, hop, iface, ttl)
          = [routes |-> kept \cup {n}, router |-> t.router, local |-> t.local, zones |-> t.zones]
    BY DEF Insert, TableOK
  <1>. QED  BY <1>3, <1>4 DEF TableOK

LEMMA FewerRoutes ==
    ASSUME NEW routes, RoutesOK(routes), NEW less, less \subseteq routes
    PROVE  RoutesOK(less)
  BY DEF RoutesOK

\* The search looks at one route, and finds a live one whenever there is one.
LEMMA LiveFound ==
    ASSUME Tables
    PROVE  LookupFindsRoute
  <1>1. SUFFICES ASSUME NEW t \in {host} \cup {cache[c] : c \in Clients}, NEW net \in Nets,
                        NEW e \in Live(t.routes), Covers(<<e.lo, e.hi>>, net)
                 PROVE  Lookup(t, net) # {}
    BY DEF LookupFindsRoute
  <1>2. RoutesOK(t.routes)  BY DEF Tables, TableOK, CopyOK
  <1>3. net \in Nat
    <2>1. PICK f \in host.routes \cup UNION {cache[c].routes : c \in Clients} : net \in f.lo .. f.hi  BY DEF Nets
    <2>2. RouteOK(f)  BY <2>1 DEF Tables, TableOK, CopyOK, RoutesOK
    <2>. QED  BY <2>1, <2>2 DEF RouteOK
  <1>. QED  BY <1>1, <1>2, <1>3, SearchFinds DEF Covers

-----------------------------------------------------------------------------
(* Routing: what two tables that are alike answer *)

LEMMA HopsNext ==
    ASSUME NEW t
    PROVE  NextHops(t) = {h[3] : h \in Hops(t.routes)}
  <1>1. ASSUME NEW x \in NextHops(t) PROVE \E h \in Hops(t.routes) : x = h[3]
    <2>1. PICK e \in Live(t.routes) : x = e.hop  BY DEF NextHops
    <2>2. <<e.lo, e.hi, e.hop>> \in Hops(t.routes)  BY DEF Hops
    <2>. QED  BY <2>1, <2>2
  <1>2. ASSUME NEW h \in Hops(t.routes) PROVE h[3] \in NextHops(t)
    <2>1. PICK e \in Live(t.routes) : h = <<e.lo, e.hi, e.hop>>  BY DEF Hops
    <2>. QED  BY <2>1 DEF NextHops
  <1>. QED  BY <1>1, <1>2

\* The routers of a zone.
LEMMA ZoneRouters ==
    ASSUME NEW t, TableOK(t), NEW s, TableOK(s), Alike(s, t), NEW zone
    PROVE  RoutersForZone(s, zone) \subseteq RoutersForZone(t, zone)
  <1>1. SUFFICES ASSUME NEW x \in RoutersForZone(s, zone) PROVE x \in RoutersForZone(t, zone)  OBVIOUS
  <1>2. PICK z \in s.zones : z[1] = zone /\ \E e \in Lookup(s, z[2][1]) : x = e.hop
    <2> DEFINE Z == {z \in s.zones : z[1] = zone}
    <2>1. PICK e \in UNION {Lookup(s, z[2][1]) : z \in Z} : x = e.hop  BY DEF RoutersForZone
    <2>2. PICK z \in Z : e \in Lookup(s, z[2][1])  BY <2>1
    <2>. QED  BY <2>1, <2>2
  <1>3. z \in t.zones /\ z[2][1] \in Nat  BY DEF Alike, TableOK, ZonesOK
  <1>4. x \in {f.hop : f \in Lookup(s, z[2][1])}  BY <1>2
  <1>5. x \in {f.hop : f \in Lookup(t, z[2][1])}
    <2>1. Hops(s.routes) = Hops(t.routes) /\ RoutesOK(s.routes) /\ RoutesOK(t.routes)  BY DEF Alike, TableOK
    <2>2. {f.hop : f \in Lookup(s, z[2][1])} = {h[3] : h \in {y \in Hops(s.routes) : y[1] <= z[2][1] /\ z[2][1] <= y[2]}}
      BY <1>3, <2>1, HopsFound
    <2>3. {f.hop : f \in Lookup(t, z[2][1])} = {h[3] : h \in {y \in Hops(t.routes) : y[1] <= z[2][1] /\ z[2][1] <= y[2]}}
      BY <1>3, <2>1, HopsFound
    <2>. QED  BY ONLY <1>4, <2>1, <2>2, <2>3
  <1>6. PICK f \in Lookup(t, z[2][1]) : x = f.hop  BY <1>5
  <1>7. z \in {y \in t.zones : y[1] = zone}  BY <1>2, <1>3
  <1>8. f \in UNION {Lookup(t, y[2][1]) : y \in {y \in t.zones : y[1] = zone}}  BY <1>6, <1>7
  <1>. QED  BY <1>6, <1>8 DEF RoutersForZone

LEMMA AlikeDispatch ==
    ASSUME NEW t, TableOK(t), NEW s, TableOK(s), Alike(s, t), s.router = NoRouter,
           \A r \in LiveRouter(t) : r.addr \in NextHops(t), NEW zone
    PROVE  NbpDispatch(s, zone) = NbpDispatch(t, zone)
  <1>1. Alike(t, s)  BY DEF Alike
  <1>2. RoutersForZone(s, zone) = RoutersForZone(t, zone)
    <2>1. RoutersForZone(s, zone) \subseteq RoutersForZone(t, zone)  BY ZoneRouters
    <2>2. RoutersForZone(t, zone) \subseteq RoutersForZone(s, zone)  BY <1>1, ZoneRouters
    <2>. QED  BY <2>1, <2>2
  <1>3. NextHops(s) = NextHops(t)
    <2>1. NextHops(s) = {h[3] : h \in Hops(s.routes)} /\ NextHops(t) = {h[3] : h \in Hops(t.routes)}  BY HopsNext
    <2>. QED  BY <2>1 DEF Alike
  <1>4. AllRouters(s) = NextHops(s)  BY DEF AllRouters, LiveRouter
  <1>5. AllRouters(t) = NextHops(t)  BY DEF AllRouters
  <1>. QED  BY <1>2, <1>3, <1>4, <1>5 DEF NbpDispatch

LEMMA CopiesAgree ==
    ASSUME RoutingInv
    PROVE  DispatchAgrees
  <1>1. SUFFICES ASSUME NEW c \in Clients, Settled(c), ~missed, c \notin stale, ~SilentRouter,
                        NEW z
                 PROVE  NbpDispatch(cache[c], z) = NbpDispatch(host, z)
    BY DEF DispatchAgrees
  <1>2. Alike(cache[c], host)
    <2>1. up[c] = <<>>  BY <1>1 DEF Settled
    <2>2. DOMAIN up[c] = {}  BY <2>1
    <2>. QED  BY <1>1, <2>2 DEF RoutingInv, Copies, Settled
  <1>3. TableOK(cache[c]) /\ TableOK(host) /\ cache[c].router = NoRouter  BY DEF RoutingInv, Tables, CopyOK
  <1>4. \A r \in LiveRouter(host) : r.addr \in NextHops(host)  BY <1>1 DEF SilentRouter
  <1>. QED  BY <1>2, <1>3, <1>4, AlikeDispatch

-----------------------------------------------------------------------------
(* Routing: every table stays a table *)

LEMMA Relabelled ==
    ASSUME NEW e, RouteOK(e), NEW x
    PROVE  /\ [e EXCEPT !.ttl = x] = [lo |-> e.lo, hi |-> e.hi, hop |-> e.hop, iface |-> e.iface, ttl |-> x]
           /\ RouteOK([e EXCEPT !.ttl = x])
  BY DEF RouteOK

\* A snapshot keeps the live routes, and their hops.
LEMMA SnapshotKeeps ==
    ASSUME NEW t, TableOK(t)
    PROVE  SnapshotOK(Snapshot(t)) /\ Alike(Snapshot(t), t)
  <1> DEFINE S == {[e EXCEPT !.ttl = "never"] : e \in Live(t.routes)}
  <1>1. Snapshot(t).routes = S /\ Snapshot(t).zones = t.zones  BY DEF Snapshot
  <1>2. ASSUME NEW x \in S
        PROVE  \E e \in Live(t.routes) : /\ RouteOK(e) /\ RouteOK(x) /\ x.ttl = "never"
                                         /\ x = [lo |-> e.lo, hi |-> e.hi, hop |-> e.hop, iface |-> e.iface, ttl |-> "never"]
    <2>1. PICK e \in Live(t.routes) : x = [e EXCEPT !.ttl = "never"]  OBVIOUS
    <2>2. RouteOK(e)  BY DEF TableOK, RoutesOK, Live
    <2>3. x = [lo |-> e.lo, hi |-> e.hi, hop |-> e.hop, iface |-> e.iface, ttl |-> "never"] /\ RouteOK(x)
      BY <2>1, <2>2, Relabelled
    <2>. QED  BY <2>2, <2>3
  <1>3. RoutesOK(S)
    <2>1. \A x \in S : RouteOK(x)  BY <1>2
    <2>2. ASSUME NEW x \in S, NEW y \in S PROVE x = y \/ Apart(x, y)
      <3>1. PICK e \in Live(t.routes) : x = [lo |-> e.lo, hi |-> e.hi, hop |-> e.hop, iface |-> e.iface, ttl |-> "never"]
        BY <1>2
      <3>2. PICK f \in Live(t.routes) : y = [lo |-> f.lo, hi |-> f.hi, hop |-> f.hop, iface |-> f.iface, ttl |-> "never"]
        BY <1>2
      <3>3. e = f \/ Apart(e, f)  BY DEF TableOK, RoutesOK, Live
      <3>. QED  BY <3>1, <3>2, <3>3 DEF Apart
    <2>. QED  BY <2>1, <2>2 DEF RoutesOK
  <1>4. \A x \in S : x.ttl = "never"  BY <1>2
  <1>5. Hops(S) = Hops(t.routes)
    <2>1. ASSUME NEW h \in Hops(S) PROVE h \in Hops(t.routes)
      <3>1. PICK x \in S : h = <<x.lo, x.hi, x.hop>>  BY DEF Hops, Live
      <3>2. PICK e \in Live(t.routes) : x = [lo |-> e.lo, hi |-> e.hi, hop |-> e.hop, iface |-> e.iface, ttl |-> "never"]
        BY <1>2
      <3>3. h = <<e.lo, e.hi, e.hop>>  BY <3>1, <3>2
      <3>. QED  BY <3>3 DEF Hops
    <2>2. ASSUME NEW h \in Hops(t.routes) PROVE h \in Hops(S)
      <3>1. PICK e \in Live(t.routes) : h = <<e.lo, e.hi, e.hop>>  BY DEF Hops
      <3>2. RouteOK(e)  BY DEF TableOK, RoutesOK, Live
      <3> DEFINE x == [e EXCEPT !.ttl = "never"]
      <3>3. x = [lo |-> e.lo, hi |-> e.hi, hop |-> e.hop, iface |-> e.iface, ttl |-> "never"]  BY <3>2, Relabelled
      <3>4. x \in S  OBVIOUS
      <3>5. x \in Live(S) /\ h = <<x.lo, x.hi, x.hop>>
        <4> HIDE DEF x
        <4>. QED  BY <3>1, <3>3, <3>4 DEF Live
      <3> HIDE DEF x
      <3>. QED  BY <3>5 DEF Hops
    <2>. QED  BY <2>1, <2>2
  <1>. QED  BY <1>1, <1>3, <1>4, <1>5 DEF SnapshotOK, Alike, TableOK

\* What a client makes of a snapshot.
LEMMA ReplacedKeeps ==
    ASSUME NEW s, SnapshotOK(s)
    PROVE  CopyOK(ReplaceContents(s)) /\ ReplaceContents(s).routes = s.routes /\ ReplaceContents(s).zones = s.zones
  BY DEF SnapshotOK, ReplaceContents, CopyOK, TableOK

LEMMA CopiedAlike ==
    ASSUME NEW t, TableOK(t)
    PROVE  CopyOK(ReplaceContents(Snapshot(t))) /\ Alike(ReplaceContents(Snapshot(t)), t)
  BY SnapshotKeeps, ReplacedKeeps DEF Alike

LEMMA SameSnapshot ==
    ASSUME NEW t, TableOK(t), NEW s, TableOK(s), Snapshot(s) = Snapshot(t)
    PROVE  Alike(s, t)
  BY SnapshotKeeps DEF Alike

\* The table with other routes, zones or local ranges.
LEMMA OtherRoutes ==
    ASSUME NEW t, TableOK(t), NEW routes, RoutesOK(routes)
    PROVE  LET n == [t EXCEPT !.routes = routes] IN
           TableOK(n) /\ n.routes = routes /\ n.zones = t.zones /\ n.router = t.router
  BY DEF TableOK

LEMMA OtherZones ==
    ASSUME NEW t, TableOK(t), NEW zones, ZonesOK(zones)
    PROVE  LET n == [t EXCEPT !.zones = zones] IN
           TableOK(n) /\ n.routes = t.routes /\ n.zones = zones /\ n.router = t.router
  BY DEF TableOK

LEMMA OtherLocal ==
    ASSUME NEW t, TableOK(t), NEW iface, NEW range
    PROVE  LET n == SetLocal(t, iface, range) IN
           TableOK(n) /\ n.routes = t.routes /\ n.zones = t.zones /\ n.router = t.router
  <1>1. \A l : LET n == [t EXCEPT !.local = l] IN
               TableOK(n) /\ n.routes = t.routes /\ n.zones = t.zones /\ n.router = t.router
    BY DEF TableOK
  <1>. QED  BY <1>1 DEF SetLocal

LEMMA OtherRouter ==
    ASSUME NEW t, TableOK(t), NEW x
    PROVE  LET n == [t EXCEPT !.router = x] IN
           TableOK(n) /\ n.routes = t.routes /\ n.zones = t.zones
  BY DEF TableOK

LEMMA ZoneKeeps ==
    ASSUME NEW t, TableOK(t), NEW zone, NEW range \in RangeType
    PROVE  LET n == InsertZone(t, zone, range) IN TableOK(n) /\ n.routes = t.routes /\ n.router = t.router
  <1>1. ZonesOK(t.zones \cup {<<zone, range>>})  BY DEF TableOK, ZonesOK, RangeType
  <1>. QED  BY <1>1, OtherZones DEF InsertZone

LEMMA UnzoneKeeps ==
    ASSUME NEW t, TableOK(t), NEW zone
    PROVE  LET n == RemoveZone(t, zone) IN TableOK(n) /\ n.routes = t.routes /\ n.router = t.router
  <1>1. ZonesOK({z \in t.zones : z[1] # zone})  BY DEF TableOK, ZonesOK
  <1>. QED  BY <1>1, OtherZones DEF RemoveZone

LEMMA DeleteKeeps ==
    ASSUME NEW t, TableOK(t), NEW range
    PROVE  LET n == DeleteRoute(t, range) IN
           TableOK(n) /\ n.routes \subseteq t.routes /\ n.zones = t.zones /\ n.router = t.router
  <1> DEFINE less == {e \in t.routes : <<e.lo, e.hi>> # range}
  <1>1. RoutesOK(less)  BY FewerRoutes DEF TableOK
  <1>. QED  BY <1>1, OtherRoutes DEF DeleteRoute

LEMMA RemoveKeeps ==
    ASSUME NEW t, TableOK(t), NEW ranges
    PROVE  TableOK(RemoveRoutes(t, ranges))
  <1> DEFINE less == {e \in t.routes : <<e.lo, e.hi>> \notin ranges}
  <1>1. RoutesOK(less)  BY FewerRoutes DEF TableOK
  <1>. QED  BY <1>1, OtherRoutes DEF RemoveRoutes

LEMMA PurgeKeeps ==
    ASSUME NEW t, TableOK(t)
    PROVE  TableOK(Purge(t))
  <1>1. RoutesOK(Live(t.routes))  BY FewerRoutes DEF TableOK, Live
  <1> DEFINE r == Live(t.routes)
             x == IF t.router # NoRouter /\ t.router.ttl = "expired" THEN NoRouter ELSE t.router
  <1>2. Purge(t) = [[t EXCEPT !.routes = r] EXCEPT !.router = x]  BY DEF TableOK, Purge
  <1> HIDE DEF r, x
  <1>3. PICK n : n = [t EXCEPT !.routes = r]  OBVIOUS
  <1>4. TableOK(n)  BY <1>1, <1>3, OtherRoutes DEF r
  <1>5. TableOK([n EXCEPT !.router = x])  BY <1>4, OtherRouter
  <1>. QED  BY <1>2, <1>3, <1>5

\* A route that expires stays where it is.
LEMMA ExpiryKeeps ==
    ASSUME NEW t, TableOK(t), NEW e \in t.routes, NEW x
    PROVE  TableOK([t EXCEPT !.routes = (@ \ {e}) \cup {[e EXCEPT !.ttl = x]}])
  <1> DEFINE n == [e EXCEPT !.ttl = x]
  <1>1. RouteOK(e)  BY DEF TableOK, RoutesOK
  <1>2. n = [lo |-> e.lo, hi |-> e.hi, hop |-> e.hop, iface |-> e.iface, ttl |-> x] /\ RouteOK(n)  BY <1>1, Relabelled
  <1> HIDE DEF n
  <1>3. \A f \in t.routes \ {e} : RouteOK(f) /\ Apart(f, e) /\ Apart(e, f)  BY DEF TableOK, RoutesOK, Apart
  <1>4. \A f \in t.routes \ {e} : Apart(f, n) /\ Apart(n, f)  BY <1>2, <1>3 DEF Apart
  <1>5. RoutesOK((t.routes \ {e}) \cup {n})  BY <1>2, <1>3, <1>4 DEF TableOK, RoutesOK
  <1>. QED  BY <1>5, OtherRoutes DEF n

\* What a broadcast leaves: the routes clear of every tuple, and the tuples clear of all later ones.
LEMMA BroadcastKeeps ==
    ASSUME NEW t, TableOK(t), NEW r, NEW ts \in Seq([range : RangeType, gone : BOOLEAN])
    PROVE  TableOK(HandleRtmp(t, r, ts))
  <1> DEFINE new(i) == Route(ts[i].range, r, CableOf(r), "live")
             last == {i \in Announces(ts) : \A j \in Announces(ts) : j > i => Clear(new(i), ts[j].range)}
             kept == {e \in t.routes : \A i \in Announces(ts) : Clear(e, ts[i].range)}
             heard == {new(i) : i \in last}
  <1>1. \A i \in Announces(ts) : i \in Nat /\ ts[i].range \in RangeType
    <2>1. SUFFICES ASSUME NEW i \in DOMAIN ts PROVE i \in Nat /\ ts[i].range \in RangeType  BY DEF Announces
    <2>2. PICK T : T = [range : RangeType, gone : BOOLEAN]  OBVIOUS
    <2>3. ts[i] \in T /\ i \in Nat
      <3>1. ts \in Seq(T)  BY <2>2
      <3>2. i \in DOMAIN ts  BY <2>1
      <3>. QED  BY ONLY <3>1, <3>2
    <2>. QED  BY <2>2, <2>3
  <1>2. \A i \in Announces(ts) : /\ RouteOK(new(i)) /\ new(i).lo = ts[i].range[1] /\ new(i).hi = ts[i].range[2]
    BY <1>1 DEF Route, RouteOK, RangeType
  <1> HIDE DEF new
  <1>3. \A i \in last : i \in Announces(ts)  OBVIOUS
  <1>4. ASSUME NEW i \in last, NEW j \in last
        PROVE  new(i) = new(j) \/ Apart(new(i), new(j))
    <2>1. i \in Announces(ts) /\ j \in Announces(ts) /\ i \in Nat /\ j \in Nat  BY <1>1
    <2>2. i > j => Clear(new(j), ts[i].range)  BY <2>1
    <2>3. j > i => Clear(new(i), ts[j].range)  BY <2>1
    <2>4. i = j \/ i > j \/ j > i  BY <2>1
    <2>. QED  BY <1>2, <2>1, <2>2, <2>3, <2>4 DEF Clear, Apart
  <1>5. \A e \in kept : \A i \in last : Apart(e, new(i)) /\ Apart(new(i), e)
    BY <1>2, <1>3 DEF Clear, Apart
  <1>6. RoutesOK(kept)  BY FewerRoutes DEF TableOK
  <1>7. RoutesOK(kept \cup heard)
    <2>1. \A x \in heard : \E i \in last : x = new(i)  OBVIOUS
    <2> HIDE DEF last, kept, heard
    <2>2. \A x \in kept \cup heard : RouteOK(x)  BY <1>2, <1>3, <1>6, <2>1 DEF RoutesOK
    <2>3. ASSUME NEW x \in kept \cup heard, NEW y \in kept \cup heard PROVE x = y \/ Apart(x, y)
      BY <1>4, <1>5, <1>6, <2>1, <2>3 DEF RoutesOK
    <2>. QED  BY <2>2, <2>3 DEF RoutesOK
  <1>8. HandleRtmp(t, r, ts) = [t EXCEPT !.routes = kept \cup heard]  BY DEF HandleRtmp, new
  <1>. QED  BY <1>7, <1>8, OtherRoutes

\* A program's change.
LEMMA ChangeTyped ==
    ASSUME NEW ch \in Changes
    PROVE  /\ ch.op \in {"insert", "remove", "zone", "unzone", "local"}
           /\ ch.op # "unzone" => ch.range \in RangeType
  BY RangesOrdered

LEMMA ApplyKeeps ==
    ASSUME NEW t, TableOK(t), NEW ch \in Changes
    PROVE  TableOK(Apply(t, ch)) /\ Apply(t, ch).router = t.router
  <1>1. CASE ch.op = "insert"
    <2>1. Apply(t, ch) = Insert(t, ch.range, ch.hop, ch.iface, "never")  BY <1>1 DEF Apply
    <2>2. TableOK(Insert(t, ch.range, ch.hop, ch.iface, "never"))  BY <1>1, ChangeTyped, InsertKeeps
    <2>3. Insert(t, ch.range, ch.hop, ch.iface, "never").router = t.router  BY DEF Insert, TableOK
    <2>. QED  BY <2>1, <2>2, <2>3
  <1>2. CASE ch.op = "remove"
    <2>1. Apply(t, ch) = DeleteRoute(t, ch.range)  BY <1>2 DEF Apply
    <2>. QED  BY <2>1, DeleteKeeps
  <1>3. CASE ch.op = "zone"
    <2>1. Apply(t, ch) = InsertZone(t, ch.zone, ch.range)  BY <1>3 DEF Apply
    <2>. QED  BY <1>3, <2>1, ChangeTyped, ZoneKeeps
  <1>4. CASE ch.op = "unzone"
    <2>1. Apply(t, ch) = RemoveZone(t, ch.zone)  BY <1>4 DEF Apply
    <2>. QED  BY <2>1, UnzoneKeeps
  <1>5. CASE ch.op = "local"
    <2>1. Apply(t, ch) = SetLocal(t, "ET", ch.range)  BY <1>5 DEF Apply
    <2>. QED  BY <2>1, OtherLocal
  <1>. QED  BY <1>1, <1>2, <1>3, <1>4, <1>5, ChangeTyped

\* A client's copy has no route that expires, and keeps none.
LEMMA ApplyCopies ==
    ASSUME NEW t, CopyOK(t), NEW ch \in Changes
    PROVE  CopyOK(Apply(t, ch))
  <1>1. TableOK(t) /\ t.router = NoRouter  BY DEF CopyOK
  <1>2. TableOK(Apply(t, ch)) /\ Apply(t, ch).router = NoRouter  BY <1>1, ApplyKeeps
  <1>3. \A e \in Apply(t, ch).routes : e.ttl = "never"
    <2>1. CASE ch.op = "insert"
      <3>1. Apply(t, ch) = Insert(t, ch.range, ch.hop, ch.iface, "never")  BY <2>1 DEF Apply
      <3>2. Insert(t, ch.range, ch.hop, ch.iface, "never").routes
              = {e \in t.routes : Clear(e, ch.range)} \cup {Route(ch.range, ch.hop, ch.iface, "never")}
        BY <1>1 DEF Insert, TableOK
      <3>. QED  BY <3>1, <3>2 DEF CopyOK, Route
    <2>2. CASE ch.op # "insert"
      <3>1. Apply(t, ch).routes \subseteq t.routes
        <4>1. ch.op = "remove" => Apply(t, ch) = DeleteRoute(t, ch.range)  BY DEF Apply
        <4>2. ch.op = "zone" => Apply(t, ch) = InsertZone(t, ch.zone, ch.range)  BY DEF Apply
        <4>3. ch.op = "unzone" => Apply(t, ch) = RemoveZone(t, ch.zone)  BY DEF Apply
        <4>4. ch.op = "local" => Apply(t, ch) = SetLocal(t, "ET", ch.range)  BY DEF Apply
        <4>5. DeleteRoute(t, ch.range).routes \subseteq t.routes  BY <1>1, DeleteKeeps
        <4>6. ch.op = "zone" => InsertZone(t, ch.zone, ch.range).routes = t.routes  BY <1>1, ChangeTyped, ZoneKeeps
        <4>7. RemoveZone(t, ch.zone).routes = t.routes  BY <1>1, UnzoneKeeps
        <4>8. SetLocal(t, "ET", ch.range).routes = t.routes  BY <1>1, OtherLocal
        <4>. QED  BY <2>2, <4>1, <4>2, <4>3, <4>4, <4>5, <4>6, <4>7, <4>8, ChangeTyped
      <3>. QED  BY <3>1 DEF CopyOK
    <2>. QED  BY <2>1, <2>2
  <1>. QED  BY <1>2, <1>3 DEF CopyOK

\* A refreshed route takes its own place only: what is not announced changes no hop, unless the
\* route had expired.
LEMMA RefreshedAlike ==
    ASSUME NEW t, TableOK(t), NEW ch \in Changes, ch.op = "insert", Refreshes(t, ch.range, ch.hop)
    PROVE  /\ <<ch.range[1], ch.range[2], ch.hop>> \in Hops(Apply(t, ch).routes)
           /\ (\A e \in t.routes : e.ttl # "expired") => Alike(Apply(t, ch), t)
  <1> DEFINE n == Route(ch.range, ch.hop, ch.iface, "never")
             kept == {f \in t.routes : Clear(f, ch.range)}
  <1>1. Apply(t, ch) = Insert(t, ch.range, ch.hop, ch.iface, "never")  BY DEF Apply
  <1>2. Apply(t, ch).routes = kept \cup {n} /\ Apply(t, ch).zones = t.zones  BY <1>1 DEF Insert, TableOK
  <1>3. ch.range \in RangeType  BY ChangeTyped
  <1>4. ch.range = <<ch.range[1], ch.range[2]>> /\ ch.range[1] \in Nat /\ ch.range[2] \in Nat /\ ch.range[1] <= ch.range[2]
    BY <1>3 DEF RangeType
  <1>5. n.lo = ch.range[1] /\ n.hi = ch.range[2] /\ n.hop = ch.hop /\ n.ttl = "never"  BY DEF Route
  <1>6. PICK e \in t.routes : <<e.lo, e.hi>> = ch.range /\ e.hop = ch.hop  BY DEF Refreshes
  <1>7. e.lo = ch.range[1] /\ e.hi = ch.range[2]  BY <1>4, <1>6
  <1>8. kept = t.routes \ {e}
    <2>1. ASSUME NEW f \in t.routes PROVE Clear(f, ch.range) <=> f # e
      <3>1. RouteOK(f) /\ RouteOK(e) /\ (e = f \/ Apart(e, f))  BY DEF TableOK, RoutesOK
      <3>. QED  BY <1>4, <1>7, <3>1 DEF RouteOK, Apart, Clear
    <2>. QED  BY <2>1
  <1> HIDE DEF n, kept
  <1>9. n \in Live(Apply(t, ch).routes)  BY <1>2, <1>5 DEF Live
  <1>10. <<ch.range[1], ch.range[2], ch.hop>> \in Hops(Apply(t, ch).routes)  BY <1>5, <1>9 DEF Hops
  <1>11. ASSUME \A f \in t.routes : f.ttl # "expired" PROVE Alike(Apply(t, ch), t)
    <2>1. <<e.lo, e.hi, e.hop>> = <<n.lo, n.hi, n.hop>>  BY <1>5, <1>6, <1>7
    <2>2. Live(t.routes) = t.routes  BY <1>11 DEF Live
    <2>3. Live(Apply(t, ch).routes) = kept \cup {n}  BY <1>2, <1>5, <1>8, <1>11 DEF Live
    <2>4. Hops(Apply(t, ch).routes) = {<<f.lo, f.hi, f.hop>> : f \in kept \cup {n}}  BY <2>3 DEF Hops
    <2>5. Hops(t.routes) = {<<f.lo, f.hi, f.hop>> : f \in t.routes}  BY <2>2 DEF Hops
    <2>6. t.routes = kept \cup {e}  BY <1>8
    <2>7. Hops(Apply(t, ch).routes) = Hops(t.routes)  BY <2>1, <2>4, <2>5, <2>6
    <2>. QED  BY <1>2, <2>7 DEF Alike
  <1>. QED  BY <1>10, <1>11

-----------------------------------------------------------------------------
(* Routing: the actions *)

LEMMA InitRouting ==
    ASSUME RoutingInit
    PROVE  RoutingInv
  <1>1. TableOK(EmptyTable) /\ EmptyTable.router = NoRouter /\ EmptyTable.routes = {}
    BY DEF EmptyTable, TableOK, RoutesOK, ZonesOK
  <1>2. CopyOK(EmptyTable)  BY <1>1 DEF CopyOK
  <1>3. RoutersSet
    <2>1. SUFFICES ASSUME NEW r \in Routers
                   PROVE  Head(Configs(r)) \in [range : RangeType, zone : STRING]
      BY DEF RoutingInit, RoutersSet
    <2>2. Configs(r) \in Seq([range : RangeType, zone : STRING]) \ {<<>>}  BY RangesOrdered
    <2>. QED  BY <2>2, HeadTailProperties
  <1>4. UpType
    <2>1. <<>> \in Seq(Changes)  OBVIOUS
    <2>. QED  BY <2>1 DEF RoutingInit, UpType
  <1>5. Tables  BY <1>1, <1>2, <1>3, <1>4 DEF RoutingInit, Tables
  <1>6. Copies  BY DEF RoutingInit, Copies
  <1>. QED  BY <1>5, <1>6 DEF RoutingInv

\* The host's table changes by itself.
LEMMA HostMoves ==
    ASSUME RoutingInv, NEW t, TableOK(t), NEW announced, Becomes(t, announced),
           RoutersSet', setup' = [r \in Routers |-> setup'[r]], UNCHANGED procs
    PROVE  RoutingInv'
  <1>1. host' = t /\ TableOK(host)  BY DEF Becomes, RoutingInv, Tables
  <1>2. Tables'  BY <1>1 DEF RoutingInv, Tables, UpType, procs
  <1>3. Copies'
    <2>1. SUFFICES ASSUME ~due', ~missed', NEW c \in Clients, c \notin stale
                   PROVE  /\ stage[c] = "running" => \/ Alike(cache[c], host')
                                                     \/ \E i \in DOMAIN up[c] : ~HasAlready(host', up[c][i])
                          /\ stage[c] = "seeded" => Alike(seed[c], host')
      BY DEF Copies, procs, HasAlready
    <2>2. ~due /\ ~missed /\ Snapshot(t) = Snapshot(host)  BY <2>1 DEF Becomes
    <2>3. Alike(t, host)  BY <1>1, <2>2, SameSnapshot
    <2>4. /\ stage[c] = "running" => Alike(cache[c], host) \/ \E i \in DOMAIN up[c] : ~HasAlready(host, up[c][i])
          /\ stage[c] = "seeded" => Alike(seed[c], host)
      BY <2>1, <2>2 DEF RoutingInv, Copies
    <2>5. \A s : Alike(s, host) => Alike(s, host')  BY <1>1, <2>3 DEF Alike
    <2>6. \A ch : ~HasAlready(host, ch) => ~HasAlready(host', ch)  BY <1>1, <2>3 DEF Alike, HasAlready
    <2>. QED  BY <2>4, <2>5, <2>6
  <1>. QED  BY <1>2, <1>3 DEF RoutingInv

\* Neither the table of the host nor anything a client has or sends changes.
LEMMA OthersMove ==
    ASSUME RoutingInv, UNCHANGED <<host, due, missed, procs>>,
           RoutersSet', setup' = [r \in Routers |-> setup'[r]]
    PROVE  RoutingInv'
  <1>1. Tables'  BY DEF RoutingInv, Tables, UpType, procs
  <1>2. Copies'  BY DEF RoutingInv, Copies, HasAlready, procs
  <1>. QED  BY <1>1, <1>2 DEF RoutingInv

\* What the routers are set up with stays.
LEMMA SameSetup ==
    ASSUME RoutingInv, UNCHANGED setup
    PROVE  RoutersSet' /\ setup' = [r \in Routers |-> setup'[r]]
  BY DEF RoutingInv, Tables, RoutersSet

LEMMA BeatInv ==
    ASSUME RoutingInv, NEW r \in Routers, Beat(r)
    PROVE  RoutingInv'
  <1> DEFINE all(ts) == <<[range |-> setup[r].range, gone |-> FALSE]>> \o ts
             t1 == SetLocal(host, CableOf(r), LocalCableRange(r))
             t2 == NoteRouter(t1, r, CableOf(r))
             t3(ts) == RemoveRoutes(t2, Withdrawn(all(ts)))
             t4(ts) == HandleRtmp(t3(ts), r, all(ts))
  <1>1. PICK ts \in Tuples(r) : Becomes(t4(ts), t1 # host \/ Withdrawn(all(ts)) # {} \/ News(t3(ts), r, all(ts)))
    BY DEF Beat
  <1>2. UNCHANGED <<setup, procs>>  BY DEF Beat
  <1>3. TableOK(host)  BY DEF RoutingInv, Tables
  <1>4. TableOK(t1)  BY <1>3, OtherLocal
  <1>5. TableOK(t2)
    <2> HIDE DEF t1
    <2>. QED  BY <1>4, OtherRouter DEF NoteRouter
  <1>6. TableOK(t3(ts))
    <2> HIDE DEF t2
    <2>. QED  BY <1>5, RemoveKeeps
  <1>7. all(ts) \in Seq([range : RangeType, gone : BOOLEAN])
    <2>1. ts \in Seq([range : RangeType, gone : BOOLEAN])  BY RangesOrdered
    <2>2. [range |-> setup[r].range, gone |-> FALSE] \in [range : RangeType, gone : BOOLEAN]
      BY DEF RoutingInv, Tables, RoutersSet
    <2>3. PICK own : own = <<[range |-> setup[r].range, gone |-> FALSE]>>  OBVIOUS
    <2>4. own \in Seq([range : RangeType, gone : BOOLEAN])  BY <2>2, <2>3
    <2>. QED  BY <2>1, <2>3, <2>4, ConcatProperties
  <1>8. TableOK(t4(ts))
    <2> HIDE DEF t3, all
    <2>. QED  BY <1>6, <1>7, BroadcastKeeps
  <1>9. RoutersSet' /\ setup' = [q \in Routers |-> setup'[q]]  BY <1>2, SameSetup
  <1>10. PICK t, a : t = t4(ts) /\ a = (t1 # host \/ Withdrawn(all(ts)) # {} \/ News(t3(ts), r, all(ts)))  OBVIOUS
  <1>11. TableOK(t) /\ Becomes(t, a)
    <2> HIDE DEF t4
    <2>. QED  BY <1>1, <1>8, <1>10
  <1>. QED  BY <1>2, <1>9, <1>11, HostMoves

LEMMA ExpireInv ==
    ASSUME RoutingInv, Expire
    PROVE  RoutingInv'
  <1>1. UNCHANGED setup /\ UNCHANGED procs  BY DEF Expire, network
  <1>2. TableOK(host)  BY DEF RoutingInv, Tables
  <1>3. RoutersSet' /\ setup' = [q \in Routers |-> setup'[q]]  BY <1>1, SameSetup
  <1>4. CASE \E e \in host.routes : e.ttl = "live" /\ Becomes([host EXCEPT !.routes = (@ \ {e}) \cup {[e EXCEPT !.ttl = "expired"]}], FALSE)
    <2>1. PICK e \in host.routes : Becomes([host EXCEPT !.routes = (@ \ {e}) \cup {[e EXCEPT !.ttl = "expired"]}], FALSE)
      BY <1>4
    <2>2. PICK t : t = [host EXCEPT !.routes = (@ \ {e}) \cup {[e EXCEPT !.ttl = "expired"]}]  OBVIOUS
    <2>3. TableOK(t)  BY <1>2, <2>2, ExpiryKeeps
    <2>4. Becomes(t, FALSE)  BY <2>1, <2>2
    <2>. QED  BY <1>1, <1>3, <2>3, <2>4, HostMoves
  <1>5. CASE LiveRouter(host) # {} /\ Becomes([host EXCEPT !.router.ttl = "expired"], FALSE)
    <2>1. PICK t : t = [host EXCEPT !.router.ttl = "expired"]  OBVIOUS
    <2>2. TableOK(t)  BY <1>2, <2>1, OtherRouter
    <2>3. Becomes(t, FALSE)  BY <1>5, <2>1
    <2>. QED  BY <1>1, <1>3, <2>2, <2>3, HostMoves
  <1>. QED  BY <1>4, <1>5 DEF Expire

LEMMA PurgeInv ==
    ASSUME RoutingInv, PurgeExpired
    PROVE  RoutingInv'
  <1>1. UNCHANGED setup /\ UNCHANGED procs  BY DEF PurgeExpired, network
  <1>2. RoutersSet' /\ setup' = [q \in Routers |-> setup'[q]]  BY <1>1, SameSetup
  <1>3. TableOK(Purge(host))  BY PurgeKeeps DEF RoutingInv, Tables
  <1>4. Becomes(Purge(host), FALSE)  BY DEF PurgeExpired
  <1>. QED  BY <1>1, <1>2, <1>3, <1>4, HostMoves

LEMMA HandleReplyInv ==
    ASSUME RoutingInv, NEW r \in Routers, HandleReply(r)
    PROVE  RoutingInv'
  <1>1. UNCHANGED setup /\ UNCHANGED procs  BY DEF HandleReply
  <1>2. RoutersSet' /\ setup' = [q \in Routers |-> setup'[q]]  BY <1>1, SameSetup
  <1>3. TableOK(SetLocal(host, CableOf(r), setup[r].range))  BY OtherLocal DEF RoutingInv, Tables
  <1>4. setup[r].range \in RangeType  BY DEF RoutingInv, Tables, RoutersSet
  <1>5. PICK t : t = InsertZone(SetLocal(host, CableOf(r), setup[r].range), setup[r].zone, setup[r].range)  OBVIOUS
  <1>6. TableOK(t)  BY <1>3, <1>4, <1>5, ZoneKeeps
  <1>7. Becomes(t, TRUE)  BY <1>5 DEF HandleReply
  <1>. QED  BY <1>1, <1>2, <1>6, <1>7, HostMoves

\* A router is set up with one of its configurations.
LEMMA ReconfigureInv ==
    ASSUME RoutingInv, NEW r \in Routers, Reconfigure(r)
    PROVE  RoutingInv'
  <1>1. UNCHANGED <<host, due, missed, procs>>  BY DEF Reconfigure, learn
  <1>2. PICK i \in DOMAIN Configs(r) : setup' = [setup EXCEPT ![r] = Configs(r)[i]]  BY DEF Reconfigure
  <1>3. Configs(r)[i] \in [range : RangeType, zone : STRING]
    <2>1. PICK T : T = [range : RangeType, zone : STRING]  OBVIOUS
    <2>2. PICK s \in Seq(T) : s = Configs(r)  BY <2>1, RangesOrdered
    <2>3. s[i] \in T  BY ONLY <1>2, <2>2
    <2>. QED  BY <2>1, <2>2, <2>3
  <1>4. setup = [q \in Routers |-> setup[q]] /\ \A q \in Routers : setup[q] \in [range : RangeType, zone : STRING]
    BY DEF RoutingInv, Tables, RoutersSet
  <1>5. RoutersSet' /\ setup' = [q \in Routers |-> setup'[q]]  BY <1>2, <1>3, <1>4 DEF RoutersSet
  <1>. QED  BY <1>1, <1>5, OthersMove

LEMMA AnnounceInv ==
    ASSUME RoutingInv, Announce
    PROVE  RoutingInv'
  <1> DEFINE copy == ReplaceContents(Snapshot(host))
  <1>1. /\ cache' = [c \in Clients |-> IF stage[c] # "new" THEN copy ELSE cache[c]]
        /\ stale' = {c \in Clients : stage[c] = "seeded"}
        /\ UNCHANGED <<host, setup, stage, seed, up>>
    BY DEF Announce, network
  <1>2. TableOK(host)  BY DEF RoutingInv, Tables
  <1>3. CopyOK(copy) /\ Alike(copy, host)  BY <1>2, CopiedAlike
  <1> HIDE DEF copy
  <1>4. Tables'  BY <1>1, <1>3 DEF RoutingInv, Tables, RoutersSet, UpType
  <1>5. Copies'
    <2>1. SUFFICES ASSUME NEW c \in Clients, c \notin stale'
                   PROVE  /\ stage'[c] = "running" => Alike(cache'[c], host')
                          /\ stage'[c] # "seeded"
      BY DEF Copies
    <2>2. stage'[c] # "seeded"  BY <1>1, <2>1
    <2>3. stage'[c] = "running" => cache'[c] = copy  BY <1>1
    <2>. QED  BY <1>1, <1>3, <2>2, <2>3
  <1>. QED  BY <1>4, <1>5 DEF RoutingInv

LEMMA ListRoutesInv ==
    ASSUME RoutingInv, NEW c \in Clients, ListRoutes(c)
    PROVE  RoutingInv'
  <1> DEFINE answer == Snapshot(host)
  <1>1. /\ stage' = [stage EXCEPT ![c] = "seeded"] /\ seed' = [seed EXCEPT ![c] = answer]
        /\ UNCHANGED <<host, due, missed, setup, cache, up, stale>>
    BY DEF ListRoutes, learn, network
  <1>2. SnapshotOK(answer) /\ Alike(answer, host)  BY SnapshotKeeps DEF RoutingInv, Tables
  <1> HIDE DEF answer
  <1>3. stage'[c] = "seeded" /\ seed'[c] = answer /\ \A d \in Clients \ {c} : stage'[d] = stage[d] /\ seed'[d] = seed[d]
    BY <1>1 DEF RoutingInv, Tables
  <1>4. Tables'  BY <1>1, <1>2, <1>3 DEF RoutingInv, Tables, RoutersSet, UpType
  <1>5. Copies'
    <2>1. SUFFICES ASSUME ~due, ~missed, NEW d \in Clients, d \notin stale
                   PROVE  /\ stage'[d] = "running" => Alike(cache[d], host) \/ \E i \in DOMAIN up[d] : ~HasAlready(host, up[d][i])
                          /\ stage'[d] = "seeded" => Alike(seed'[d], host)
      BY <1>1 DEF Copies, HasAlready
    <2>2. CASE d = c  BY <1>2, <1>3, <2>2
    <2>3. CASE d # c  BY <1>3, <2>1, <2>3 DEF RoutingInv, Copies
    <2>. QED  BY <2>2, <2>3
  <1>. QED  BY <1>4, <1>5 DEF RoutingInv

LEMMA ApplySeedInv ==
    ASSUME RoutingInv, NEW c \in Clients, ApplySeed(c)
    PROVE  RoutingInv'
  <1> DEFINE copy == ReplaceContents(seed[c])
  <1>1. /\ stage[c] = "seeded" /\ stage' = [stage EXCEPT ![c] = "running"]
        /\ cache' = [cache EXCEPT ![c] = copy] /\ seed' = [seed EXCEPT ![c] = NoSeed]
        /\ UNCHANGED <<host, due, missed, setup, up, stale>>
    BY DEF ApplySeed, learn, network
  <1>2. SnapshotOK(seed[c])  BY <1>1 DEF RoutingInv, Tables
  <1>3. CopyOK(copy) /\ copy.routes = seed[c].routes /\ copy.zones = seed[c].zones  BY <1>2, ReplacedKeeps
  <1> HIDE DEF copy
  <1>4. /\ stage'[c] = "running" /\ cache'[c] = copy
        /\ \A d \in Clients \ {c} : stage'[d] = stage[d] /\ seed'[d] = seed[d] /\ cache'[d] = cache[d]
    BY <1>1 DEF RoutingInv, Tables
  <1>5. Tables'  BY <1>1, <1>3, <1>4 DEF RoutingInv, Tables, RoutersSet, UpType
  <1>6. Copies'
    <2>1. SUFFICES ASSUME ~due, ~missed, NEW d \in Clients, d \notin stale
                   PROVE  /\ stage'[d] = "running" => Alike(cache'[d], host) \/ \E i \in DOMAIN up[d] : ~HasAlready(host, up[d][i])
                          /\ stage'[d] = "seeded" => Alike(seed'[d], host)
      BY <1>1 DEF Copies, HasAlready
    <2>2. CASE d = c
      <3>1. Alike(seed[c], host)  BY <1>1, <2>1, <2>2 DEF RoutingInv, Copies
      <3>. QED  BY <1>3, <1>4, <2>2, <3>1 DEF Alike
    <2>3. CASE d # c  BY <1>4, <2>1, <2>3 DEF RoutingInv, Copies
    <2>. QED  BY <2>2, <2>3
  <1>. QED  BY <1>5, <1>6 DEF RoutingInv

\* What a program does to a copy that is like the host's table, unless the daemon is going to
\* announce what it is sent.
LEMMA ChangedAlike ==
    ASSUME Tables, NEW t, CopyOK(t), Alike(t, host), NEW ch \in Changes
    PROVE  Alike(Apply(t, ch), host) \/ (Announced(t, ch) /\ ~HasAlready(host, ch))
  <1>1. TableOK(t)  BY DEF CopyOK
  <1>2. CASE ch.op = "insert"
    <2>1. CASE Refreshes(t, ch.range, ch.hop)
      <3>1. \A e \in t.routes : e.ttl # "expired"  BY DEF CopyOK
      <3>2. Alike(Apply(t, ch), t)  BY <1>1, <1>2, <2>1, <3>1, RefreshedAlike
      <3>. QED  BY <3>2 DEF Alike
    <2>2. CASE ~Refreshes(t, ch.range, ch.hop)
      <3>1. Announced(t, ch)  BY <1>2, <2>2 DEF Announced
      <3>2. ASSUME HasAlready(host, ch) PROVE FALSE
        <4>1. <<ch.range[1], ch.range[2], ch.hop>> \in Hops(t.routes)  BY <1>2, <3>2 DEF HasAlready, Alike
        <4>2. PICK e \in Live(t.routes) : <<ch.range[1], ch.range[2], ch.hop>> = <<e.lo, e.hi, e.hop>>  BY <4>1 DEF Hops
        <4>3. ch.range = <<ch.range[1], ch.range[2]>>  BY <1>2, ChangeTyped DEF RangeType
        <4>4. e \in t.routes /\ <<e.lo, e.hi>> = ch.range /\ e.hop = ch.hop  BY <4>2, <4>3 DEF Live
        <4>. QED  BY <2>2, <4>4 DEF Refreshes
      <3>. QED  BY <3>1, <3>2
    <2>. QED  BY <2>1, <2>2
  <1>3. CASE ch.op = "local"
    <2>1. Apply(t, ch) = SetLocal(t, "ET", ch.range)  BY <1>3 DEF Apply
    <2>2. Apply(t, ch).routes = t.routes /\ Apply(t, ch).zones = t.zones  BY <1>1, <2>1, OtherLocal
    <2>. QED  BY <2>2 DEF Alike
  <1>4. CASE ch.op \in {"remove", "zone", "unzone"}
    <2>1. Announced(t, ch)  BY <1>4 DEF Announced
    <2>. QED  BY <1>4, <2>1 DEF HasAlready
  <1>. QED  BY <1>2, <1>3, <1>4, ChangeTyped

LEMMA ChangeInv ==
    ASSUME RoutingInv, NEW c \in Clients, NEW ch \in Changes, Change(c, ch)
    PROVE  RoutingInv'
  <1> DEFINE copy == Apply(cache[c], ch)
             sends == Announced(cache[c], ch)
  <1>1. /\ stage[c] = "running" /\ cache' = [cache EXCEPT ![c] = copy]
        /\ up' = IF sends THEN [up EXCEPT ![c] = Append(@, ch)] ELSE up
        /\ UNCHANGED <<host, due, missed, setup, stage, seed, stale>>
    BY DEF Change, learn, network
  <1>2. CopyOK(cache[c])  BY DEF RoutingInv, Tables
  <1>3. CopyOK(copy)  BY <1>2, ApplyCopies
  <1>4. Alike(cache[c], host) => Alike(copy, host) \/ (sends /\ ~HasAlready(host, ch))
    BY <1>2, ChangedAlike DEF RoutingInv
  <1> HIDE DEF copy, sends
  <1>5. cache'[c] = copy /\ \A d \in Clients \ {c} : cache'[d] = cache[d] /\ up'[d] = up[d]
    BY <1>1 DEF RoutingInv, Tables
  <1>6. PICK old \in Seq(Changes) : old = up[c]  BY DEF RoutingInv, Tables, UpType
  <1>7. up'[c] = IF sends THEN Append(old, ch) ELSE old  BY <1>1, <1>6 DEF RoutingInv, Tables
  <1>8. Append(old, ch) \in Seq(Changes)  OBVIOUS
  <1>9. up' = [d \in Clients |-> up'[d]]  BY <1>1 DEF RoutingInv, Tables
  <1>10. cache' = [d \in Clients |-> cache'[d]]  BY <1>1 DEF RoutingInv, Tables
  <1>11. UpType'
    <2>1. SUFFICES ASSUME NEW d \in Clients PROVE up'[d] \in Seq(Changes)  BY DEF UpType
    <2>2. CASE d = c  BY <1>7, <1>8, <2>2
    <2>3. CASE d # c  BY <1>5, <2>3 DEF RoutingInv, Tables, UpType
    <2>. QED  BY <2>2, <2>3
  <1>12. Tables'  BY <1>1, <1>3, <1>5, <1>9, <1>10, <1>11 DEF RoutingInv, Tables, RoutersSet
  <1>13. Copies'
    <2>1. SUFFICES ASSUME ~due, ~missed, NEW d \in Clients, d \notin stale
                   PROVE  /\ stage[d] = "running" => Alike(cache'[d], host) \/ \E i \in DOMAIN up'[d] : ~HasAlready(host, up'[d][i])
                          /\ stage[d] = "seeded" => Alike(seed[d], host)
      BY <1>1 DEF Copies, HasAlready
    <2>2. CASE d # c  BY <1>5, <2>1, <2>2 DEF RoutingInv, Copies
    <2>3. CASE d = c
      <3>1. Alike(cache[c], host) \/ \E i \in DOMAIN old : ~HasAlready(host, old[i])
        BY <1>1, <1>6, <2>1, <2>3 DEF RoutingInv, Copies
      <3>2. CASE \E i \in DOMAIN old : ~HasAlready(host, old[i])
        <4>1. PICK i \in DOMAIN old : ~HasAlready(host, old[i])  BY <3>2
        <4>2. i \in DOMAIN Append(old, ch) /\ Append(old, ch)[i] = old[i]  BY AppendProperties
        <4>3. i \in DOMAIN up'[c] /\ up'[c][i] = old[i]  BY <1>7, <4>2
        <4>. QED  BY <1>1, <2>3, <4>1, <4>3
      <3>3. CASE Alike(copy, host)  BY <1>1, <1>5, <2>3, <3>3
      <3>4. CASE sends /\ ~HasAlready(host, ch)
        <4>1. PICK i : i = Len(old) + 1  OBVIOUS
        <4>2. i \in DOMAIN Append(old, ch) /\ Append(old, ch)[i] = ch  BY <4>1, AppendProperties
        <4>3. i \in DOMAIN up'[c] /\ up'[c][i] = ch  BY <1>7, <3>4, <4>2
        <4>. QED  BY <1>1, <2>3, <3>4, <4>3
      <3>. QED  BY <1>4, <3>1, <3>2, <3>3, <3>4
    <2>. QED  BY <2>2, <2>3
  <1>. QED  BY <1>12, <1>13 DEF RoutingInv

\* A change the host does not know is announced, or shows in its snapshot.
LEMMA SilentHasAlready ==
    ASSUME Tables, NEW ch \in Changes, ~Announced(host, ch), Snapshot(Apply(host, ch)) = Snapshot(host)
    PROVE  HasAlready(host, ch)
  <1>1. TableOK(host)  BY DEF Tables
  <1>2. Alike(Apply(host, ch), host)  BY <1>1, ApplyKeeps, SameSnapshot
  <1>3. CASE ch.op = "insert"
    <2>1. Refreshes(host, ch.range, ch.hop)  BY <1>3 DEF Announced
    <2>2. <<ch.range[1], ch.range[2], ch.hop>> \in Hops(Apply(host, ch).routes)  BY <1>1, <1>3, <2>1, RefreshedAlike
    <2>. QED  BY <1>2, <1>3, <2>2 DEF Alike, HasAlready
  <1>4. CASE ch.op = "local"  BY <1>4 DEF HasAlready
  <1>5. CASE ch.op \in {"remove", "zone", "unzone"}  BY <1>5 DEF Announced
  <1>. QED  BY <1>3, <1>4, <1>5, ChangeTyped

LEMMA ApplyRouteChangeInv ==
    ASSUME RoutingInv, NEW c \in Clients, ApplyRouteChange(c)
    PROVE  RoutingInv'
  <1>0. PICK old \in Seq(Changes) : old = up[c] /\ old # <<>>
    BY DEF RoutingInv, Tables, UpType, ApplyRouteChange
  <1>1. PICK ch : old = up[c] /\ old # <<>> /\ ch = Head(old)  BY <1>0
  <1>2. ch \in Changes /\ Tail(old) \in Seq(Changes)  BY <1>1, HeadTailProperties
  <1>3. PICK t : t = Apply(host, ch)  OBVIOUS
  <1>4. /\ up' = [up EXCEPT ![c] = Tail(old)] /\ Becomes(t, Announced(host, ch))
        /\ UNCHANGED <<setup, stage, seed, cache, stale>>
    BY <1>1, <1>3 DEF ApplyRouteChange, network
  <1>5. host' = t /\ TableOK(host) /\ TableOK(t)  BY <1>2, <1>3, <1>4, ApplyKeeps DEF Becomes, RoutingInv, Tables
  <1>6. up'[c] = Tail(old) /\ \A d \in Clients \ {c} : up'[d] = up[d]  BY <1>4 DEF RoutingInv, Tables
  <1>7. UpType'
    <2>1. SUFFICES ASSUME NEW d \in Clients PROVE up'[d] \in Seq(Changes)  BY DEF UpType
    <2>2. CASE d = c  BY <1>2, <1>6, <2>2
    <2>3. CASE d # c  BY <1>6, <2>3 DEF RoutingInv, Tables, UpType
    <2>. QED  BY <2>2, <2>3
  <1>8. up' = [d \in Clients |-> up'[d]]  BY <1>4 DEF RoutingInv, Tables
  <1>9. Tables'  BY <1>4, <1>5, <1>7, <1>8 DEF RoutingInv, Tables, RoutersSet
  <1>10. Copies'
    <2>1. SUFFICES ASSUME ~due', ~missed', NEW d \in Clients, d \notin stale
                   PROVE  /\ stage[d] = "running" => \/ Alike(cache[d], host')
                                                     \/ \E i \in DOMAIN up'[d] : ~HasAlready(host', up'[d][i])
                          /\ stage[d] = "seeded" => Alike(seed[d], host')
      BY <1>4 DEF Copies, HasAlready
    <2>2. ~due /\ ~missed /\ ~Announced(host, ch) /\ Snapshot(t) = Snapshot(host)  BY <1>4, <2>1 DEF Becomes
    <2>3. Alike(t, host)  BY <1>5, <2>2, SameSnapshot
    <2>4. HasAlready(host, ch)  BY <1>2, <1>3, <2>2, SilentHasAlready DEF RoutingInv
    <2>5. /\ stage[d] = "running" => Alike(cache[d], host) \/ \E i \in DOMAIN up[d] : ~HasAlready(host, up[d][i])
          /\ stage[d] = "seeded" => Alike(seed[d], host)
      BY <2>1, <2>2 DEF RoutingInv, Copies
    <2>6. \A s : Alike(s, host) => Alike(s, host')  BY <1>5, <2>3 DEF Alike
    <2>7. \A x : ~HasAlready(host, x) => ~HasAlready(host', x)  BY <1>5, <2>3 DEF Alike, HasAlready
    <2>8. ASSUME NEW i \in DOMAIN up[d], ~HasAlready(host, up[d][i])
          PROVE  \E j \in DOMAIN up'[d] : ~HasAlready(host, up'[d][j])
      <3>1. CASE d # c  BY <1>6, <2>8, <3>1
      <3>2. CASE d = c
        <4>1. i \in 1..Len(old) /\ i # 1 /\ ~HasAlready(host, old[i])
          <5>1. i \in DOMAIN old /\ ~HasAlready(host, old[i])  BY <1>1, <2>8, <3>2
          <5>2. old[1] = ch  BY <1>1
          <5>. QED  BY <2>4, <5>1, <5>2
        <4>2. PICK j : j = i - 1  OBVIOUS
        <4>3. j \in DOMAIN Tail(old) /\ Tail(old)[j] = old[i]
          <5>1. Len(old) \in Nat /\ old \in Seq(Changes) /\ old # <<>>  BY <1>1
          <5>2. j \in 1..Len(old) - 1 /\ i = j + 1  BY ONLY <4>1, <4>2, <5>1
          <5>3. Len(Tail(old)) = Len(old) - 1 /\ Tail(old) \in Seq(Changes) /\ \A k \in 1..Len(old) - 1 : Tail(old)[k] = old[k + 1]
            BY ONLY <5>1, HeadTailProperties
          <5>. QED  BY ONLY <5>2, <5>3
        <4>. QED  BY <1>6, <3>2, <4>1, <4>3
      <3>. QED  BY <3>1, <3>2
    <2>. QED  BY <2>5, <2>6, <2>7, <2>8
  <1>. QED  BY <1>9, <1>10 DEF RoutingInv

LEMMA StepRouting ==
    ASSUME RoutingInv, [RoutingNext]_routingVars
    PROVE  RoutingInv'
  <1>1. CASE Tick
    <2>1. UNCHANGED <<host, due, missed, procs>> /\ UNCHANGED setup  BY <1>1 DEF Tick
    <2>. QED  BY <2>1, SameSetup, OthersMove
  <1>2. ASSUME NEW r \in Routers, HandleNotify(r) PROVE RoutingInv'
    <2>1. UNCHANGED <<host, due, missed, procs>> /\ UNCHANGED setup  BY <1>2 DEF HandleNotify
    <2>. QED  BY <2>1, SameSetup, OthersMove
  <1>3. ASSUME NEW r \in Routers, Lose(r) PROVE RoutingInv'
    <2>1. UNCHANGED <<host, due, missed, procs>> /\ UNCHANGED setup  BY <1>3 DEF Lose, learn
    <2>. QED  BY <2>1, SameSetup, OthersMove
  <1>4. CASE UNCHANGED routingVars
    <2>1. UNCHANGED <<host, due, missed, procs>> /\ UNCHANGED setup  BY <1>4 DEF routingVars, learn, network
    <2>. QED  BY <2>1, SameSetup, OthersMove
  <1>. QED
    BY <1>1, <1>2, <1>3, <1>4, HandleReplyInv, AnnounceInv, ListRoutesInv, ApplySeedInv, ApplyRouteChangeInv,
       ExpireInv, PurgeInv, BeatInv, ReconfigureInv, ChangeInv
    DEF RoutingNext, ZipActor, Sync

\* The invariant: tables whose routes lie apart, in the host and in its clients, and copies that
\* are like the host's table whenever nothing is going to tell them otherwise.
THEOREM RoutingInvariant == RoutingSpec => []RoutingInv
  <1>1. RoutingInit => RoutingInv  BY InitRouting
  <1>2. RoutingInv /\ [RoutingNext]_routingVars => RoutingInv'  BY StepRouting
  <1>. QED  BY <1>1, <1>2, PTL DEF RoutingSpec

\* The table answers for every network a live route covers (route_table.rs looks at one route only):
\* whatever routers broadcast and programs write, no route lies across another.
THEOREM LookupsFindRoutes == RoutingSpec => []LookupFindsRoute
  <1>1. RoutingInv => LookupFindsRoute  BY LiveFound DEF RoutingInv
  <1>. QED  BY <1>1, RoutingInvariant, PTL

\* A client of the daemon with nothing on its way sends its lookups to the routers the host would
\* (NbpDispatch in both), but for the three cases DispatchAgrees names.
THEOREM CopiesDispatchAlike == RoutingSpec => []DispatchAgrees
  <1>1. RoutingInv => DispatchAgrees  BY CopiesAgree
  <1>. QED  BY <1>1, RoutingInvariant, PTL

=============================================================================
