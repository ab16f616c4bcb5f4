------------------------------ MODULE AfpForks ------------------------------
(***************************************************************************)
(* The open forks of one AFP session: the fork half of                     *)
(* tailtalk/src/afp/volume.rs and its handlers in server.rs.               *)
(*                                                                         *)
(* A node (an id of AfpVolume) may have its data fork and its resource     *)
(* fork open, each through one file handle.  The client holds a fork       *)
(* reference number; five tables are kept by that number or by the node,   *)
(* and fork_pos remembers where the handle stands so that sequential reads *)
(* and writes need no seek.  All files lie in one directory.               *)
(*                                                                         *)
(* Other sessions work on the same files and see none of these tables, so  *)
(* a file may come, go, and change its length at any time: bytes are       *)
(* reduced to positions, and a read may find fewer bytes than it asks for. *)
(***************************************************************************)
EXTENDS Naturals, FiniteSets, Functions

CONSTANTS
    FileNames,  \* file names
    MaxRef,     \* the last fork reference number (65535 in the code)
    MaxPos,     \* bound: position in a fork
    MaxId,      \* bound: the last node id
    MaxOpen,    \* bound: forks open at one time
    Ranges      \* byte ranges a client locks: an offset and a length

ASSUME AfpForksAssumption ==
    MaxRef \in Nat \ {0} /\ MaxPos \in Nat /\ MaxId \in Nat /\ MaxOpen \in Nat

ForkType == {"Data", "Resource"}
\* access_mode, as far as it is asked for: reading only, or not.
Modes == {"read", "other"}

VARIABLES
    \* the disk
    disk,      \* disk[f]: the names that have a fork f
    \* the Volume of the session
    nodes,     \* nodes[i]: the name of node i
    ids,       \* path_to_id
    next_id,   \* the next node id
    handle,    \* handle[<<i, f>>]: data_fork and resource_fork of node i, below
    forks,     \* fork_ref_to_node_id
    access,    \* fork_access
    fork_pos,  \* fork_pos
    dirty,     \* dirty_forks
    locks,     \* fork_locks; no locks and no entry are the same
    nextRef,   \* next_fork_ref_num
    \* history
    lapped     \* a number was given out while its fork was open

tables == <<forks, access, fork_pos, dirty, locks, nextRef, lapped>>
volume == <<nodes, ids, next_id, handle>>
vars   == <<disk, volume, tables>>

\* An open file: where it stands, and whether it was written since its last sync.
Handle(pos, unsynced) == [pos |-> pos, unsynced |-> unsynced]
Without(f, S) == Restrict(f, DOMAIN f \ S)
Put(f, x, v)  == [y \in DOMAIN f \cup {x} |-> IF y = x THEN v ELSE f[y]]
Empty == [x \in {} |-> x]

\* One file, without a resource fork, that the session has listed.
Init ==
    LET n == CHOOSE m \in FileNames : TRUE
    IN  /\ disk = [f \in ForkType |-> IF f = "Data" THEN {n} ELSE {}]
        /\ nodes = Put(Empty, 3, n) /\ ids = Put(Empty, n, 3) /\ next_id = 4 /\ handle = Empty
        /\ forks = Empty /\ access = Empty /\ fork_pos = Empty
        /\ dirty = {} /\ locks = [r \in 1 .. MaxRef |-> {}] /\ nextRef = 1
        /\ lapped = FALSE

-----------------------------------------------------------------------------
(* Opening and closing *)

\* The number after r; 0 is skipped when the 16-bit counter wraps.
NextRef(r) == IF r = MaxRef THEN 1 ELSE r + 1

\* The fork is entered under the next number, whatever that number stands for.
Register(i, f, mode) ==
    /\ forks' = Put(forks, nextRef, <<i, f>>)
    /\ access' = Put(access, nextRef, mode)
    /\ fork_pos' = Put(fork_pos, nextRef, 0)
    /\ handle' = Put(handle, <<i, f>>, Handle(0, FALSE))
    /\ nextRef' = NextRef(nextRef)
    /\ lapped' = (lapped \/ nextRef \in DOMAIN forks)
    /\ UNCHANGED <<nodes, ids, next_id, dirty, locks>>

\* FPOpenFork: busy if this session has the fork of this node open.  A sidecar is created
\* when there is none; a data fork must exist.
open_fork(i, f, mode) ==
    /\ i \in DOMAIN nodes /\ <<i, f>> \notin DOMAIN handle
    /\ Cardinality(DOMAIN handle) < MaxOpen
    /\ f = "Data" => nodes[i] \in disk[f]
    /\ Register(i, f, mode)
    /\ disk' = [disk EXCEPT ![f] = @ \cup {nodes[i]}]

\* Seeded fault: the locks stay with the number.
ForgetLocksNot(r) == locks
ForgetLocks(r) == [locks EXCEPT ![r] = {}]

\* FPCloseFork: refused for good once the node is gone.
close_fork(r) ==
    /\ r \in DOMAIN forks /\ forks[r][1] \in DOMAIN nodes
    /\ handle' = Without(handle, {forks[r]})
    /\ forks' = Without(forks, {r}) /\ access' = Without(access, {r})
    /\ fork_pos' = Without(fork_pos, {r})
    /\ dirty' = dirty \ {forks[r]}
    /\ locks' = ForgetLocks(r)
    /\ UNCHANGED <<disk, nodes, ids, next_id, nextRef, lapped>>

-----------------------------------------------------------------------------
(* Reading and writing *)

IsOpen(r) == r \in DOMAIN forks /\ forks[r][1] \in DOMAIN nodes /\ forks[r] \in DOMAIN handle
\* Where the handle stands once the seek to offset was made, or skipped.
Sought(r, offset) ==
    IF r \in DOMAIN fork_pos /\ fork_pos[r] = offset THEN handle[forks[r]].pos ELSE offset

Stands(r, pos) == handle' = [handle EXCEPT ![forks[r]].pos = pos]

\* An I/O error leaves the handle anywhere and the position unknown.
Lost(r) == /\ \E pos \in 0 .. MaxPos : Stands(r, pos)
           /\ fork_pos' = Without(fork_pos, {r})

\* FPRead of count bytes.  With a newline mask the handle reads on to count, and is set
\* back behind the newline found after upto bytes.
\* Seeded fault: it is not set back.
ReadToAhead(r, start, got, upto) == Stands(r, start + got)
ReadTo(r, start, got, upto) == Stands(r, start + upto)

read(r, offset, count) ==
    /\ IsOpen(r)
    /\ LET start == Sought(r, offset)
       IN  \/ \E got \in 0 .. count : \E upto \in 0 .. got :
                /\ start + upto <= MaxPos /\ (got > 0 => upto > 0)
                /\ ReadTo(r, start, got, upto)
                /\ fork_pos' = Put(fork_pos, r, offset + upto)
           \/ Lost(r)
    /\ UNCHANGED <<disk, nodes, ids, next_id, forks, access, dirty, locks, nextRef, lapped>>

\* FPWrite: refused to a fork opened for reading only.  A write that fails has written some
\* of its bytes, and marks the fork all the same.
\* Seeded fault: only a write that succeeds marks the fork.
MarkedIfDone(r, done) == IF done THEN dirty \cup {forks[r]} ELSE dirty
Marked(r, done) == dirty \cup {forks[r]}

write_fork(r, offset, count) ==
    /\ IsOpen(r) /\ access[r] # "read"
    /\ LET start == Sought(r, offset)
       IN  \E done \in BOOLEAN, n \in 0 .. count :
             /\ done => n = count
             /\ start + n <= MaxPos
             /\ dirty' = Marked(r, done)
             /\ \E pos \in IF done THEN {start + n} ELSE 0 .. MaxPos :
                  handle' = [handle EXCEPT ![forks[r]] = Handle(pos, @.unsynced \/ n > 0)]
             /\ fork_pos' = IF done THEN Put(fork_pos, r, offset + n) ELSE Without(fork_pos, {r})
    /\ UNCHANGED <<disk, nodes, ids, next_id, forks, access, locks, nextRef, lapped>>

\* A write whose seek failed.
WriteSeekFails(r) ==
    /\ IsOpen(r) /\ access[r] # "read"
    /\ Lost(r)
    /\ UNCHANGED <<disk, nodes, ids, next_id, forks, access, dirty, locks, nextRef, lapped>>

\* FPSetForkParms: a new length, which does not move the handle.  The access mode is not
\* asked for.
set_fork_parms(r) ==
    /\ IsOpen(r)
    /\ handle' = [handle EXCEPT ![forks[r]].unsynced = TRUE]
    /\ fork_pos' = Without(fork_pos, {r})
    /\ dirty' = dirty \cup {forks[r]}
    /\ UNCHANGED <<disk, nodes, ids, next_id, forks, access, locks, nextRef, lapped>>

\* FPByteRangeLock, counted from the start of the fork: locks are kept, and checked, by
\* reference number.
Overlap(a, b) == a[1] < b[1] + b[2] /\ b[1] < a[1] + a[2]
byte_range_lock(r, range, unlock) ==
    /\ r \in DOMAIN forks /\ forks[r][1] \in DOMAIN nodes
    /\ nodes[forks[r][1]] \in disk["Data"]
    /\ IF unlock THEN /\ range \in locks[r]
                      /\ locks' = [locks EXCEPT ![r] = @ \ {range}]
                 ELSE /\ \A l \in locks[r] : ~Overlap(l, range)
                      /\ locks' = [locks EXCEPT ![r] = @ \cup {range}]
    /\ UNCHANGED <<disk, volume, forks, access, fork_pos, dirty, nextRef, lapped>>

\* FPFlush: every fork marked is synced; one that fails is marked again.
Synced(S) == [h \in DOMAIN handle |-> IF h \in S THEN [handle[h] EXCEPT !.unsynced = FALSE] ELSE handle[h]]
sync ==
    \E failed \in SUBSET (dirty \cap DOMAIN handle) :
        /\ dirty' = failed
        /\ handle' = Synced(dirty \ failed)
        /\ UNCHANGED <<disk, nodes, ids, next_id, forks, access, fork_pos, locks, nextRef, lapped>>

\* FPFlushFork
sync_fork(r) ==
    /\ r \in DOMAIN forks /\ forks[r][1] \in DOMAIN nodes
    /\ handle' = Synced({forks[r]})
    /\ dirty' = dirty \ {forks[r]}
    /\ UNCHANGED <<disk, nodes, ids, next_id, forks, access, fork_pos, locks, nextRef, lapped>>

-----------------------------------------------------------------------------
(* The catalogue, as far as it meets open forks *)

AddNode(n) ==
    /\ next_id <= MaxId /\ next_id' = next_id + 1
    /\ nodes' = Put(nodes, next_id, n) /\ ids' = Put(ids, n, next_id)

\* FPCreateFile.  A hard create over a file leaves the old node, with its open forks on the
\* file that was unlinked, and the old resource fork for the new node to find.
create_file(n, hard) ==
    /\ n \in disk["Data"] => hard
    /\ AddNode(n)
    /\ disk' = [disk EXCEPT !["Data"] = @ \cup {n}]
    /\ UNCHANGED <<handle, tables>>

\* FPDelete: busy if the data fork is open; the resource fork is not asked for, and its
\* handle goes with the node.
Busy(i) == <<i, "Data">> \in DOMAIN handle
delete(i) ==
    /\ i \in DOMAIN nodes /\ nodes[i] \in disk["Data"] /\ ~Busy(i)
    /\ disk' = [f \in ForkType |-> disk[f] \ {nodes[i]}]
    /\ nodes' = Without(nodes, {i}) /\ ids' = Without(ids, {nodes[i]})
    /\ handle' = Without(handle, {<<i, f>> : f \in ForkType})
    /\ UNCHANGED <<next_id, tables>>

\* Another session creates or deletes a file.
Others ==
    /\ \E n \in FileNames :
         \/ disk' = [disk EXCEPT !["Data"] = @ \cup {n}]
         \/ disk' = [f \in ForkType |-> disk[f] \ {n}]
    /\ UNCHANGED <<volume, tables>>

\* The session ends and another begins: the files are closed.
handle_session ==
    /\ nodes' = Empty /\ ids' = Empty /\ next_id' = 3 /\ handle' = Empty
    /\ forks' = Empty /\ access' = Empty /\ fork_pos' = Empty
    /\ dirty' = {} /\ locks' = [r \in 1 .. MaxRef |-> {}] /\ nextRef' = 1 /\ lapped' = FALSE
    /\ UNCHANGED disk

\* The session lists the directory: a file without an id gets one.
ensure_dir_populated ==
    /\ \E n \in disk["Data"] \ DOMAIN ids : AddNode(n)
    /\ UNCHANGED <<disk, handle, tables>>

-----------------------------------------------------------------------------
(* The commands on forks and their requests *)

FPOpenFork      == [i : DOMAIN nodes, f : ForkType, mode : Modes]
FPRead          == [r : DOMAIN forks, offset : 0 .. MaxPos]
FPWrite         == [r : DOMAIN forks, offset : 0 .. MaxPos, count : 1 .. MaxPos]
FPByteRangeLock == [r : DOMAIN forks, range : Ranges, unlock : BOOLEAN]

handle_open_fork       == \E q \in FPOpenFork : open_fork(q.i, q.f, q.mode)
handle_close_fork      == \E r \in DOMAIN forks : close_fork(r)
\* A smaller count is a short read.
handle_read            == \E q \in FPRead : read(q.r, q.offset, MaxPos + 1)
handle_write           == \E q \in FPWrite : write_fork(q.r, q.offset, q.count) \/ WriteSeekFails(q.r)
handle_set_fork_parms  == \E r \in DOMAIN forks : set_fork_parms(r)
handle_byte_range_lock == \E q \in FPByteRangeLock : byte_range_lock(q.r, q.range, q.unlock)
handle_flush           == sync
handle_flush_fork      == \E r \in DOMAIN forks : sync_fork(r)
handle_create_file     == \E n \in FileNames, hard \in BOOLEAN : create_file(n, hard)
handle_delete          == \E i \in DOMAIN nodes : delete(i)

Next ==
    \/ handle_open_fork \/ handle_close_fork
    \/ handle_read \/ handle_write
    \/ handle_set_fork_parms \/ handle_byte_range_lock
    \/ handle_flush \/ handle_flush_fork
    \/ handle_create_file \/ handle_delete
    \/ Others
    \/ ensure_dir_populated
    \/ handle_session

Spec == Init /\ [][Next]_vars

-----------------------------------------------------------------------------
(* Properties *)

\* Types
TypeOK ==
    /\ disk \in [ForkType -> SUBSET FileNames]
    /\ DOMAIN nodes \subseteq 3 .. MaxId /\ Range(nodes) \subseteq FileNames
    /\ DOMAIN ids \subseteq FileNames /\ Range(ids) \subseteq DOMAIN nodes
    /\ DOMAIN handle \subseteq (DOMAIN nodes) \X ForkType
    /\ \A h \in DOMAIN handle : handle[h] \in [pos : 0 .. MaxPos, unsynced : BOOLEAN]
    /\ next_id \in 3 .. MaxId + 1
    /\ DOMAIN forks \subseteq 1 .. MaxRef /\ nextRef \in 1 .. MaxRef
    /\ locks \in [1 .. MaxRef -> SUBSET Ranges]

\* A remembered position is where the handle stands, so that a read or a write that skips
\* its seek works at the offset the client asked for: after short reads, newline reads,
\* failed writes, resizes and numbers that came round (fork_pos).
ForkPosTrue ==
    \A r \in DOMAIN fork_pos : IsOpen(r) => fork_pos[r] = handle[forks[r]].pos

\* A fork written to since it was last synced is one that FPFlush will sync, also when the
\* write, or an earlier flush, failed (dirty_forks).
FlushMissesNothing ==
    \A h \in DOMAIN handle : handle[h].unsynced => h \in dirty

\* An open fork can be closed: a number leads to it, unless the numbers have come round to
\* a fork that was still open; and a number leads to an open fork or to a node that is
\* gone.  Locks are held under numbers of open forks only.
ForkTableTrue ==
    /\ lapped \/ \A h \in DOMAIN handle : \E r \in DOMAIN forks : forks[r] = h
    /\ \A r \in DOMAIN forks : \/ forks[r] \in DOMAIN handle
                               \/ forks[r][2] = "Resource" /\ forks[r][1] \notin DOMAIN nodes
    /\ \A r \in 1 .. MaxRef : locks[r] # {} => r \in DOMAIN forks
=============================================================================
