----------------------------- MODULE AfpVolume -----------------------------
(***************************************************************************)
(* The catalogue of an AFP volume: tailtalk/src/afp/volume.rs and          *)
(* desktop.rs, driven by the commands of server.rs.                        *)
(*                                                                         *)
(* Every session builds a Volume of its own: node ids are handed out per   *)
(* session, as directories are listed or looked up.  The disk, the         *)
(* resource-fork sidecars under .tailtalk/rsrc, and the comments and the   *)
(* registered applications of the desktop database are shared.  A session  *)
(* answers one command at a time; the commands of several sessions         *)
(* interleave.  The commands themselves are in AfpServer.                  *)
(*                                                                         *)
(* A path is a sequence of names.  A file or directory on disk is an       *)
(* object with an identity of its own, so that a property can tell that an *)
(* object was moved, replaced or lost; forks and comments are told apart   *)
(* by where they lie, and bytes are left to AfpForks.                      *)
(* Node id 1, the parent of the root, names nothing a command changes and  *)
(* is left out.  What looking a path up adds to the catalogue is an action *)
(* of its own, LookUp: a command that names an unknown path is LookUp      *)
(* followed by the command on what is then known, and one that fails is    *)
(* LookUp alone.                                                           *)
(***************************************************************************)
EXTENDS Naturals, Sequences, FiniteSets, SequencesExt

CONSTANTS
    Sessions,   \* the AFP sessions
    Names,      \* names of files and directories
    Tags,       \* the creator and tag an application is registered under
    MaxDepth,   \* bound: length of a path
    MaxNodes,   \* bound: nodes that two sessions hold between them, their roots aside
    MaxObj,     \* bound: files and directories ever created
    MaxNotes    \* bound: one more of these is made only while there are fewer comments,
                \* registrations, resource forks and their directories

ASSUME AfpVolumeAssumption ==
    /\ IsFiniteSet(Names)
    /\ MaxDepth \in Nat /\ MaxNodes \in Nat /\ MaxObj \in Nat /\ MaxNotes \in Nat

VARIABLES
    disk,       \* the volume's directory: a tree, below
    sidecar,    \* the tree of resource forks, under .tailtalk/rsrc
    comments,   \* the paths a Finder comment is stored under
    appls,      \* appls[t]: where the application registered under t is, below
    cat,        \* cat[s]: the catalogue of session s (nodes, path_to_id, ...)
    nextObj,    \* the next object's identity
    current     \* history: current[s] while no other session has changed the volume, and s has
                \* not moved a directory over nodes whose paths had gone

afpVars == <<disk, sidecar, comments, appls, cat, nextObj, current>>

Root  == 2
Paths == UNION {[1 .. k -> Names] : k \in 0 .. MaxDepth}
\* The new name of FPMoveAndRename and FPCopyFile may be left empty.
Keep     == <<>>
NewNames == {Keep} \cup {<<n>> : n \in Names}

-----------------------------------------------------------------------------
(* Trees.  A tree maps each path below its root to an object.              *)

Obj(dir, o)   == [dir |-> dir, obj |-> o]
Exists(t, p)  == p = <<>> \/ p \in DOMAIN t
IsDir(t, p)   == p = <<>> \/ (p \in DOMAIN t /\ t[p].dir)
IsFile(t, p)  == p \in DOMAIN t /\ ~t[p].dir
Children(t, p) == {n \in Names : Append(p, n) \in DOMAIN t}
Without(f, S) == [x \in DOMAIN f \ S |-> f[x]]
Over(f, g)    == [x \in DOMAIN f \cup DOMAIN g |-> IF x \in DOMAIN f THEN f[x] ELSE g[x]]
Put(f, x, v)  == Over([y \in {x} |-> v], f)
Empty         == [x \in {} |-> x]
Rebase(p, q, r) == q \o SubSeq(r, Len(p) + 1, Len(r))

\* rename(2): not into itself, over nothing, over a file, or over an empty directory.
CanRename(t, p, q) ==
    /\ p \in DOMAIN t /\ q # <<>> /\ IsDir(t, Front(q))
    /\ ~IsStrictPrefix(p, q)
    /\ p # q /\ q \in DOMAIN t => /\ t[p].dir = t[q].dir
                                  /\ Children(t, q) = {}
Renamed(t, p, q) ==
    LET from == {r \in DOMAIN t : IsPrefix(p, r)}
    IN  Over([r \in {Rebase(p, q, f) : f \in from} |-> t[Rebase(q, p, r)]], Without(t, from \cup {q}))

-----------------------------------------------------------------------------
(* The catalogue of a session *)

Node(path, dir, parent) == [path |-> path, dir |-> dir, parent |-> parent]

\* Volume::new
NewVolume ==
    [nodes |-> Put(Empty, Root, Node(<<>>, TRUE, 1)),
     ids   |-> Put(Empty, <<>>, Root),
     next  |-> Root + 1,
     cache |-> Empty]

\* A new node takes the path over, whichever node had it.
AddNode(c, path, dir, parent) ==
    [c EXCEPT !.nodes = Put(@, c.next, Node(path, dir, parent)),
              !.ids   = Put(@, path, c.next),
              !.next  = @ + 1]

resolve_node(c, d, p) ==
    IF d \notin DOMAIN c.nodes THEN 0
    ELSE IF p = <<>> THEN d
    ELSE LET full == c.nodes[d].path \o p
         IN  IF full \in DOMAIN c.ids THEN c.ids[full] ELSE 0

\* The children on disk that have no id get one.  read_dir's order is not specified; which
\* id goes to which child tells nothing apart.
ensure_dir_populated(c, d) ==
    LET dir == c.nodes[d].path
        new == {Append(dir, n) : n \in Children(disk, dir)} \ DOMAIN c.ids
        id  == CHOOSE f \in [new -> c.next .. c.next + Cardinality(new) - 1] : IsInjective(f)
        path(i) == CHOOSE p \in new : id[p] = i
    IN  [c EXCEPT !.nodes = Over(@, [i \in Range(id) |-> Node(path(i), IsDir(disk, path(i)), d)]),
                  !.ids   = Over(@, id),
                  !.next  = @ + Cardinality(new)]

\* The catalogue after resolve_node_lazy has looked d and p up.
resolve_node_lazy(c, d, p) ==
    IF \/ resolve_node(c, d, p) # 0
       \/ p = <<>>
       \/ d \notin DOMAIN c.nodes
       \/ ~IsDir(disk, c.nodes[d].path)
    THEN c
    ELSE ensure_dir_populated(c, d)

Clear(c) == [c EXCEPT !.cache = Empty]

\* Session s goes on with catalogue c.
Continue(s, c) ==
    /\ \A t \in Sessions \ {s} : c.next + cat[t].next <= 2 * (Root + 1) + MaxNodes
    /\ cat' = [cat EXCEPT ![s] = c]
\* Session s has changed the volume.
Changed(s) == current' = [t \in Sessions |-> current[t] /\ t = s]
Fresh      == nextObj <= MaxObj /\ nextObj' = nextObj + 1

NoteCount  == Cardinality(comments) + Cardinality(DOMAIN appls) + Cardinality(DOMAIN sidecar)

VolumeInit ==
    /\ disk = Empty /\ sidecar = Empty /\ comments = {} /\ appls = Empty
    /\ cat = [s \in Sessions |-> NewVolume]
    /\ nextObj = 1
    /\ current = [s \in Sessions |-> TRUE]

-----------------------------------------------------------------------------
(* Commands *)

\* FPGetFileParms, FPGetDirParms, FPGetFileDirParms and the commands that set those: the
\* node is looked up.  So does every command that fails.
LookUp(s, d, p) ==
    /\ resolve_node(cat[s], d, p) = 0
    /\ Continue(s, resolve_node_lazy(cat[s], d, p))
    /\ UNCHANGED <<disk, sidecar, comments, appls, nextObj, current>>

\* FPCreateDir: a directory that is there already will do, and so will a file; the node
\* known for the path is kept, and then the listings are too.
create_dir(s, d, n) ==
    LET c == cat[s]
        path == Append(c.nodes[d].path, n)
    IN  /\ d \in DOMAIN c.nodes /\ path \in Paths
        /\ IF Exists(disk, path)
           THEN UNCHANGED <<disk, nextObj, current>>
           ELSE /\ IsDir(disk, c.nodes[d].path)
                /\ disk' = Put(disk, path, Obj(TRUE, nextObj))
                /\ Fresh /\ Changed(s)
        /\ IF path \in DOMAIN c.ids
           THEN UNCHANGED cat
           ELSE Continue(s, Clear(AddNode(c, path, TRUE, d)))
        /\ UNCHANGED <<sidecar, comments, appls>>

\* FPCreateFile: a hard create removes the file that is there, and leaves its node, its
\* resource fork and its comment behind.
create_file(s, hard, d, n) ==
    LET c == cat[s]
        path == Append(c.nodes[d].path, n)
    IN  /\ d \in DOMAIN c.nodes /\ path \in Paths
        /\ IsDir(disk, c.nodes[d].path)
        /\ IF hard THEN ~IsDir(disk, path) ELSE ~Exists(disk, path)
        /\ disk' = Put(disk, path, Obj(FALSE, nextObj))
        /\ Fresh /\ Changed(s)
        /\ Continue(s, Clear(AddNode(c, path, FALSE, d)))
        /\ UNCHANGED <<sidecar, comments, appls>>

\* FPEnumerate, a page of one entry.  The first page takes a new snapshot of the
\* directory, a later one uses the snapshot that is there.
enumerate(s, d, p, first) ==
    LET c == cat[s]
        i == resolve_node(c, d, p)
        dir == c.nodes[i].path
        rebuild == first \/ i \notin DOMAIN c.cache
        entries == IF rebuild THEN {[name |-> n, dir |-> IsDir(disk, Append(dir, n))] : n \in Children(disk, dir)}
                              ELSE c.cache[i]
    IN  /\ i # 0 /\ c.nodes[i].dir
        /\ rebuild => IsDir(disk, dir)
        /\ IF entries = {}
           THEN Continue(s, [c EXCEPT !.cache = Without(@, {i})])
           ELSE \E e \in entries :
                  LET kept == [c EXCEPT !.cache = Put(@, i, entries)]
                      path == Append(dir, e.name)
                  IN  Continue(s, IF path \in DOMAIN c.ids THEN kept ELSE AddNode(kept, path, e.dir, i))
        /\ UNCHANGED <<disk, sidecar, comments, appls, nextObj, current>>

\* FPMoveAndRename, and FPRename within one directory.  The destination is checked in the
\* session's catalogue, the move is made on disk.  A file takes its resource fork along if
\* the sidecar can be renamed; a directory takes the nodes and the comments of what the
\* session knows below it, in no particular order.
Destination(c, i, j, n) == c.nodes[j].path \o (IF n = Keep THEN <<Last(c.nodes[i].path)>> ELSE n)
\* Seeded fault: the destination is not checked.
NoConflictUnchecked(c, old, new) == TRUE
NoConflict(c, old, new) == new = old \/ new \notin DOMAIN c.ids
Below(c, i) ==
    {k \in DOMAIN c.nodes \ {i} : c.nodes[i].dir /\ IsPrefix(c.nodes[i].path, c.nodes[k].path)}

\* The nodes of c, and the ids, once i has become new and what is below it has followed.
MovedNodes(c, i, j, new) ==
    [k \in DOMAIN c.nodes |->
        [c.nodes[k] EXCEPT !.path = IF k \in Below(c, i) \cup {i} THEN Rebase(c.nodes[i].path, new, @) ELSE @,
                           !.parent = IF k = i THEN j ELSE @]]
\* Seeded fault: what lies below a directory keeps its old paths.
MovedIdsAlone(c, i, new) == {Put(Without(c.ids, {c.nodes[i].path}), new, i)}
\* Of several nodes with one path the last one moved keeps it.
MovedIds(c, i, new) ==
    LET olds == {c.nodes[k].path : k \in Below(c, i) \cup {i}}
        news == {Rebase(c.nodes[i].path, new, p) : p \in olds}
        Owners(p) == {k \in Below(c, i) : Rebase(c.nodes[i].path, new, c.nodes[k].path) = p}
    IN  {Over(f, Without(c.ids, olds)) :
           f \in {g \in [news -> DOMAIN c.nodes] :
                    \A p \in news : g[p] \in IF Owners(p) = {} THEN {i} ELSE Owners(p)}}

\* Every node below a directory takes its path along, also one whose path leads nowhere by now,
\* or from a file to a directory: the file is gone, and its path is known again.
Revives(c, i) ==
    \E k \in Below(c, i) :
        LET p == c.nodes[k].path IN p \notin DOMAIN c.ids \/ (c.nodes[c.ids[p]].dir /\ ~c.nodes[k].dir)

MovedComments(c, i, new) ==
    LET old == c.nodes[i].path
        olds == {c.nodes[k].path : k \in Below(c, i) \cup {i}} \cap comments
    IN  (comments \ olds) \cup {Rebase(old, new, o) : o \in olds}

\* Seeded fault: the resource fork stays.
MovedSidecarNot(c, i, new) == sidecar
MovedSidecar(c, i, new) ==
    IF ~c.nodes[i].dir /\ CanRename(sidecar, c.nodes[i].path, new)
    THEN Renamed(sidecar, c.nodes[i].path, new) ELSE sidecar

\* Registrations are matched by the id of the directory the client named and the file's path
\* from the root of the volume, though a client registers a path below that directory.
Matches(a, dir, path) == a.dir = dir /\ a.path = path
MovedAppls(old, new, oldDir, newDir) ==
    [t \in DOMAIN appls |->
        IF Matches(appls[t], oldDir, old) THEN [appls[t] EXCEPT !.dir = newDir, !.path = new] ELSE appls[t]]

move_and_rename(s, d, p, e, q, n) ==
    LET c == cat[s]
        i == resolve_node(c, d, p)
        j == resolve_node(c, e, q)
        old == c.nodes[i].path
        new == Destination(c, i, j, n)
    IN  /\ i \notin {0, Root} /\ j # 0
        /\ c.nodes[j].dir
        /\ NoConflict(c, old, new)
        /\ new \in Paths /\ CanRename(disk, old, new)
        /\ \A k \in Below(c, i) : Rebase(old, new, c.nodes[k].path) \in Paths
        /\ disk' = Renamed(disk, old, new)
        /\ sidecar' = MovedSidecar(c, i, new)
        /\ comments' = MovedComments(c, i, new)
        /\ appls' = IF c.nodes[i].dir THEN appls ELSE MovedAppls(old, new, d, j)
        /\ \E ids \in MovedIds(c, i, new) :
             Continue(s, Clear([c EXCEPT !.nodes = MovedNodes(c, i, j, new), !.ids = ids]))
        /\ current' = [t \in Sessions |-> current[t] /\ t = s /\ ~Revives(c, i)]
        /\ UNCHANGED nextObj

\* A copy takes the registration along: it is stored under the creator and tag it has.
CopiedAppls(old, new, oldDir, newDir) ==
    [t \in DOMAIN appls |->
        IF Matches(appls[t], oldDir, old) THEN [dir |-> newDir, path |-> new] ELSE appls[t]]

\* FPCopyFile.  A file the session does not know of is overwritten.
copy_file(s, d, p, e, q, n) ==
    LET c == cat[s]
        i == resolve_node(c, d, p)
        j == resolve_node(c, e, q)
        old == c.nodes[i].path
        new == Destination(c, i, j, n)
        fork == Put(sidecar, new, Obj(FALSE, 0))
        parents == [r \in {SubSeq(new, 1, k) : k \in 1 .. Len(new) - 1} |-> Obj(TRUE, 0)]
    IN  /\ i # 0 /\ j # 0
        /\ ~c.nodes[i].dir /\ c.nodes[j].dir
        /\ new \notin DOMAIN c.ids
        /\ new \in Paths /\ IsFile(disk, old) /\ IsDir(disk, Front(new)) /\ ~IsDir(disk, new)
        /\ disk' = Put(disk, new, Obj(FALSE, nextObj))
        /\ sidecar' = IF IsFile(sidecar, old) /\ ~IsDir(sidecar, new)
                         /\ \A r \in DOMAIN parents : ~IsFile(sidecar, r)
                      THEN Over(fork, parents) ELSE sidecar
        /\ comments' = IF old \in comments THEN comments \cup {new} ELSE comments
        /\ appls' = CopiedAppls(old, new, d, j)
        /\ Fresh /\ Changed(s)
        /\ Continue(s, Clear(AddNode(c, new, FALSE, j)))

Deletable(path, dir) ==
    IF dir THEN IsDir(disk, path) /\ Children(disk, path) = {} ELSE IsFile(disk, path)
\* FPDelete.  (A file whose data fork this session has open is refused: AfpForks.)
delete(s, d, p) ==
    LET c == cat[s]
        i == resolve_node(c, d, p)
        path == c.nodes[i].path
    IN  /\ i \notin {0, Root}
        /\ Deletable(path, c.nodes[i].dir)
        /\ disk' = Without(disk, {path})
        /\ sidecar' = IF ~c.nodes[i].dir /\ IsFile(sidecar, path)
                      THEN Without(sidecar, {path}) ELSE sidecar
        /\ comments' = comments \ {path}
        /\ appls' = IF c.nodes[i].dir THEN appls
                    ELSE Without(appls, {t \in DOMAIN appls : Matches(appls[t], c.nodes[i].parent, path)})
        /\ Continue(s, Clear([c EXCEPT !.nodes = Without(@, {i}), !.ids = Without(@, {path})]))
        /\ Changed(s)
        /\ UNCHANGED nextObj

\* FPOpenFork of a resource fork: the sidecar, and the directories it lies in, are made.
open_resource_fork(s, d, p) ==
    LET c == cat[s]
        i == resolve_node(c, d, p)
        path == c.nodes[i].path
        parents == [r \in {SubSeq(path, 1, k) : k \in 1 .. Len(path) - 1} |-> Obj(TRUE, 0)]
    IN  /\ i \notin {0, Root} /\ ~Exists(sidecar, path)
        /\ NoteCount < MaxNotes
        /\ \A r \in DOMAIN parents : ~IsFile(sidecar, r)
        /\ sidecar' = Over(Put(sidecar, path, Obj(FALSE, 0)), parents)
        /\ Continue(s, c)
        /\ UNCHANGED <<disk, comments, appls, nextObj, current>>

\* FPAddComment and FPRemoveComment: what the session has not listed is not found.
set_comment(s, d, p) ==
    LET i == resolve_node(cat[s], d, p)
        path == cat[s].nodes[i].path
    IN  /\ i \notin {0, Root}
        /\ NoteCount < MaxNotes
        /\ comments' = comments \cup {path}
        /\ UNCHANGED <<disk, sidecar, appls, cat, nextObj, current>>
remove_comment(s, d, p) ==
    LET i == resolve_node(cat[s], d, p)
    IN  /\ i # 0 /\ cat[s].nodes[i].path \in comments
        /\ comments' = comments \ {cat[s].nodes[i].path}
        /\ UNCHANGED <<disk, sidecar, appls, cat, nextObj, current>>

\* FPAddAPPL and FPRemoveAPPL: the directory and the path are taken as the client gives
\* them.
add_appl(tag, d, p) ==
    /\ appls' = Put(appls, tag, [dir |-> d, path |-> p])
    /\ UNCHANGED <<disk, sidecar, comments, cat, nextObj, current>>
remove_appl(d, p) ==
    /\ \E t \in {u \in DOMAIN appls : Matches(appls[u], d, p)} : appls' = Without(appls, {t})
    /\ UNCHANGED <<disk, sidecar, comments, cat, nextObj, current>>

-----------------------------------------------------------------------------
(* Properties *)

\* Every path a session knows is the path of the node it leads to, through renames of the
\* directories above it and hard creates over it; and as long as no other session has
\* changed the volume, there is something on disk under it (path_to_id and nodes).
CatalogueTrue ==
    \A s \in Sessions : \A p \in DOMAIN cat[s].ids :
        /\ cat[s].ids[p] \in DOMAIN cat[s].nodes
        /\ cat[s].nodes[cat[s].ids[p]].path = p
        /\ current[s] => Exists(disk, p)

\* The snapshot a later page of FPEnumerate is cut from is the directory as it is, unless
\* another session has changed the volume: whatever this session does to the volume drops
\* its snapshots (enum_cache).
SnapshotCurrent ==
    \A s \in Sessions : \A d \in DOMAIN cat[s].cache \cap DOMAIN cat[s].nodes :
        current[s] => {e.name : e \in cat[s].cache[d]} = Children(disk, cat[s].nodes[d].path)

\* Together: what a session remembers of the volume is true of it.
MemoryTrue == CatalogueTrue /\ SnapshotCurrent

\* The object under p was moved to q by session s.
MovedBy(s, p, q) ==
    /\ p # q /\ p \in DOMAIN disk /\ q \in DOMAIN disk'
    /\ disk[p].obj = disk'[q].obj
    /\ cat'[s] # cat[s]

\* A move puts an object in the place of another only where the session that moves it
\* did not know of the other: the conflict check of move_and_rename asks the catalogue,
\* not the disk, and rename(2) replaces what is there.
OverwriteOnlyUnlisted ==
    [][disk' # disk => \A s \in Sessions, p \in DOMAIN disk, q \in DOMAIN disk :
         MovedBy(s, p, q) => q \notin DOMAIN cat[s].ids]_afpVars

\* What session s takes p for, if it knows p.
TakesForDir(s, p)  == p \in DOMAIN cat[s].ids => cat[s].nodes[cat[s].ids[p]].dir
TakesForFile(s, p) == p \in DOMAIN cat[s].ids => ~cat[s].nodes[cat[s].ids[p]].dir

\* The comment of a file or directory goes where it goes, also when a directory above it
\* is renamed, provided the session that renames it has a node for it, and takes what lies
\* above it for directories (move_comment).
CommentFollows ==
    disk' # disk => \A s \in Sessions, p \in comments, q \in Paths :
         /\ MovedBy(s, p, q)
         /\ \E i \in DOMAIN cat[s].nodes : cat[s].nodes[i].path = p
         /\ \A k \in 1 .. Len(p) - 1 : TakesForDir(s, SubSeq(p, 1, k))
         => p \notin comments' /\ q \in comments'

\* The resource fork of a file goes where the file goes when the file itself is moved, if
\* the sidecar tree has the directory it is to lie in; where it has not, or where a
\* directory above the file is renamed, the fork stays behind (move_and_rename).
ForkFollowsFile ==
    disk' # disk => \A s \in Sessions, p \in DOMAIN sidecar, q \in Paths :
         /\ MovedBy(s, p, q) /\ IsFile(disk, p) /\ TakesForFile(s, p)
         /\ IsFile(sidecar, p) /\ IsDir(sidecar, Front(q)) /\ ~IsDir(sidecar, q)
         /\ Front(p) = <<>> \/ (IsDir(disk', Front(p)) /\ disk'[Front(p)] = disk[Front(p)])
         => q \in DOMAIN sidecar' /\ sidecar'[q] = sidecar[p] /\ p \notin DOMAIN sidecar'

\* The registration of an application in the root goes where the application goes, moved
\* by any session that takes it for a file, and by its new directory's id in that session
\* (move_appl_path).  In the root the path a client registers and the path from the root
\* are the same; elsewhere they are not, and a registration does not follow its file.
RootApplFollows ==
    disk' # disk => \A s \in Sessions, t \in DOMAIN appls, q \in Paths :
         LET p == appls[t].path
         IN  /\ appls[t].dir = Root /\ Len(p) = 1
             /\ MovedBy(s, p, q) /\ IsFile(disk, p) /\ TakesForFile(s, p)
             => appls'[t].path = q /\ cat'[s].nodes[appls'[t].dir].path = Front(q)

\* Together: a move takes along all that is kept about what it moves.
AllFollows == [][CommentFollows /\ ForkFollowsFile /\ RootApplFollows]_afpVars
=============================================================================
