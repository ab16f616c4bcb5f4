----------------------------- MODULE AfpServer -----------------------------
(***************************************************************************)
(* The AFP server's commands on the catalogue: tailtalk/src/afp/server.rs  *)
(* with the requests of tailtalk-packets/src/afp/commands.rs.              *)
(*                                                                         *)
(* A request is what its parser takes from the command: the id of a        *)
(* directory, a path below it and the flags that matter.  A request that   *)
(* cannot be parsed, and one that Volume refuses, is answered with an      *)
(* error and changes nothing but what looking its path up has added.  The  *)
(* commands that only report (server and volume parameters, icons,         *)
(* comments and registrations read back) change nothing and are left out,  *)
(* and so are the icons; the commands on open forks are in AfpForks.       *)
(***************************************************************************)
EXTENDS AfpVolume

-----------------------------------------------------------------------------
(* Requests.  A node is named by its own id, or by its name and the id of  *)
(* what the client was told is a directory: one it knows, or one that is   *)
(* there to be looked up.                                                  *)

Ids(s)    == DOMAIN cat[s].nodes
Dirs(s)   == {i \in Ids(s) : cat[s].nodes[i].dir}
Itself(s) == [d : Ids(s), p : {<<>>}]
Named(s)  == {r \in [d : Dirs(s), p : {<<n>> : n \in Names}] : resolve_node(cat[s], r.d, r.p) # 0}
NotYet(s) == {r \in [d : Dirs(s), p : {<<n>> : n \in Names}] : cat[s].nodes[r.d].path \o r.p \in DOMAIN disk \ DOMAIN cat[s].ids}

FPGetFileParms(s)    == NotYet(s)
FPGetDirParms(s)     == NotYet(s)
FPGetFileDirParms(s) == NotYet(s)
FPSetFileParms(s)    == NotYet(s)
FPSetDirParms(s)     == NotYet(s)
FPSetFileDirParms(s) == NotYet(s)
FPCreateDir(s)       == [d : Dirs(s), n : Names]
FPCreateFile(s)      == [hard : BOOLEAN, d : Dirs(s), n : Names]
FPEnumerate(s)       == [d : Ids(s), p : {<<>>}, first : BOOLEAN]
FPDelete(s)          == Itself(s)
FPOpenFork(s)        == Itself(s)
FPAddComment(s)      == Itself(s)
FPRemoveComment(s)   == Itself(s)
FPMoveAndRename(s)   == [src : Named(s), e : Dirs(s), n : NewNames]
FPRename(s)          == [src : Named(s), n : NewNames \ {Keep}]
FPCopyFile(s)        == [src : Named(s), e : Dirs(s), n : NewNames]
FPAddAPPL(s)         == [tag : Tags, app : Named(s)]
FPRemoveAPPL(s)      == {[d |-> appls[t].dir, p |-> appls[t].path] : t \in DOMAIN appls}

-----------------------------------------------------------------------------
(* Handlers *)

\* What is read and what is set goes with the file or directory itself.
handle_parms(s)          == \E r \in FPGetFileParms(s) \cup FPGetDirParms(s) \cup FPSetFileParms(s) : LookUp(s, r.d, r.p)
handle_file_dir_parms(s) == \E r \in FPGetFileDirParms(s) \cup FPSetFileDirParms(s) : LookUp(s, r.d, r.p)
handle_set_dir_parms(s)  == \E r \in FPSetDirParms(s) : LookUp(s, r.d, r.p)
handle_create_dir(s)         == \E r \in FPCreateDir(s) : create_dir(s, r.d, r.n)
handle_create_file(s)        == \E r \in FPCreateFile(s) : create_file(s, r.hard, r.d, r.n)
handle_enumerate(s)          == \E r \in FPEnumerate(s) : enumerate(s, r.d, r.p, r.first)
handle_delete(s)             == \E r \in FPDelete(s) : delete(s, r.d, r.p)
handle_open_fork(s)          == \E r \in FPOpenFork(s) : open_resource_fork(s, r.d, r.p)
handle_add_comment(s)        == \E r \in FPAddComment(s) : set_comment(s, r.d, r.p)
handle_remove_comment(s)     == \E r \in FPRemoveComment(s) : remove_comment(s, r.d, r.p)
\* FPRename moves within the directory named.
handle_move_and_rename(s)    == \E r \in FPMoveAndRename(s) : move_and_rename(s, r.src.d, r.src.p, r.e, <<>>, r.n)
handle_rename(s)             == \E r \in FPRename(s) : move_and_rename(s, r.src.d, r.src.p, r.src.d, <<>>, r.n)
handle_copy_file(s)          == \E r \in FPCopyFile(s) : copy_file(s, r.src.d, r.src.p, r.e, <<>>, r.n)
handle_remove_appl(s)        == \E r \in FPRemoveAPPL(s) : remove_appl(r.d, r.p)
\* A client registers an application it sees.
handle_add_appl(s) ==
    /\ NoteCount < MaxNotes
    /\ \E r \in FPAddAPPL(s) :
         /\ IsFile(disk, cat[s].nodes[r.app.d].path \o r.app.p)
         /\ add_appl(r.tag, r.app.d, r.app.p)

\* FPLogout or a closed session; the client's next session starts with a Volume of its own.
Logout(s) ==
    /\ cat' = [cat EXCEPT ![s] = NewVolume]
    /\ current' = [current EXCEPT ![s] = TRUE]
    /\ UNCHANGED <<disk, sidecar, comments, appls, nextObj>>

\* One session, one command.
handle_session(s) ==
    \/ handle_parms(s) \/ handle_file_dir_parms(s) \/ handle_set_dir_parms(s)
    \/ handle_create_dir(s) \/ handle_create_file(s) \/ handle_enumerate(s)
    \/ handle_delete(s) \/ handle_open_fork(s)
    \/ handle_add_comment(s) \/ handle_remove_comment(s)
    \/ handle_move_and_rename(s) \/ handle_rename(s) \/ handle_copy_file(s)
    \/ handle_add_appl(s) \/ handle_remove_appl(s)
    \/ Logout(s)

AfpNext == \E s \in Sessions : handle_session(s)
AfpSpec == VolumeInit /\ [][AfpNext]_afpVars
=============================================================================
