------------------------------ MODULE NfsTypes ------------------------------
(* Objects of the classes of rfc1813/types.py, as records. For a seed k,    *)
(* C(k) is a set of objects of class C in which every arm of every union,   *)
(* every boolean and every length of a list up to two occurs, and whose     *)
(* scalars are all different, so that two fields put in the wrong order     *)
(* cannot go unnoticed. The linked lists take the number n of elements that *)
(* may follow. The formatting of __repr__ is left out.                      *)
EXTENDS NfsConst, FiniteSets, SequencesExt

\* One object of every scalar type for each seed; seeds stay below 100.
uint32(k) == {k}
uint64(k) == {<<k, k + 1>>}
text(k) == {[i \in 1..(k % 5) |-> k + i]}
verf3(k) == {[i \in 1..8 |-> k + i]}
sample(S, k) == {SetToSortSeq(S, <)[1 + (k % Cardinality(S))]}
Upto1(S) == {<<>>} \cup {<<x>> : x \in S}
Upto2(S) == Upto1(S) \cup {<<x, y>> : x, y \in S}

RECURSIVE entry3(_, _), entryplus3(_, _), mount3(_, _), groups3(_, _), exports3(_, _),
  pmaplistelem(_, _)

specdata3(k) == [specdata1 : uint32(k), specdata2 : uint32(k + 1)]
nfs_fh3(k) == [data : text(k)]
nfstime3(k) == [seconds : uint32(k), nseconds : uint32(k + 1)]
fattr3(k) ==
  [ftype : sample(ftype3, k), mode : uint32(k + 1), nlink : uint32(k + 2), uid : uint32(k + 3),
   gid : uint32(k + 4), size : uint64(k + 5), used : uint64(k + 7), rdev : specdata3(k + 9),
   fsid : uint64(k + 11), fileid : uint64(k + 13), atime : nfstime3(k + 15),
   mtime : nfstime3(k + 17), ctime : nfstime3(k + 19)]
post_op_attr(k) ==
  [attributes_follow : {TRUE}, attributes : fattr3(k + 1)]
  \cup [attributes_follow : {FALSE}]
wcc_attr(k) == [size : uint64(k), mtime : nfstime3(k + 2), ctime : nfstime3(k + 4)]
pre_op_attr(k) ==
  [attributes_follow : {TRUE}, attributes : wcc_attr(k + 1)]
  \cup [attributes_follow : {FALSE}]
wcc_data(k) == [before : pre_op_attr(k), after : post_op_attr(k + 7)]
post_op_fh3(k) ==
  [handle_follows : {TRUE}, handle : nfs_fh3(k + 1)]
  \cup [handle_follows : {FALSE}]
set_mode3(k) == [set_it : {TRUE}, mode : uint32(k + 1)] \cup [set_it : {FALSE}]
set_uid3(k) == [set_it : {TRUE}, uid : uint32(k + 1)] \cup [set_it : {FALSE}]
set_gid3(k) == [set_it : {TRUE}, gid : uint32(k + 1)] \cup [set_it : {FALSE}]
set_size3(k) == [set_it : {TRUE}, size : uint64(k + 1)] \cup [set_it : {FALSE}]
set_atime(k) ==
  [set_it : {SET_TO_CLIENT_TIME}, atime : nfstime3(k + 1)]
  \cup [set_it : {SET_TO_SERVER_TIME}]
set_mtime(k) ==
  [set_it : {SET_TO_CLIENT_TIME}, mtime : nfstime3(k + 1)]
  \cup [set_it : {DONT_CHANGE}]
sattr3(k) ==
  [mode : set_mode3(k), uid : set_uid3(k + 2), gid : set_gid3(k + 4), size : set_size3(k + 6),
   atime : set_atime(k + 9), mtime : set_mtime(k + 12)]
diropargs3(k) == [dir : nfs_fh3(k), name : text(k + 1)]
GETATTR3args(k) == [object : nfs_fh3(k)]
GETATTR3resok(k) == [obj_attributes : fattr3(k)]
GETATTR3res(k) ==
  [status : {NFS3_OK}, resok : GETATTR3resok(k + 1)]
  \cup [status : {NFS3ERR_PERM, NFS3ERR_JUKEBOX}]
sattrguard3(k) == [check : {TRUE}, obj_ctime : nfstime3(k + 1)] \cup [check : {FALSE}]
SETATTR3args(k) ==
  [object : nfs_fh3(k), new_attributes : sattr3(k + 1), guard : sattrguard3(k + 16)]
SETATTR3resok(k) == [obj_wcc : wcc_data(k)]
SETATTR3resfail(k) == [obj_wcc : wcc_data(k)]
SETATTR3res(k) ==
  [status : {NFS3_OK}, resok : SETATTR3resok(k + 1)]
  \cup [status : {NFS3ERR_PERM, NFS3ERR_JUKEBOX}, resfail : SETATTR3resfail(k + 1)]
LOOKUP3args(k) == [what : diropargs3(k)]
LOOKUP3resok(k) ==
  [object : nfs_fh3(k), obj_attributes : post_op_attr(k + 1),
   dir_attributes : post_op_attr(k + 23)]
LOOKUP3resfail(k) == [dir_attributes : post_op_attr(k)]
LOOKUP3res(k) ==
  [status : {NFS3_OK}, resok : LOOKUP3resok(k + 1)]
  \cup [status : {NFS3ERR_PERM, NFS3ERR_JUKEBOX}, resfail : LOOKUP3resfail(k + 1)]
ACCESS3args(k) == [object : nfs_fh3(k), access : uint32(k + 1)]
ACCESS3resok(k) == [obj_attributes : post_op_attr(k), access : uint32(k + 22)]
ACCESS3resfail(k) == [obj_attributes : post_op_attr(k)]
ACCESS3res(k) ==
  [status : {NFS3_OK}, resok : ACCESS3resok(k + 1)]
  \cup [status : {NFS3ERR_PERM, NFS3ERR_JUKEBOX}, resfail : ACCESS3resfail(k + 1)]
READLINK3args(k) == [symlink : nfs_fh3(k)]
READLINK3resok(k) == [symlink_attributes : post_op_attr(k), data : text(k + 22)]
READLINK3resfail(k) == [symlink_attributes : post_op_attr(k)]
READLINK3res(k) ==
  [status : {NFS3_OK}, resok : READLINK3resok(k + 1)]
  \cup [status : {NFS3ERR_PERM, NFS3ERR_JUKEBOX}, resfail : READLINK3resfail(k + 1)]
READ3args(k) == [file : nfs_fh3(k), offset : uint64(k + 1), count : uint32(k + 3)]
READ3resok(k) ==
  [file_attributes : post_op_attr(k), count : uint32(k + 22), eof : BOOLEAN, data : text(k + 24)]
READ3resfail(k) == [file_attributes : post_op_attr(k)]
READ3res(k) ==
  [status : {NFS3_OK}, resok : READ3resok(k + 1)]
  \cup [status : {NFS3ERR_PERM, NFS3ERR_JUKEBOX}, resfail : READ3resfail(k + 1)]
WRITE3args(k) ==
  [file : nfs_fh3(k), offset : uint64(k + 1), count : uint32(k + 3), stable : sample(stable_how, k + 4),
   data : text(k + 5)]
WRITE3resok(k) ==
  [file_wcc : wcc_data(k), count : uint32(k + 29), committed : sample(stable_how, k + 30),
   verf : verf3(k + 31)]
WRITE3resfail(k) == [file_wcc : wcc_data(k)]
WRITE3res(k) ==
  [status : {NFS3_OK}, resok : WRITE3resok(k + 1)]
  \cup [status : {NFS3ERR_PERM, NFS3ERR_JUKEBOX}, resfail : WRITE3resfail(k + 1)]
createhow3(k) ==
  [mode : {UNCHECKED, GUARDED}, obj_attributes : sattr3(k + 1)]
  \cup [mode : {EXCLUSIVE}, verf : verf3(k + 1)]
CREATE3args(k) == [where : diropargs3(k), how : createhow3(k + 2)]
CREATE3resok(k) ==
  [obj : post_op_fh3(k), obj_attributes : post_op_attr(k + 2), dir_wcc : wcc_data(k + 24)]
CREATE3resfail(k) == [dir_wcc : wcc_data(k)]
CREATE3res(k) ==
  [status : {NFS3_OK}, resok : CREATE3resok(k + 1)]
  \cup [status : {NFS3ERR_PERM, NFS3ERR_JUKEBOX}, resfail : CREATE3resfail(k + 1)]
MKDIR3args(k) == [where : diropargs3(k), attributes : sattr3(k + 2)]
MKDIR3resok(k) ==
  [obj : post_op_fh3(k), obj_attributes : post_op_attr(k + 2), dir_wcc : wcc_data(k + 24)]
MKDIR3resfail(k) == [dir_wcc : wcc_data(k)]
MKDIR3res(k) ==
  [status : {NFS3_OK}, resok : MKDIR3resok(k + 1)]
  \cup [status : {NFS3ERR_PERM, NFS3ERR_JUKEBOX}, resfail : MKDIR3resfail(k + 1)]
symlinkdata3(k) == [symlink_attributes : sattr3(k), symlink_data : text(k + 15)]
SYMLINK3args(k) == [where : diropargs3(k), symlink : symlinkdata3(k + 2)]
SYMLINK3resok(k) ==
  [obj : post_op_fh3(k), obj_attributes : post_op_attr(k + 2), dir_wcc : wcc_data(k + 24)]
SYMLINK3resfail(k) == [dir_wcc : wcc_data(k)]
SYMLINK3res(k) ==
  [status : {NFS3_OK}, resok : SYMLINK3resok(k + 1)]
  \cup [status : {NFS3ERR_PERM, NFS3ERR_JUKEBOX}, resfail : SYMLINK3resfail(k + 1)]
devicedata3(k) == [dev_attributes : sattr3(k), spec : specdata3(k + 15)]
mknoddata3(k) ==
  [ftype : {NF3CHR, NF3BLK}, device : devicedata3(k + 1)]
  \cup [ftype : {NF3SOCK, NF3FIFO}, pipe_attributes : sattr3(k + 1)]
  \cup [ftype : {NF3REG}]
MKNOD3args(k) == [where : diropargs3(k), what : mknoddata3(k + 2)]
MKNOD3resok(k) ==
  [obj : post_op_fh3(k), obj_attributes : post_op_attr(k + 2), dir_wcc : wcc_data(k + 24)]
MKNOD3resfail(k) == [dir_wcc : wcc_data(k)]
MKNOD3res(k) ==
  [status : {NFS3_OK}, resok : MKNOD3resok(k + 1)]
  \cup [status : {NFS3ERR_PERM, NFS3ERR_JUKEBOX}, resfail : MKNOD3resfail(k + 1)]
REMOVE3args(k) == [object : diropargs3(k)]
REMOVE3resok(k) == [dir_wcc : wcc_data(k)]
REMOVE3resfail(k) == [dir_wcc : wcc_data(k)]
REMOVE3res(k) ==
  [status : {NFS3_OK}, resok : REMOVE3resok(k + 1)]
  \cup [status : {NFS3ERR_PERM, NFS3ERR_JUKEBOX}, resfail : REMOVE3resfail(k + 1)]
RMDIR3args(k) == [object : diropargs3(k)]
RMDIR3resok(k) == [dir_wcc : wcc_data(k)]
RMDIR3resfail(k) == [dir_wcc : wcc_data(k)]
RMDIR3res(k) ==
  [status : {NFS3_OK}, resok : RMDIR3resok(k + 1)]
  \cup [status : {NFS3ERR_PERM, NFS3ERR_JUKEBOX}, resfail : RMDIR3resfail(k + 1)]
RENAME3args(k) == [xfrom : diropargs3(k), xto : diropargs3(k + 2)]
RENAME3resok(k) == [fromdir_wcc : wcc_data(k), todir_wcc : wcc_data(k + 29)]
RENAME3resfail(k) == [fromdir_wcc : wcc_data(k), todir_wcc : wcc_data(k + 29)]
RENAME3res(k) ==
  [status : {NFS3_OK}, resok : RENAME3resok(k + 1)]
  \cup [status : {NFS3ERR_PERM, NFS3ERR_JUKEBOX}, resfail : RENAME3resfail(k + 1)]
LINK3args(k) == [file : nfs_fh3(k), link : diropargs3(k + 1)]
LINK3resok(k) == [file_attributes : post_op_attr(k), linkdir_wcc : wcc_data(k + 22)]
LINK3resfail(k) == [file_attributes : post_op_attr(k), linkdir_wcc : wcc_data(k + 22)]
LINK3res(k) ==
  [status : {NFS3_OK}, resok : LINK3resok(k + 1)]
  \cup [status : {NFS3ERR_PERM, NFS3ERR_JUKEBOX}, resfail : LINK3resfail(k + 1)]
READDIR3args(k) ==
  [dir : nfs_fh3(k), cookie : uint64(k + 1), cookieverf : verf3(k + 3), count : uint32(k + 4)]
entry3(k, n) ==
  [fileid : uint64(k), name : text(k + 2), cookie : uint64(k + 3),
   nextentry : IF n = 0 THEN {<<>>} ELSE Upto1(entry3(k + 5, n - 1))]
dirlist3(k) == [entries : Upto1(entry3(k, 1)), eof : BOOLEAN]
READDIR3resok(k) ==
  [dir_attributes : post_op_attr(k), cookieverf : verf3(k + 22), reply : dirlist3(k + 23)]
READDIR3resfail(k) == [dir_attributes : post_op_attr(k)]
READDIR3res(k) ==
  [status : {NFS3_OK}, resok : READDIR3resok(k + 1)]
  \cup [status : {NFS3ERR_PERM, NFS3ERR_JUKEBOX}, resfail : READDIR3resfail(k + 1)]
READDIRPLUS3args(k) ==
  [dir : nfs_fh3(k), cookie : uint64(k + 1), cookieverf : verf3(k + 3), dircount : uint32(k + 4),
   maxcount : uint32(k + 5)]
entryplus3(k, n) ==
  [fileid : uint64(k), name : text(k + 2), cookie : uint64(k + 3),
   name_attributes : post_op_attr(k + 5), name_handle : post_op_fh3(k + 27),
   nextentry : IF n = 0 THEN {<<>>} ELSE Upto1(entryplus3(k + 29, n - 1))]
dirlistplus3(k) == [entries : Upto1(entryplus3(k, 1)), eof : BOOLEAN]
READDIRPLUS3resok(k) ==
  [dir_attributes : post_op_attr(k), cookieverf : verf3(k + 22), reply : dirlistplus3(k + 23)]
READDIRPLUS3resfail(k) == [dir_attributes : post_op_attr(k)]
READDIRPLUS3res(k) ==
  [status : {NFS3_OK}, resok : READDIRPLUS3resok(k + 1)]
  \cup [status : {NFS3ERR_PERM, NFS3ERR_JUKEBOX}, resfail : READDIRPLUS3resfail(k + 1)]
FSSTAT3args(k) == [fsroot : nfs_fh3(k)]
FSSTAT3resok(k) ==
  [obj_attributes : post_op_attr(k), tbytes : uint64(k + 22), fbytes : uint64(k + 24),
   abytes : uint64(k + 26), tfiles : uint64(k + 28), ffiles : uint64(k + 30),
   afiles : uint64(k + 32), invarsec : uint32(k + 34)]
FSSTAT3resfail(k) == [obj_attributes : post_op_attr(k)]
FSSTAT3res(k) ==
  [status : {NFS3_OK}, resok : FSSTAT3resok(k + 1)]
  \cup [status : {NFS3ERR_PERM, NFS3ERR_JUKEBOX}, resfail : FSSTAT3resfail(k + 1)]
FSINFO3args(k) == [fsroot : nfs_fh3(k)]
FSINFO3resok(k) ==
  [obj_attributes : post_op_attr(k), rtmax : uint32(k + 22), rtpref : uint32(k + 23),
   rtmult : uint32(k + 24), wtmax : uint32(k + 25), wtpref : uint32(k + 26),
   wtmult : uint32(k + 27), dtpref : uint32(k + 28), maxfilesize : uint64(k + 29),
   time_delta : nfstime3(k + 31), properties : uint32(k + 33)]
FSINFO3resfail(k) == [obj_attributes : post_op_attr(k)]
FSINFO3res(k) ==
  [status : {NFS3_OK}, resok : FSINFO3resok(k + 1)]
  \cup [status : {NFS3ERR_PERM, NFS3ERR_JUKEBOX}, resfail : FSINFO3resfail(k + 1)]
PATHCONF3args(k) == [object : nfs_fh3(k)]
PATHCONF3resok(k) ==
  [obj_attributes : post_op_attr(k), linkmax : uint32(k + 22), name_max : uint32(k + 23),
   no_trunc : BOOLEAN, chown_restricted : BOOLEAN, case_insensitive : BOOLEAN,
   case_preserving : BOOLEAN]
PATHCONF3resfail(k) == [obj_attributes : post_op_attr(k)]
PATHCONF3res(k) ==
  [status : {NFS3_OK}, resok : PATHCONF3resok(k + 1)]
  \cup [status : {NFS3ERR_PERM, NFS3ERR_JUKEBOX}, resfail : PATHCONF3resfail(k + 1)]
COMMIT3args(k) == [file : nfs_fh3(k), offset : uint64(k + 1), count : uint32(k + 3)]
COMMIT3resok(k) == [file_wcc : wcc_data(k), verf : verf3(k + 29)]
COMMIT3resfail(k) == [file_wcc : wcc_data(k)]
COMMIT3res(k) ==
  [status : {NFS3_OK}, resok : COMMIT3resok(k + 1)]
  \cup [status : {NFS3ERR_PERM, NFS3ERR_JUKEBOX}, resfail : COMMIT3resfail(k + 1)]
mountres3_ok(k) == [fhandle : text(k), auth_flavors : Upto2(uint32(k + 1))]
mountres3(k) ==
  [fhs_status : {MNT3_OK}, mountinfo : mountres3_ok(k + 1)]
  \cup [fhs_status : {MNT3ERR_PERM, MNT3ERR_SERVERFAULT}]
mount3(k, n) ==
  [ml_hostname : text(k), ml_directory : text(k + 1),
   ml_next : IF n = 0 THEN {<<>>} ELSE Upto1(mount3(k + 2, n - 1))]
groups3(k, n) ==
  [gr_name : text(k), gr_next : IF n = 0 THEN {<<>>} ELSE Upto1(groups3(k + 1, n - 1))]
exports3(k, n) ==
  [ex_dir : text(k), ex_groups : IF n = 0 THEN {<<>>} ELSE Upto1(groups3(k + 1, n - 1)),
   ex_next : IF n = 0 THEN {<<>>} ELSE Upto1(exports3(k + 3, n - 1))]
auth_unix(k) ==
  [stamp : uint32(k), machinename : text(k + 1), uid : uint32(k + 2), gid : uint32(k + 3),
   gids : Upto2(uint32(k + 4))]
mapping(k) == [prog : uint32(k), vers : uint32(k + 1), prot : uint32(k + 2), port : uint32(k + 3)]
pmaplistelem(k, n) ==
  [map : mapping(k), next : IF n = 0 THEN {<<>>} ELSE Upto1(pmaplistelem(k + 4, n - 1))]
call_args(k) == [prog : uint32(k), vers : uint32(k + 1), proc : uint32(k + 2), args : text(k + 3)]
call_result(k) == [port : uint32(k), res : text(k + 1)]

\* what a method can be given and can return, by the name of the type
Objects(k) ==
  [GETATTR3args |-> GETATTR3args(k), GETATTR3res |-> GETATTR3res(k),
   SETATTR3args |-> SETATTR3args(k), SETATTR3res |-> SETATTR3res(k),
   LOOKUP3args |-> LOOKUP3args(k), LOOKUP3res |-> LOOKUP3res(k),
   ACCESS3args |-> ACCESS3args(k), ACCESS3res |-> ACCESS3res(k),
   READLINK3args |-> READLINK3args(k), READLINK3res |-> READLINK3res(k),
   READ3args |-> READ3args(k), READ3res |-> READ3res(k), WRITE3args |-> WRITE3args(k),
   WRITE3res |-> WRITE3res(k), CREATE3args |-> CREATE3args(k), CREATE3res |-> CREATE3res(k),
   MKDIR3args |-> MKDIR3args(k), MKDIR3res |-> MKDIR3res(k), SYMLINK3args |-> SYMLINK3args(k),
   SYMLINK3res |-> SYMLINK3res(k), MKNOD3args |-> MKNOD3args(k), MKNOD3res |-> MKNOD3res(k),
   REMOVE3args |-> REMOVE3args(k), REMOVE3res |-> REMOVE3res(k), RMDIR3args |-> RMDIR3args(k),
   RMDIR3res |-> RMDIR3res(k), RENAME3args |-> RENAME3args(k), RENAME3res |-> RENAME3res(k),
   LINK3args |-> LINK3args(k), LINK3res |-> LINK3res(k), READDIR3args |-> READDIR3args(k),
   READDIR3res |-> READDIR3res(k), READDIRPLUS3args |-> READDIRPLUS3args(k),
   READDIRPLUS3res |-> READDIRPLUS3res(k), FSSTAT3args |-> FSSTAT3args(k),
   FSSTAT3res |-> FSSTAT3res(k), FSINFO3args |-> FSINFO3args(k), FSINFO3res |-> FSINFO3res(k),
   PATHCONF3args |-> PATHCONF3args(k), PATHCONF3res |-> PATHCONF3res(k),
   COMMIT3args |-> COMMIT3args(k), COMMIT3res |-> COMMIT3res(k), dirpath3 |-> text(k),
   mountres3 |-> mountres3(k), mountopt3 |-> Upto1(mount3(k, 1)),
   exportsopt3 |-> Upto1(exports3(k, 1)), mapping |-> mapping(k), xbool |-> BOOLEAN,
   uint32 |-> uint32(k), pmaplist |-> Upto1(pmaplistelem(k, 1)), call_args |-> call_args(k),
   call_result |-> call_result(k)]
=============================================================================
