------------------------------ MODULE NfsProcs ------------------------------
(* The generated client and server classes (rfc1813 and rfc1057, client.py  *)
(* and server.py). A client's method packs its argument, calls by number    *)
(* and unpacks the result; a server's handle_N unpacks the argument, calls  *)
(* the method and packs what it returns. A void argument is not packed, and *)
(* handle_N does not look at it; a void result is not read.                 *)
EXTENDS NfsConst, PmapWire

Proc(number, args, res) == [number |-> number, args |-> args, res |-> res]
Method(name, args, res) == [name |-> name, args |-> args, res |-> res]
Class(prog, vers, transport, procs) ==
  [prog |-> prog, vers |-> vers, transport |-> transport, procs |-> procs]

nfs_methods ==
    [NULL |-> Proc(0, "void", "void"), GETATTR |-> Proc(1, "GETATTR3args", "GETATTR3res"),
    SETATTR |-> Proc(2, "SETATTR3args", "SETATTR3res"),
    LOOKUP |-> Proc(3, "LOOKUP3args", "LOOKUP3res"),
    ACCESS |-> Proc(4, "ACCESS3args", "ACCESS3res"),
    READLINK |-> Proc(5, "READLINK3args", "READLINK3res"),
    READ |-> Proc(6, "READ3args", "READ3res"), WRITE |-> Proc(7, "WRITE3args", "WRITE3res"),
    CREATE |-> Proc(8, "CREATE3args", "CREATE3res"),
    MKDIR |-> Proc(9, "MKDIR3args", "MKDIR3res"),
    SYMLINK |-> Proc(10, "SYMLINK3args", "SYMLINK3res"),
    MKNOD |-> Proc(11, "MKNOD3args", "MKNOD3res"),
    REMOVE |-> Proc(12, "REMOVE3args", "REMOVE3res"),
    RMDIR |-> Proc(13, "RMDIR3args", "RMDIR3res"),
    RENAME |-> Proc(14, "RENAME3args", "RENAME3res"),
    LINK |-> Proc(15, "LINK3args", "LINK3res"),
    READDIR |-> Proc(16, "READDIR3args", "READDIR3res"),
    READDIRPLUS |-> Proc(17, "READDIRPLUS3args", "READDIRPLUS3res"),
    FSSTAT |-> Proc(18, "FSSTAT3args", "FSSTAT3res"),
    FSINFO |-> Proc(19, "FSINFO3args", "FSINFO3res"),
    PATHCONF |-> Proc(20, "PATHCONF3args", "PATHCONF3res"),
    COMMIT |-> Proc(21, "COMMIT3args", "COMMIT3res")]

client_RawTCPNFS_V3 == Class(NFS_PROGRAM, NFS_V3, "TCP", nfs_methods)
client_TCPNFS_V3 == Class(NFS_PROGRAM, NFS_V3, "TCP", nfs_methods)
client_RawUDPNFS_V3 == Class(NFS_PROGRAM, NFS_V3, "UDP", nfs_methods)
client_UDPNFS_V3 == Class(NFS_PROGRAM, NFS_V3, "UDP", nfs_methods)

mount_methods ==
    [NULL |-> Proc(0, "void", "void"), MNT |-> Proc(1, "dirpath3", "mountres3"),
    DUMP |-> Proc(2, "void", "mountopt3"), UMNT |-> Proc(3, "dirpath3", "void"),
    UMNTALL |-> Proc(4, "void", "void"), EXPORT |-> Proc(5, "void", "exportsopt3")]

client_RawTCPMOUNT_V3 == Class(MOUNT_PROGRAM, MOUNT_V3, "TCP", mount_methods)
client_TCPMOUNT_V3 == Class(MOUNT_PROGRAM, MOUNT_V3, "TCP", mount_methods)
client_RawUDPMOUNT_V3 == Class(MOUNT_PROGRAM, MOUNT_V3, "UDP", mount_methods)
client_UDPMOUNT_V3 == Class(MOUNT_PROGRAM, MOUNT_V3, "UDP", mount_methods)

pmap_methods ==
    [NULL |-> Proc(0, "void", "void"), SET |-> Proc(1, "mapping", "xbool"),
    UNSET |-> Proc(2, "mapping", "xbool"), GETPORT |-> Proc(3, "mapping", "uint32"),
    DUMP |-> Proc(4, "void", "pmaplist"), CALLIT |-> Proc(5, "call_args", "call_result")]

client_RawTCPPMAP_VERS == Class(PMAP_PROG, PMAP_VERS, "TCP", pmap_methods)
client_TCPPMAP_VERS == Class(PMAP_PROG, PMAP_VERS, "TCP", pmap_methods)
client_RawUDPPMAP_VERS == Class(PMAP_PROG, PMAP_VERS, "UDP", pmap_methods)
client_UDPPMAP_VERS == Class(PMAP_PROG, PMAP_VERS, "UDP", pmap_methods)

nfs_handlers ==
    (0 :> Method("NULL", "void", "void") @@
     1 :> Method("GETATTR", "GETATTR3args", "GETATTR3res") @@
     2 :> Method("SETATTR", "SETATTR3args", "SETATTR3res") @@
     3 :> Method("LOOKUP", "LOOKUP3args", "LOOKUP3res") @@
     4 :> Method("ACCESS", "ACCESS3args", "ACCESS3res") @@
     5 :> Method("READLINK", "READLINK3args", "READLINK3res") @@
     6 :> Method("READ", "READ3args", "READ3res") @@
     7 :> Method("WRITE", "WRITE3args", "WRITE3res") @@
     8 :> Method("CREATE", "CREATE3args", "CREATE3res") @@
     9 :> Method("MKDIR", "MKDIR3args", "MKDIR3res") @@
     10 :> Method("SYMLINK", "SYMLINK3args", "SYMLINK3res") @@
     11 :> Method("MKNOD", "MKNOD3args", "MKNOD3res") @@
     12 :> Method("REMOVE", "REMOVE3args", "REMOVE3res") @@
     13 :> Method("RMDIR", "RMDIR3args", "RMDIR3res") @@
     14 :> Method("RENAME", "RENAME3args", "RENAME3res") @@
     15 :> Method("LINK", "LINK3args", "LINK3res") @@
     16 :> Method("READDIR", "READDIR3args", "READDIR3res") @@
     17 :> Method("READDIRPLUS", "READDIRPLUS3args", "READDIRPLUS3res") @@
     18 :> Method("FSSTAT", "FSSTAT3args", "FSSTAT3res") @@
     19 :> Method("FSINFO", "FSINFO3args", "FSINFO3res") @@
     20 :> Method("PATHCONF", "PATHCONF3args", "PATHCONF3res") @@
     21 :> Method("COMMIT", "COMMIT3args", "COMMIT3res"))

server_TCPNFS_V3 == Class(NFS_PROGRAM, NFS_V3, "TCP", nfs_handlers)
server_UDPNFS_V3 == Class(NFS_PROGRAM, NFS_V3, "UDP", nfs_handlers)

mount_handlers ==
    (0 :> Method("NULL", "void", "void") @@ 1 :> Method("MNT", "dirpath3", "mountres3") @@
     2 :> Method("DUMP", "void", "mountopt3") @@ 3 :> Method("UMNT", "dirpath3", "void") @@
     4 :> Method("UMNTALL", "void", "void") @@ 5 :> Method("EXPORT", "void", "exportsopt3"))

server_TCPMOUNT_V3 == Class(MOUNT_PROGRAM, MOUNT_V3, "TCP", mount_handlers)
server_UDPMOUNT_V3 == Class(MOUNT_PROGRAM, MOUNT_V3, "UDP", mount_handlers)

pmap_handlers ==
    (0 :> Method("NULL", "void", "void") @@ 1 :> Method("SET", "mapping", "xbool") @@
     2 :> Method("UNSET", "mapping", "xbool") @@ 3 :> Method("GETPORT", "mapping", "uint32")
     @@ 4 :> Method("DUMP", "void", "pmaplist") @@
     5 :> Method("CALLIT", "call_args", "call_result"))

server_TCPPMAP_VERS == Class(PMAP_PROG, PMAP_VERS, "TCP", pmap_handlers)
server_UDPPMAP_VERS == Class(PMAP_PROG, PMAP_VERS, "UDP", pmap_handlers)
=============================================================================
