------------------------------ MODULE NfsConst ------------------------------
(* The constants of the NFS version 3 and MOUNT version 3 protocols         *)
(* (rfc1813/const.py). A dictionary from the values of an enumeration to    *)
(* their names is the set of those values.                                  *)
EXTENDS Integers

NFS3_FHSIZE == 64
NFS3_COOKIEVERFSIZE == 8
NFS3_CREATEVERFSIZE == 8
NFS3_WRITEVERFSIZE == 8
NFS3_OK == 0
NFS3ERR_PERM == 1
NFS3ERR_NOENT == 2
NFS3ERR_IO == 5
NFS3ERR_NXIO == 6
NFS3ERR_ACCES == 13
NFS3ERR_EXIST == 17
NFS3ERR_XDEV == 18
NFS3ERR_NODEV == 19
NFS3ERR_NOTDIR == 20
NFS3ERR_ISDIR == 21
NFS3ERR_INVAL == 22
NFS3ERR_FBIG == 27
NFS3ERR_NOSPC == 28
NFS3ERR_ROFS == 30
NFS3ERR_MLINK == 31
NFS3ERR_NAMETOOLONG == 63
NFS3ERR_NOTEMPTY == 66
NFS3ERR_DQUOT == 69
NFS3ERR_STALE == 70
NFS3ERR_REMOTE == 71
NFS3ERR_BADHANDLE == 10001
NFS3ERR_NOT_SYNC == 10002
NFS3ERR_BAD_COOKIE == 10003
NFS3ERR_NOTSUPP == 10004
NFS3ERR_TOOSMALL == 10005
NFS3ERR_SERVERFAULT == 10006
NFS3ERR_BADTYPE == 10007
NFS3ERR_JUKEBOX == 10008
nfsstat3 ==
    {NFS3_OK, NFS3ERR_PERM, NFS3ERR_NOENT, NFS3ERR_IO, NFS3ERR_NXIO, NFS3ERR_ACCES,
     NFS3ERR_EXIST, NFS3ERR_XDEV, NFS3ERR_NODEV, NFS3ERR_NOTDIR, NFS3ERR_ISDIR, NFS3ERR_INVAL,
     NFS3ERR_FBIG, NFS3ERR_NOSPC, NFS3ERR_ROFS, NFS3ERR_MLINK, NFS3ERR_NAMETOOLONG,
     NFS3ERR_NOTEMPTY, NFS3ERR_DQUOT, NFS3ERR_STALE, NFS3ERR_REMOTE, NFS3ERR_BADHANDLE,
     NFS3ERR_NOT_SYNC, NFS3ERR_BAD_COOKIE, NFS3ERR_NOTSUPP, NFS3ERR_TOOSMALL,
     NFS3ERR_SERVERFAULT, NFS3ERR_BADTYPE, NFS3ERR_JUKEBOX}
NF3REG == 1
NF3DIR == 2
NF3BLK == 3
NF3CHR == 4
NF3LNK == 5
NF3SOCK == 6
NF3FIFO == 7
ftype3 == {NF3REG, NF3DIR, NF3BLK, NF3CHR, NF3LNK, NF3SOCK, NF3FIFO}
DONT_CHANGE == 0
SET_TO_SERVER_TIME == 1
SET_TO_CLIENT_TIME == 2
time_how == {DONT_CHANGE, SET_TO_SERVER_TIME, SET_TO_CLIENT_TIME}
NFS_PROGRAM == 100003
NFS_V3 == 3
UNSTABLE == 0
DATA_SYNC == 1
FILE_SYNC == 2
stable_how == {UNSTABLE, DATA_SYNC, FILE_SYNC}
UNCHECKED == 0
GUARDED == 1
EXCLUSIVE == 2
createmode3 == {UNCHECKED, GUARDED, EXCLUSIVE}
MNTPATHLEN3 == 1024
MNTNAMLEN3 == 255
FHSIZE3 == 64
MNT3_OK == 0
MNT3ERR_PERM == 1
MNT3ERR_NOENT == 2
MNT3ERR_IO == 5
MNT3ERR_ACCES == 13
MNT3ERR_NOTDIR == 20
MNT3ERR_INVAL == 22
MNT3ERR_NAMETOOLONG == 63
MNT3ERR_NOTSUPP == 10004
MNT3ERR_SERVERFAULT == 10006
mountstat3 ==
    {MNT3_OK, MNT3ERR_PERM, MNT3ERR_NOENT, MNT3ERR_IO, MNT3ERR_ACCES, MNT3ERR_NOTDIR,
     MNT3ERR_INVAL, MNT3ERR_NAMETOOLONG, MNT3ERR_NOTSUPP, MNT3ERR_SERVERFAULT}
MOUNT_PROGRAM == 100005
MOUNT_V3 == 3
=============================================================================
